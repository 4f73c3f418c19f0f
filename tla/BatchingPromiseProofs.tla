------------------------ MODULE BatchingPromiseProofs ------------------------
(* Batching implements BatchPromise, for every value of the constants.        *)
EXTENDS BatchingImplements, BatchingProofs

(* A batch is of one zaak, and what its status says is in step with its lock. *)

ReadersKnowZaak ==
  \A w \in DOMAIN reading : \A b \in reading[w].open :
    b \in DOMAIN batches /\ batches[b].zaak = reading[w].zaak

WritersKnowZaak ==
  \A w \in DOMAIN writing :
    /\ writing[w].batch \in DOMAIN batches => batches[writing[w].batch].zaak = writing[w].zaak
    /\ \A v \in DOMAIN writing \ {w} : writing[v].batch # writing[w].batch

NotificationsKnowZaak ==
  \A n \in DOMAIN notif :
    notif[n].batch \in DOMAIN batches /\ batches[notif[n].batch].zaak = notif[n].zaak

PendingUntilLocked ==
  \A b \in DOMAIN batches : batches[b].locked <=> batches[b].status # "pending"

PromiseInv ==
  BatchInv /\ ReadersKnowZaak /\ WritersKnowZaak /\ NotificationsKnowZaak /\ PendingUntilLocked

\* At first there are no rows and no transactions.
LEMMA InitPromiseInv == Init => PromiseInv
<1> SUFFICES ASSUME Init PROVE PromiseInv
  OBVIOUS
<1>1. DOMAIN notif = {} /\ DOMAIN batches = {} /\ DOMAIN writing = {} /\ DOMAIN reading = {}
  BY DEF Init, Empty
<1> QED
  BY <1>1, InitBatchInv DEF PromiseInv, ReadersKnowZaak, WritersKnowZaak, NotificationsKnowZaak,
     PendingUntilLocked

\* A batch keeps its zaak.
LEMMA ZaakStays ==
  ASSUME BatchInv, Next, NEW b \in DOMAIN batches
  PROVE  b \in DOMAIN batches' /\ batches'[b].zaak = batches[b].zaak
<1>1. b \in DOMAIN batches' /\ batches[b] \in BatchRow
  BY BatchesStay DEF BatchInv, TypeOK, IsTable
<1>2. /\ [batches[b] EXCEPT !.locked = TRUE, !.status = "processing"].zaak = batches[b].zaak
      /\ [batches[b] EXCEPT !.status = "failed"].zaak = batches[b].zaak
      /\ [batches[b] EXCEPT !.processedAt = TRUE, !.status = "processed"].zaak = batches[b].zaak
  BY <1>1 DEF BatchRow
<1> QED
  BY <1>1, <1>2, BatchSteps

\* A batch is new when the transaction that made it commits.
LEMMA NewBatches ==
  ASSUME BatchInv, Next, NEW b \in DOMAIN batches' \ DOMAIN batches
  PROVE  \E w \in Workers : /\ CommitIngest(w) /\ b = writing[w].batch
                            /\ batches'[b] = NewBatch(writing[w].zaak)
<1>1. ASSUME NEW w \in Workers, CommitIngest(w)
      PROVE  b = writing[w].batch /\ batches'[b] = NewBatch(writing[w].zaak)
  BY <1>1 DEF CommitIngest, Put
<1>2. ASSUME NEW a \in Batches, BatchStep(a) PROVE DOMAIN batches' = DOMAIN batches
  BY <1>2 DEF BatchStep, DispatchBatch, LockForProcessing, BuildChain
<1>3. ASSUME NEW c \in Chains, JobStep(c) \/ FailureBreaks(c) \/ WorkerCrash(c) \/ RetryFailedJob(c)
      PROVE  DOMAIN batches' = DOMAIN batches
  BY <1>3 DEF JobStep, RefuseJob, HandleFails, StartHandle, MarkProcessed, CallCorsa,
     CreateZaak, Release, DispatchNextJob,
     MarkBatchProcessed, MarkBatchFails, CatchFailure, RecordFailure, StoreFailedJob, FailureBreaks,
     WorkerCrash, RetryFailedJob, tables,
     MarkProcessedOnce, MarkFailedUnlessProcessed
<1> QED
  BY <1>1, <1>2, <1>3 DEF Next, IngestStep, ReadOpenBatch, AddNotificationToBatch,
     AbortIngest, TimerExpires, FlushExpiredBatches, DispatchCrash, tables

\* What an ingest has read are batches of its zaak.
LEMMA StepReadersKnowZaak ==
  ASSUME PromiseInv, Next
  PROVE  ReadersKnowZaak'
<1> SUFFICES ASSUME NEW w \in DOMAIN reading', NEW b \in reading'[w].open
             PROVE  b \in DOMAIN batches' /\ batches'[b].zaak = reading'[w].zaak
  BY DEF ReadersKnowZaak
<1>1. CASE w \in DOMAIN reading /\ reading'[w] = reading[w]
  BY <1>1, ZaakStays DEF PromiseInv, ReadersKnowZaak
<1>2. ASSUME NEW v \in Workers, NEW z \in Zaken, NEW k \in Delivered, ReadOpenBatch(v, z, k)
      PROVE  b \in DOMAIN batches' /\ batches'[b].zaak = reading'[w].zaak
  <2>1. CASE w = v
    BY <1>2, <2>1 DEF ReadOpenBatch, Put, OpenBatches, tables
  <2>2. CASE w # v
    BY <1>1, <1>2, <2>2 DEF ReadOpenBatch, Put
  <2> QED
    BY <2>1, <2>2
<1>3. ASSUME NEW v \in Workers, IngestStep(v) \/ AbortIngest(v)
      PROVE  w \in DOMAIN reading /\ reading'[w] = reading[w]
  BY <1>3 DEF IngestStep, AddNotificationToBatch, CommitIngest, AbortIngest, Drop
<1>4. ASSUME NEW c \in Chains, JobStep(c) \/ FailureBreaks(c) \/ WorkerCrash(c) \/ RetryFailedJob(c)
      PROVE  UNCHANGED reading
  BY <1>4 DEF JobStep, RefuseJob, HandleFails, StartHandle, MarkProcessed, CallCorsa, CreateZaak,
     Release, DispatchNextJob,
     MarkBatchProcessed, MarkBatchFails, CatchFailure, RecordFailure, StoreFailedJob, FailureBreaks,
     WorkerCrash, RetryFailedJob, ingest
<1> QED
  BY <1>1, <1>2, <1>3, <1>4 DEF Next, BatchStep, TimerExpires, FlushExpiredBatches, DispatchBatch,
     BuildChain, DispatchCrash, ingest

\* An open transaction holds the row of a batch of its zaak, which no other one holds.
LEMMA StepWritersKnowZaak ==
  ASSUME PromiseInv, Next
  PROVE  WritersKnowZaak'
<1>0. BatchInv /\ WritersKnowZaak /\ ReadersKnowZaak
  BY DEF PromiseInv
<1>1. ASSUME NEW w \in DOMAIN writing, NEW b \in DOMAIN batches', b = writing[w].batch,
             w \in DOMAIN writing', writing'[w] = writing[w]
      PROVE  batches'[b].zaak = writing[w].zaak
  <2>1. CASE b \in DOMAIN batches
    BY <1>0, <1>1, <2>1, ZaakStays DEF WritersKnowZaak
  <2>2. CASE b \notin DOMAIN batches
    <3>1. PICK v \in Workers : /\ CommitIngest(v) /\ b = writing[v].batch
                               /\ batches'[b] = NewBatch(writing[v].zaak)
      BY <1>0, <2>2, NewBatches
    <3>2. v \in DOMAIN writing /\ w # v
      BY <1>1, <3>1 DEF CommitIngest, Drop
    <3> QED
      BY <1>0, <1>1, <3>1, <3>2 DEF WritersKnowZaak
  <2> QED
    BY <2>1, <2>2
<1>2. ASSUME NEW w \in DOMAIN writing', writing'[w].batch \in DOMAIN batches'
      PROVE  batches'[writing'[w].batch].zaak = writing'[w].zaak
  <2>1. CASE w \in DOMAIN writing /\ writing'[w] = writing[w]
    BY <1>1, <1>2, <2>1
  <2>2. CASE /\ UNCHANGED tables /\ TakesBatch(w, writing'[w].batch)
             /\ w \in DOMAIN reading /\ writing'[w].zaak = reading[w].zaak
    BY <1>0, <1>2, <2>2 DEF TakesBatch, Lockable, ReadersKnowZaak, tables
  <2> QED
    BY <1>0, <2>1, <2>2, WritingSteps
<1>3. ASSUME NEW w \in DOMAIN writing', NEW v \in DOMAIN writing', v # w
      PROVE  writing'[v].batch # writing'[w].batch
  <2> DEFINE Old(u) == u \in DOMAIN writing /\ writing'[u] = writing[u]
             New(u) == /\ RowFree(writing'[u].batch)
                       /\ \A x \in DOMAIN writing' \ {u} : x \in DOMAIN writing /\ writing'[x] = writing[x]
  <2>1. ASSUME NEW u \in DOMAIN writing' PROVE Old(u) \/ New(u)
    BY <1>0, <2>1, WritingSteps DEF TakesBatch
  <2>2. CASE Old(v) /\ Old(w)
    BY <1>0, <1>3, <2>2 DEF WritersKnowZaak
  <2>3. CASE New(v)
    BY <1>3, <2>3 DEF RowFree
  <2>4. CASE New(w)
    BY <1>3, <2>4 DEF RowFree
  <2> QED
    BY <2>1, <2>2, <2>3, <2>4
<1> QED
  BY <1>2, <1>3 DEF WritersKnowZaak

\* A notification has the zaak of its batch.
LEMMA StepNotificationsKnowZaak ==
  ASSUME PromiseInv, Next
  PROVE  NotificationsKnowZaak'
<1>0. BatchInv /\ NotificationsKnowZaak /\ WritersKnowZaak
  BY DEF PromiseInv
<1> SUFFICES ASSUME NEW n \in DOMAIN notif'
             PROVE  /\ notif'[n].batch \in DOMAIN batches'
                    /\ batches'[notif'[n].batch].zaak = notif'[n].zaak
  BY DEF NotificationsKnowZaak
<1>1. CASE n \in DOMAIN notif
  BY <1>0, <1>1, ZaakStays, NotificationsStay DEF NotificationsKnowZaak
<1>2. CASE n \notin DOMAIN notif
  <2>1. PICK w \in Workers : CommitIngest(w) /\ n = writing[w].id
    BY <1>0, <1>2, NewNotificationsJoinOpen
  <2>2. /\ w \in DOMAIN writing
        /\ notif'[n].batch = writing[w].batch /\ notif'[n].zaak = writing[w].zaak
    BY <2>1 DEF CommitIngest, Put
  <2>3. CASE writing[w].batch \in DOMAIN batches
    BY <1>0, <2>2, <2>3, ZaakStays DEF WritersKnowZaak
  <2>4. CASE writing[w].batch \notin DOMAIN batches
    BY <2>1, <2>2, <2>4 DEF CommitIngest, Put, NewBatch
  <2> QED
    BY <2>3, <2>4
<1> QED
  BY <1>1, <1>2

\* A batch stays pending until it is locked, and never becomes pending again.
LEMMA StepPendingUntilLocked ==
  ASSUME PromiseInv, Next
  PROVE  PendingUntilLocked'
<1>0. BatchInv /\ PendingUntilLocked
  BY DEF PromiseInv
<1> SUFFICES ASSUME NEW b \in DOMAIN batches'
             PROVE  batches'[b].locked <=> batches'[b].status # "pending"
  BY DEF PendingUntilLocked
<1>1. CASE b \in DOMAIN batches
  BY <1>0, <1>1, BatchFields DEF PendingUntilLocked
<1>2. CASE b \notin DOMAIN batches
  BY <1>0, <1>2, BatchSteps
<1> QED
  BY <1>1, <1>2

\* Every step keeps the parts of PromiseInv.
LEMMA StepPromiseInv == PromiseInv /\ [Next]_vars => PromiseInv'
<1> SUFFICES ASSUME PromiseInv, [Next]_vars PROVE PromiseInv'
  OBVIOUS
<1>1. BatchInv'
  BY StepBatchInv DEF PromiseInv
<1>2. CASE Next
  BY <1>1, <1>2, StepReadersKnowZaak, StepWritersKnowZaak, StepNotificationsKnowZaak,
     StepPendingUntilLocked DEF PromiseInv
<1>3. CASE UNCHANGED vars
  BY <1>1, <1>3 DEF PromiseInv, vars, tables, ingest, ReadersKnowZaak, WritersKnowZaak,
     NotificationsKnowZaak, PendingUntilLocked
<1> QED
  BY <1>2, <1>3

\* Every batch holds notifications of its own zaak only.
THEOREM PromiseInvHolds == Spec => []PromiseInv
BY InitPromiseInv, StepPromiseInv, PTL DEF Spec

(* The refinement. *)

Content == [n \in DOMAIN notif |->
              [zaak |-> notif[n].zaak, kind |-> notif[n].kind, batch |-> notif[n].batch]]
Stage == [b \in DOMAIN batches |-> batches[b].status]
AllHandled == {n \in DOMAIN notif : Handled(n)}

\* The first state is a first state of the promise.
LEMMA InitPromise == Init => Promise!Init
BY DEF Init, Promise!Init, Empty

\* The members of a batch in the promise are the notifications linked to it, and what it owes
\* to handle is what gets a job.
LEMMA OwedIsJobs ==
  ASSUME TypeOK, NEW b
  PROVE  Promise!Members(b) = Linked(b) /\ Promise!Owed(b) = Jobs(b)
<1>1. Promise!Members(b) = Linked(b)
  BY DEF Promise!Members, Linked
<1>2. \A n \in Linked(b) : n \in Nat
  BY ConstantsAssumption DEF Linked, TypeOK, IsTable, Ids
<1>3. ASSUME NEW n \in Linked(b)
      PROVE  n \in Promise!Owed(b) <=> ~IsRepeatedZaak(n)
  <2>1. n \in DOMAIN notif /\ notif[n].batch = b
    BY DEF Linked
  <2>2. \A m \in Linked(b) : m \in DOMAIN notif
    BY DEF Linked
  <2>3. n \in Promise!Owed(b) <=>
          (notif[n].kind = "create:zaak" =>
             \A m \in Linked(b) : notif[m].kind = "create:zaak" => n <= m)
    BY <1>1, <2>1, <2>2 DEF Promise!Owed
  <2> QED
    BY <1>2, <2>1, <2>3 DEF IsRepeatedZaak
<1> QED
  BY <1>1, <1>3 DEF Jobs, Promise!Owed

\* The promise knows the kind of each notification, and so the order.
LEMMA SameOrder ==
  ASSUME NEW m \in DOMAIN notif, NEW n \in DOMAIN notif
  PROVE  Promise!Precedes(Content, m, n) <=> Precedes(notif, m, n)
<1>1. \A k : Promise!ProcessingGroup(k) = ProcessingGroup(k)
  BY DEF Promise!ProcessingGroup, ProcessingGroup, Promise!DocumentUpdates, DocumentUpdates
<1> QED
  BY <1>1 DEF Promise!Precedes, Precedes, Content

(* What each step is to the promise. *)

\* The promise sees no change while the zaak, kind and batch of each row stay.
LEMMA SameRows ==
  ASSUME DOMAIN notif' = DOMAIN notif,
         \A n \in DOMAIN notif : /\ notif'[n].zaak = notif[n].zaak /\ notif'[n].kind = notif[n].kind
                                 /\ notif'[n].batch = notif[n].batch
  PROVE  Content' = Content
BY DEF Content

\* The promise sees no change while the status of each batch stays.
LEMMA SameStatus ==
  ASSUME DOMAIN batches' = DOMAIN batches,
         \A b \in DOMAIN batches : batches'[b].status = batches[b].status
  PROVE  Stage' = Stage
BY DEF Stage

\* A step that changes no table is a stutter of the promise.
LEMMA TablesStutter ==
  ASSUME UNCHANGED tables
  PROVE  [Promise!Next]_(Promise!vars)
BY DEF tables, Promise!vars, Handled

\* A commit is a notification that is accepted by a pending batch, or a new one.
LEMMA CommitPromise ==
  ASSUME PromiseInv, NEW w \in Workers, CommitIngest(w)
  PROVE  [Promise!Next]_(Promise!vars)
<1>0. PICK t : t = writing[w]
  OBVIOUS
<1>1. /\ w \in DOMAIN writing /\ t \in Transaction
      /\ notif' = Put(notif, t.id, [zaak |-> t.zaak, kind |-> t.kind, batch |-> t.batch,
                                    processed |-> FALSE, ignored |-> FALSE, failed |-> FALSE])
      /\ batches' = IF t.batch \in DOMAIN batches THEN batches
                    ELSE Put(batches, t.batch, NewBatch(t.zaak))
  BY <1>0, RowOfTable DEF CommitIngest, PromiseInv, BatchInv, TypeOK
<1>2. t.id \in Ids /\ t.batch \in Batches /\ t.zaak \in Zaken /\ t.kind \in Kinds
  BY <1>1 DEF Transaction
<1>3. t.id \notin DOMAIN notif
  BY <1>0, <1>1 DEF PromiseInv, BatchInv, FreshIds
<1>4. t.batch \in DOMAIN batches =>
        batches[t.batch].status = "pending" /\ batches[t.batch].zaak = t.zaak
  BY <1>0, <1>1 DEF PromiseInv, BatchInv, WritersHoldOpenBatches, WritersKnowZaak, PendingUntilLocked
<1>5. \A m \in Linked(t.batch) : notif[m].zaak = t.zaak
  BY <1>4 DEF PromiseInv, NotificationsKnowZaak, Linked
<1>6. Content' = [m \in DOMAIN Content \cup {t.id} |->
                    IF m = t.id THEN [zaak |-> t.zaak, kind |-> t.kind, batch |-> t.batch] ELSE Content[m]]
  BY <1>1 DEF Content, Put
<1>7. Stage' = [a \in DOMAIN Stage \cup {t.batch} |-> IF a = t.batch THEN "pending" ELSE Stage[a]]
  BY <1>1, <1>4 DEF Stage, Put, NewBatch
<1>8. AllHandled' = AllHandled
  <2>1. ~Handled(t.id)'
    BY <1>1 DEF Handled, Put
  <2>2. \A m \in DOMAIN notif : m \in DOMAIN notif' /\ notif'[m] = notif[m]
    BY <1>1, <1>3 DEF Put
  <2>3. DOMAIN notif' = DOMAIN notif \cup {t.id}
    BY <1>1 DEF Put
  <2> QED
    BY <2>1, <2>2, <2>3 DEF AllHandled, Handled
<1>9. \A m \in Promise!Members(t.batch) : Content[m].zaak = t.zaak
  BY <1>5, OwedIsJobs DEF PromiseInv, BatchInv, Content, Linked
<1>10. Promise!Accept(t.id, t.batch, t.zaak, t.kind)
  BY <1>3, <1>4, <1>6, <1>7, <1>8, <1>9 DEF Promise!Accept, Content, Stage, AllHandled
<1>11. t.kind \in Promise!Kinds
  BY <1>2 DEF Kinds, SupportedActions, DocumentUpdates, Unsupported,
     Promise!Kinds, Promise!SupportedActions, Promise!DocumentUpdates, Promise!Unsupported
<1> QED
  BY <1>2, <1>10, <1>11 DEF Promise!Next

\* A lock closes the batch.
LEMMA LockPromise ==
  ASSUME PromiseInv, NEW b \in Batches, DispatchBatch(b)
  PROVE  [Promise!Next]_(Promise!vars)
<1>0. BatchInv /\ UNCHANGED notif /\ b \in DOMAIN batches
  BY DEF PromiseInv, DispatchBatch, BatchInv, LockedWhenWorkedOn
<1>1. CASE LockForProcessing(b)
  <2>1. batches \in [DOMAIN batches -> BatchRow] /\ batches[b].status = "pending"
    BY <1>0, <1>1 DEF LockForProcessing, PromiseInv, PendingUntilLocked, BatchInv, TypeOK, IsTable
  <2>2. batches' = [batches EXCEPT ![b] = [batches[b] EXCEPT !.locked = TRUE, !.status = "processing"]]
    BY <1>1 DEF LockForProcessing
  <2>3. [batches[b] EXCEPT !.locked = TRUE, !.status = "processing"].status = "processing"
    BY <1>0, <2>1 DEF BatchRow
  <2>4. Stage' = [Stage EXCEPT ![b] = "processing"]
    BY <1>0, <2>2, <2>3 DEF Stage
  <2>5. UNCHANGED <<Content, AllHandled>>
    BY <1>0 DEF Content, AllHandled, Handled
  <2>6. Promise!Close(b)
    BY <1>0, <2>1, <2>4, <2>5 DEF Promise!Close, Content, Stage, AllHandled
  <2> QED
    BY <2>6 DEF Promise!Next
<1>2. CASE UNCHANGED batches
  BY <1>0, <1>2, TablesStutter DEF tables
<1> QED
  BY <1>1, <1>2 DEF DispatchBatch

\* Every job of a batch is handled when it is marked as processed.
LEMMA FinishPromise ==
  ASSUME PromiseInv, NEW b \in DOMAIN batches, batches[b].locked, \A n \in Jobs(b) : Handled(n),
         UNCHANGED notif,
         batches' = batches \/ batches' = [batches EXCEPT ![b].processedAt = TRUE, ![b].status = "processed"]
  PROVE  [Promise!Next]_(Promise!vars)
<1>1. CASE batches' = batches
  BY <1>1, TablesStutter DEF tables
<1>2. CASE batches' = [batches EXCEPT ![b] = [batches[b] EXCEPT !.processedAt = TRUE, !.status = "processed"]]
  <2>1. batches \in [DOMAIN batches -> BatchRow] /\ b \in Batches /\ batches[b].status # "pending"
    BY DEF PromiseInv, PendingUntilLocked, BatchInv, TypeOK, IsTable
  <2>2. [batches[b] EXCEPT !.processedAt = TRUE, !.status = "processed"].status = "processed"
    BY <2>1 DEF BatchRow
  <2>3. Stage' = [Stage EXCEPT ![b] = "processed"]
    BY <1>2, <2>2 DEF Stage
  <2>4. UNCHANGED <<Content, AllHandled>>
    BY DEF Content, AllHandled, Handled
  <2>5. CASE batches[b].status = "processed"
    <3>1. Stage' = Stage
      BY <2>3, <2>5 DEF Stage
    <3> QED
      BY <2>4, <3>1 DEF Promise!vars, Content, Stage, AllHandled
  <2>6. CASE batches[b].status # "processed"
    <3>1. batches[b].status \in {"processing", "failed"}
      BY <2>1, <2>6 DEF BatchRow
    <3>2. Promise!Owed(b) \subseteq AllHandled
      BY OwedIsJobs DEF PromiseInv, BatchInv, AllHandled, Jobs, Linked
    <3>3. Promise!Finish(b)
      BY <2>3, <2>4, <3>1, <3>2 DEF Promise!Finish, Content, Stage, AllHandled
    <3> QED
      BY <2>1, <3>3 DEF Promise!Next
  <2> QED
    BY <2>5, <2>6
<1> QED
  BY <1>1, <1>2

\* A job that failed makes its batch failed, unless it was failed already or is processed, and
\* marks its notification, which the promise is not about.
LEMMA FailPromise ==
  ASSUME PromiseInv, NEW c \in DOMAIN chain, CatchFailure(c) \/ RecordFailure(c)
  PROVE  [Promise!Next]_(Promise!vars)
<1>b. PICK b : b = chain[c].batch
  OBVIOUS
<1>0. b \in DOMAIN batches /\ batches[b].locked /\ batches[b].status # "pending"
  BY <1>b DEF PromiseInv, BatchInv, LockedWhenWorkedOn, PendingUntilLocked
<1>t. /\ batches \in [DOMAIN batches -> BatchRow] /\ b \in Batches
      /\ notif \in [DOMAIN notif -> NotificationRow]
  BY <1>0 DEF PromiseInv, BatchInv, TypeOK, IsTable
<1>1. UNCHANGED <<Content, AllHandled>>
  <2>1. notif' = notif \/ \E n : notif' = [notif EXCEPT ![n] = [notif[n] EXCEPT !.failed = TRUE]]
    BY DEF CatchFailure, RecordFailure
  <2>2. ASSUME NEW n \in DOMAIN notif
        PROVE  LET row == [notif[n] EXCEPT !.failed = TRUE]
               IN  /\ row.zaak = notif[n].zaak /\ row.kind = notif[n].kind /\ row.batch = notif[n].batch
                   /\ row.processed = notif[n].processed /\ row.ignored = notif[n].ignored
    BY <1>t DEF NotificationRow
  <2>3. /\ DOMAIN notif' = DOMAIN notif
        /\ \A n \in DOMAIN notif :
             /\ notif'[n].zaak = notif[n].zaak /\ notif'[n].kind = notif[n].kind
             /\ notif'[n].batch = notif[n].batch
             /\ notif'[n].processed = notif[n].processed /\ notif'[n].ignored = notif[n].ignored
    <3>1. DOMAIN notif' = DOMAIN notif
      BY <2>1
    <3>2. ASSUME NEW n \in DOMAIN notif
          PROVE  notif'[n] = notif[n] \/ notif'[n] = [notif[n] EXCEPT !.failed = TRUE]
      BY <2>1
    <3> QED
      BY <2>2, <3>1, <3>2
  <2> QED
    BY <2>3, SameRows DEF AllHandled, Handled
<1>2. CASE batches' = batches
  BY <1>1, <1>2 DEF Promise!vars, Content, Stage, AllHandled
<1>3. CASE ~batches[b].processedAt /\ batches' = [batches EXCEPT ![b] = [batches[b] EXCEPT !.status = "failed"]]
  <2>1. [batches[b] EXCEPT !.status = "failed"].status = "failed"
    BY <1>0, <1>t DEF BatchRow
  <2>2. Stage' = [Stage EXCEPT ![b] = "failed"]
    BY <1>0, <1>3, <2>1 DEF Stage
  <2>3. batches[b].status # "processed"
    BY <1>0, <1>3 DEF PromiseInv, BatchInv, LockedWhenWorkedOn
  <2>4. CASE batches[b].status = "failed"
    <3>1. Stage' = Stage
      BY <2>2, <2>4 DEF Stage
    <3> QED
      BY <1>1, <3>1 DEF Promise!vars, Content, Stage, AllHandled
  <2>5. CASE batches[b].status # "failed"
    <3>1. batches[b].status = "processing"
      BY <1>0, <1>t, <2>3, <2>5 DEF BatchRow
    <3>2. Promise!Fail(b)
      BY <1>0, <1>1, <2>2, <3>1 DEF Promise!Fail, Content, Stage, AllHandled
    <3> QED
      BY <1>t, <3>2 DEF Promise!Next
  <2> QED
    BY <2>4, <2>5
<1> QED
  BY <1>2, <1>3, <1>b DEF CatchFailure, RecordFailure, MarkFailedUnlessProcessed

\* The first job of a chain is handled when everything its batch owes before it is.
LEMMA HandlePromise ==
  ASSUME PromiseInv, NEW c \in DOMAIN chain, NEW n \in Ids, IsHead(c, n), UNCHANGED <<batches, Content>>,
         AllHandled' = AllHandled \cup {n}
  PROVE  [Promise!Next]_(Promise!vars)
<1>b. PICK b : b = chain[c].batch
  OBVIOUS
<1>0. BatchInv /\ TypeOK
  BY DEF PromiseInv, BatchInv
<1>1. /\ n \in Jobs(b) /\ n \in DOMAIN notif /\ notif[n].batch = b
      /\ b \in DOMAIN batches /\ batches[b].locked /\ batches[b].status # "pending"
  BY <1>b DEF PromiseInv, BatchInv, ChainsPassHandled, LockedWhenWorkedOn, PendingUntilLocked, IsHead, Jobs, Linked
<1>2. Stage' = Stage
  BY DEF Stage
<1>3. CASE Handled(n)
  <2>1. AllHandled' = AllHandled
    BY <1>1, <1>3 DEF AllHandled
  <2> QED
    BY <1>2, <2>1 DEF Promise!vars, Content, Stage, AllHandled
<1>4. CASE ~Handled(n)
  <2>1. batches[b].status \in {"processing", "failed"}
    <3>1. batches[b] \in BatchRow
      BY <1>0, <1>1 DEF TypeOK, IsTable
    <3>2. batches[b].status # "processed"
      BY <1>0, <1>1, <1>4 DEF BatchInv, ProcessedMeansHandled
    <3> QED
      BY <1>1, <3>1, <3>2 DEF BatchRow
  <2>2. ASSUME NEW m \in Jobs(b), Precedes(notif, m, n) PROVE Handled(m)
    <3>1. CASE m \notin chain[c].todo
      BY <1>0, <1>b, <2>2, <3>1 DEF BatchInv, ChainsPassHandled
    <3>2. CASE m \in chain[c].todo
      <4>1. m \in Nat /\ n \in Nat
        BY <1>0, <1>1, <2>2, ConstantsAssumption DEF Jobs, Linked, TypeOK, IsTable, Ids
      <4>2. \A k : ProcessingGroup(k) \in 0..3
        BY DEF ProcessingGroup
      <4>3. ~Precedes(notif, n, m) /\ m # n
        BY <2>2, <4>1, <4>2 DEF Precedes
      <4> QED
        BY <3>2, <4>3 DEF IsHead
    <3> QED
      BY <3>1, <3>2
  <2>3. Promise!Owed(b) = Jobs(b) /\ Jobs(b) \subseteq DOMAIN notif
    BY <1>0, OwedIsJobs DEF Jobs, Linked
  <2>4. {m \in Promise!Owed(b) : Promise!Precedes(Content, m, n)} \subseteq AllHandled
    BY <1>1, <2>2, <2>3, SameOrder DEF AllHandled
  <2>5. Content[n].batch = b
    BY <1>1 DEF Content
  <2>6. Promise!Handle(n)
    BY <1>1, <1>2, <1>4, <2>1, <2>3, <2>4, <2>5 DEF Promise!Handle, Content, Stage, AllHandled
  <2> QED
    BY <2>6 DEF Promise!Next
<1> QED
  BY <1>3, <1>4

\* The steps of a job before its handler.
LEMMA StartPromise ==
  ASSUME PromiseInv, NEW c \in Chains, StartHandle(c)
  PROVE  [Promise!Next]_(Promise!vars)
<1>1. PICK n \in Ids, ignored \in BOOLEAN :
        /\ IsHead(c, n)
        /\ notif' = [notif EXCEPT ![n] = [notif[n] EXCEPT !.ignored = notif[n].ignored \/ ignored]]
  BY DEF StartHandle
<1>2. c \in DOMAIN chain /\ UNCHANGED batches
  BY DEF StartHandle
<1>3. n \in DOMAIN notif /\ notif \in [DOMAIN notif -> NotificationRow]
  BY <1>1, <1>2 DEF PromiseInv, BatchInv, ChainsPassHandled, IsHead, Jobs, Linked, TypeOK, IsTable
<1>4. LET row == [notif[n] EXCEPT !.ignored = notif[n].ignored \/ ignored]
      IN  /\ row.zaak = notif[n].zaak /\ row.kind = notif[n].kind /\ row.batch = notif[n].batch
          /\ row.processed = notif[n].processed /\ row.ignored = (notif[n].ignored \/ ignored)
  BY <1>3 DEF NotificationRow
<1>5. Content' = Content
  BY <1>1, <1>4, SameRows
<1>6. AllHandled' = AllHandled \/ AllHandled' = AllHandled \cup {n}
  BY <1>1, <1>3, <1>4 DEF AllHandled, Handled
<1>7. CASE AllHandled' = AllHandled
  BY <1>2, <1>5, <1>7 DEF Promise!vars, Content, AllHandled
<1>8. CASE AllHandled' = AllHandled \cup {n}
  BY <1>1, <1>2, <1>5, <1>8, HandlePromise
<1> QED
  BY <1>6, <1>7, <1>8

\* The notification that a job marks as processed is one the promise lets be handled.
LEMMA MarkPromise ==
  ASSUME PromiseInv, NEW c \in Chains, MarkProcessed(c)
  PROVE  [Promise!Next]_(Promise!vars)
<1>1. PICK n \in Ids :
        /\ IsHead(c, n)
        /\ \E kept \in {FALSE, notif[n].failed} :
             notif' = [notif EXCEPT ![n] = [notif[n] EXCEPT !.processed = TRUE, !.failed = kept]]
  BY DEF MarkProcessed
<1>2. c \in DOMAIN chain /\ UNCHANGED batches
  BY DEF MarkProcessed
<1>3. n \in DOMAIN notif /\ notif \in [DOMAIN notif -> NotificationRow]
  BY <1>1, <1>2 DEF PromiseInv, BatchInv, ChainsPassHandled, IsHead, Jobs, Linked, TypeOK, IsTable
<1>4. \A kept :
        LET row == [notif[n] EXCEPT !.processed = TRUE, !.failed = kept]
        IN  /\ row.zaak = notif[n].zaak /\ row.kind = notif[n].kind /\ row.batch = notif[n].batch
          /\ row.processed
  BY <1>3 DEF NotificationRow
<1>5. Content' = Content
  BY <1>1, <1>4, SameRows
<1>6. AllHandled' = AllHandled \cup {n}
  BY <1>1, <1>3, <1>4 DEF AllHandled, Handled
<1> QED
  BY <1>1, <1>2, <1>5, <1>6, HandlePromise

\* Every step of the batch route.
LEMMA StepPromise ==
  ASSUME PromiseInv, [Next]_vars
  PROVE  [Promise!Next]_(Promise!vars)
<1>1. ASSUME NEW w \in Workers, CommitIngest(w) PROVE [Promise!Next]_(Promise!vars)
  BY <1>1, CommitPromise
<1>2. ASSUME NEW b \in Batches, DispatchBatch(b) PROVE [Promise!Next]_(Promise!vars)
  BY <1>2, LockPromise
<1>3. ASSUME NEW b \in Batches, BuildChain(b) PROVE [Promise!Next]_(Promise!vars)
  <2>1. b \in DOMAIN batches /\ batches[b].locked /\ UNCHANGED notif
    BY <1>3 DEF BuildChain, PromiseInv, BatchInv, LockedWhenWorkedOn
  <2>2. CASE batches' = batches
    BY <2>1, <2>2, TablesStutter DEF tables
  <2>3. CASE /\ Linked(b) = {}
             /\ batches' = [batches EXCEPT ![b].processedAt = TRUE, ![b].status = "processed"]
    <3>1. \A n \in Jobs(b) : Handled(n)
      BY <2>3 DEF Jobs
    <3> QED
      BY <2>1, <2>3, <3>1, FinishPromise
  <2> QED
    BY <1>3, <2>2, <2>3 DEF BuildChain
<1>4. ASSUME NEW c \in DOMAIN chain, chain[c].todo = {}, MarkProcessedOnce(chain[c].batch), UNCHANGED notif
      PROVE  [Promise!Next]_(Promise!vars)
  <2>1. /\ chain[c].batch \in DOMAIN batches /\ batches[chain[c].batch].locked
        /\ \A n \in Jobs(chain[c].batch) : Handled(n)
    BY <1>4 DEF PromiseInv, BatchInv, LockedWhenWorkedOn, ChainsPassHandled
  <2> QED
    BY <1>4, <2>1, FinishPromise DEF MarkProcessedOnce
<1>5. ASSUME NEW c \in Chains, JobStep(c) PROVE [Promise!Next]_(Promise!vars)
  <2>1. CASE CatchFailure(c) \/ RecordFailure(c)
    BY <2>1, FailPromise DEF CatchFailure, RecordFailure
  <2>2. CASE StartHandle(c)
    BY <2>2, StartPromise
  <2>3. CASE MarkProcessed(c)
    BY <2>3, MarkPromise
  <2>4. CASE MarkBatchProcessed(c) \/ MarkBatchFails(c)
    BY <1>4, <2>4, TablesStutter DEF MarkBatchProcessed, MarkBatchFails, tables
  <2>5. CASE \/ RefuseJob(c) \/ HandleFails(c) \/ CallCorsa(c) \/ CreateZaak(c) \/ Release(c)
             \/ DispatchNextJob(c) \/ StoreFailedJob(c)
    BY <2>5, TablesStutter DEF RefuseJob, HandleFails, CallCorsa, CreateZaak, Release,
       DispatchNextJob, StoreFailedJob
  <2> QED
    BY <1>5, <2>1, <2>2, <2>3, <2>4, <2>5 DEF JobStep
<1>6. ASSUME NEW c \in Chains, WorkerCrash(c) PROVE [Promise!Next]_(Promise!vars)
  <2>1. /\ c \in DOMAIN chain /\ UNCHANGED notif
        /\ UNCHANGED batches \/ (chain[c].todo = {} /\ MarkProcessedOnce(chain[c].batch))
    BY <1>6 DEF WorkerCrash
  <2> QED
    BY <1>4, <2>1, TablesStutter DEF tables
<1>7. CASE UNCHANGED tables
  BY <1>7, TablesStutter
<1> QED
  BY <1>1, <1>2, <1>3, <1>5, <1>6, <1>7 DEF Next, vars, IngestStep, BatchStep, ReadOpenBatch,
     AddNotificationToBatch, AbortIngest, TimerExpires, FlushExpiredBatches, DispatchCrash, FailureBreaks,
     RetryFailedJob, tables

\* The rows of the tables, whatever workers, queues, crashes and retries do to them, keep the
\* promise: what joins a batch and when, the order of handling, and when a batch is processed.
THEOREM KeepsPromiseHolds == Spec => KeepsPromise
<1>1. PromiseInv /\ [Next]_vars => [Promise!Next]_(Promise!vars)
  BY StepPromise
<1> QED
  BY <1>1, InitPromise, PromiseInvHolds, PTL DEF Spec, KeepsPromise, Promise!Spec
=============================================================================
