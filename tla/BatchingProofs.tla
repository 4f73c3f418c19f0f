--------------------------- MODULE BatchingProofs ---------------------------
(* Theorems about Batching, for every value of its constants. *)
EXTENDS Batching, TablesProofs

(* Types. *)

\* The first batches, notifications and jobs have the right type: there are none.
LEMMA InitTypeOK == Init => TypeOK
<1> SUFFICES ASSUME Init PROVE TypeOK
  OBVIOUS
<1>1. creations \in [Zaken -> Nat]
  BY DEF Init
<1> QED
  BY <1>1, EmptyIsTable DEF Init, TypeOK

\* The step of a job writes one of the steps a chain can be at.
LEMMA GoToIsTable ==
  ASSUME TypeOK, NEW c \in DOMAIN chain,
         NEW step \in {"queued", "running", "creating", "sent", "done",
                      "failing", "caught", "recorded", "failed"},
         GoTo(c, step)
  PROVE  IsTable(chain', Chains, ChainRow)
BY DEF GoTo, TypeOK, IsTable, ChainRow

\* Marking a batch as processed or failed writes a status the table knows.
LEMMA MarkIsTable ==
  ASSUME TypeOK, NEW b, MarkProcessedOnce(b) \/ MarkFailedUnlessProcessed(b)
  PROVE  IsTable(batches', Batches, BatchRow)
<1>1. DOMAIN batches \subseteq Batches /\ batches \in [DOMAIN batches -> BatchRow]
  BY DEF TypeOK, IsTable
<1>2. CASE MarkProcessedOnce(b)
  <2>1. \/ batches' = batches
        \/ batches' = [batches EXCEPT ![b] = [batches[b] EXCEPT !.processedAt = TRUE, !.status = "processed"]]
    BY <1>2 DEF MarkProcessedOnce
  <2>2. b \in DOMAIN batches =>
          [batches[b] EXCEPT !.processedAt = TRUE, !.status = "processed"] \in BatchRow
    BY <1>1 DEF BatchRow
  <2> QED
    BY <1>1, <2>1, <2>2 DEF IsTable
<1>3. CASE MarkFailedUnlessProcessed(b)
  <2>1. batches' = batches \/ batches' = [batches EXCEPT ![b] = [batches[b] EXCEPT !.status = "failed"]]
    BY <1>3 DEF MarkFailedUnlessProcessed
  <2>2. b \in DOMAIN batches => [batches[b] EXCEPT !.status = "failed"] \in BatchRow
    BY <1>1 DEF BatchRow
  <2> QED
    BY <1>1, <2>1, <2>2 DEF IsTable
<1> QED
  BY <1>2, <1>3

\* The steps of a job that failed change its chain, its batch and its notification to rows
\* of their type.
LEMMA FailureIsTable ==
  ASSUME TypeOK, NEW c \in DOMAIN chain,
         \/ RefuseJob(c) \/ HandleFails(c) \/ MarkBatchFails(c)
         \/ CatchFailure(c) \/ RecordFailure(c) \/ StoreFailedJob(c)
  PROVE  /\ IsTable(chain', Chains, ChainRow)
         /\ IsTable(batches', Batches, BatchRow)
         /\ IsTable(notif', Ids, NotificationRow)
<1>1. IsTable(chain', Chains, ChainRow)
  BY GoToIsTable DEF RefuseJob, HandleFails, MarkBatchFails, FailJob, CatchFailure, RecordFailure,
     StoreFailedJob
<1>2. IsTable(batches', Batches, BatchRow)
  <2>1. \/ UNCHANGED batches
        \/ MarkProcessedOnce(chain[c].batch) \/ MarkFailedUnlessProcessed(chain[c].batch)
    BY DEF RefuseJob, HandleFails, MarkBatchFails, CatchFailure, RecordFailure, StoreFailedJob, tables
  <2> QED
    BY <2>1, MarkIsTable DEF TypeOK
<1>3. IsTable(notif', Ids, NotificationRow)
  <2>0. DOMAIN notif \subseteq Ids /\ notif \in [DOMAIN notif -> NotificationRow]
    BY DEF TypeOK, IsTable
  <2>1. \/ notif' = notif
        \/ \E n \in Ids : notif' = [notif EXCEPT ![n] = [notif[n] EXCEPT !.failed = TRUE]]
    BY DEF RefuseJob, HandleFails, MarkBatchFails, CatchFailure, RecordFailure, StoreFailedJob, tables
  <2>2. ASSUME NEW n \in DOMAIN notif PROVE [notif[n] EXCEPT !.failed = TRUE] \in NotificationRow
    BY <2>0 DEF NotificationRow
  <2> QED
    BY <2>0, <2>1, <2>2 DEF IsTable
<1> QED
  BY <1>1, <1>2, <1>3

\* What is left of a chain after its first job is a chain.
LEMMA RemainderIsChain ==
  ASSUME TypeOK, NEW c \in DOMAIN chain, NEW n
  PROVE  Remainder(c, n) \in ChainRow
BY DEF Remainder, TypeOK, IsTable, ChainRow

\* Every step of an ingest keeps the types.
LEMMA IngestTypeOK ==
  ASSUME TypeOK, NEW w \in Workers,
         (\E z \in Zaken, k \in Delivered : ReadOpenBatch(w, z, k)) \/ IngestStep(w) \/ AbortIngest(w)
  PROVE  TypeOK'
<1>1. ASSUME NEW z \in Zaken, NEW k \in Delivered, ReadOpenBatch(w, z, k) PROVE TypeOK'
  <2>1. [zaak |-> z, kind |-> k, open |-> OpenBatches(z)] \in Snapshot
    BY ConstantsAssumption DEF OpenBatches, Snapshot, TypeOK, IsTable
  <2>2. IsTable(reading', Workers, Snapshot)
    BY <1>1, <2>1, PutIsTable DEF ReadOpenBatch, TypeOK
  <2> QED
    BY <1>1, <2>2 DEF ReadOpenBatch, TypeOK, tables, queue, corsa, luck
<1>2. CASE AddNotificationToBatch(w)
  <2>1. PICK b \in Batches :
          /\ writing' = Put(writing, w, [zaak |-> reading[w].zaak, kind |-> reading[w].kind,
                                         batch |-> b, id |-> lastId + 1])
          /\ timer' = timer \cup {b}
    BY <1>2 DEF AddNotificationToBatch
  <2>2. reading[w] \in Snapshot
    BY <1>2, RowOfTable DEF AddNotificationToBatch, TypeOK
  <2>3. lastId + 1 \in Ids
    BY <1>2, ConstantsAssumption DEF AddNotificationToBatch, TypeOK, Ids
  <2>4. IsTable(writing', Workers, Transaction)
    <3>1. [zaak |-> reading[w].zaak, kind |-> reading[w].kind, batch |-> b, id |-> lastId + 1]
            \in Transaction
      BY <2>2, <2>3 DEF Snapshot, Transaction
    <3> QED
      BY <2>1, <3>1, PutIsTable DEF TypeOK
  <2>5. IsTable(reading', Workers, Snapshot)
    BY <1>2, DropIsTable DEF AddNotificationToBatch, TypeOK
  <2> QED
    BY <1>2, <2>1, <2>4, <2>5 DEF AddNotificationToBatch, TypeOK, tables, corsa, luck
<1>3. CASE CommitIngest(w)
  <2> DEFINE t == writing[w]
  <2>1. t \in Transaction
    BY <1>3, RowOfTable DEF CommitIngest, TypeOK
  <2>2. IsTable(notif', Ids, NotificationRow)
    <3>1. [zaak |-> t.zaak, kind |-> t.kind, batch |-> t.batch,
           processed |-> FALSE, ignored |-> FALSE, failed |-> FALSE] \in NotificationRow
      BY <2>1 DEF Transaction, NotificationRow
    <3>2. t.id \in Ids
      BY <2>1 DEF Transaction
    <3> QED
      BY <1>3, <3>1, <3>2, PutIsTable DEF CommitIngest, TypeOK
  <2>3. IsTable(batches', Batches, BatchRow)
    <3>1. NewBatch(t.zaak) \in BatchRow /\ t.batch \in Batches
      BY <2>1 DEF Transaction, NewBatch, BatchRow
    <3> QED
      BY <1>3, <3>1, PutIsTable DEF CommitIngest, TypeOK
  <2>4. IsTable(writing', Workers, Transaction)
    BY <1>3, DropIsTable DEF CommitIngest, TypeOK
  <2> QED
    BY <1>3, <2>2, <2>3, <2>4 DEF CommitIngest, TypeOK, queue, corsa, luck
<1>4. CASE AbortIngest(w)
  <2>1. IsTable(reading', Workers, Snapshot) /\ IsTable(writing', Workers, Transaction)
    BY <1>4, DropIsTable DEF AbortIngest, TypeOK
  <2>2. timer' \subseteq Batches
    BY <1>4 DEF AbortIngest, TypeOK
  <2> QED
    BY <1>4, <2>1, <2>2 DEF AbortIngest, TypeOK, tables, corsa
<1> QED
  BY <1>1, <1>2, <1>3, <1>4 DEF IngestStep

\* Every step of the scheduler and of a DispatchBatch job keeps the types.
LEMMA DispatchTypeOK ==
  ASSUME TypeOK,
         \/ \E b \in Batches : TimerExpires(b) \/ BatchStep(b) \/ DispatchCrash(b)
         \/ FlushExpiredBatches
  PROVE  TypeOK'
<1>1. ASSUME NEW b \in Batches, TimerExpires(b) PROVE TypeOK'
  BY <1>1 DEF TimerExpires, TypeOK, tables, ingest, corsa, luck
<1>2. ASSUME NEW b \in Batches, DispatchBatch(b) PROVE TypeOK'
  <2>0. DOMAIN batches \subseteq Batches /\ batches \in [DOMAIN batches -> BatchRow]
    BY DEF TypeOK, IsTable
  <2>1. \/ batches' = batches
        \/ batches' = [batches EXCEPT ![b] = [batches[b] EXCEPT !.locked = TRUE, !.status = "processing"]]
    BY <1>2 DEF DispatchBatch, LockForProcessing
  <2>2. b \in DOMAIN batches =>
          [batches[b] EXCEPT !.locked = TRUE, !.status = "processing"] \in BatchRow
    BY <2>0 DEF BatchRow
  <2>3. IsTable(batches', Batches, BatchRow)
    BY <2>0, <2>1, <2>2 DEF IsTable
  <2>4. dispatched' \in [Batches -> Nat]
    BY <1>2 DEF DispatchBatch, TypeOK
  <2>5. building' \subseteq Batches
    BY <1>2 DEF DispatchBatch, TypeOK
  <2> QED
    BY <1>2, <2>3, <2>4, <2>5 DEF DispatchBatch, TypeOK, ingest, corsa, luck
<1>3. ASSUME NEW b \in Batches, BuildChain(b) PROVE TypeOK'
  <2>0. DOMAIN batches \subseteq Batches /\ batches \in [DOMAIN batches -> BatchRow]
    BY DEF TypeOK, IsTable
  <2>1. \/ batches' = batches
        \/ batches' = [batches EXCEPT ![b] = [batches[b] EXCEPT !.processedAt = TRUE, !.status = "processed"]]
    BY <1>3 DEF BuildChain
  <2>2. b \in DOMAIN batches =>
          [batches[b] EXCEPT !.processedAt = TRUE, !.status = "processed"] \in BatchRow
    BY <2>0 DEF BatchRow
  <2>3. IsTable(batches', Batches, BatchRow)
    BY <2>0, <2>1, <2>2 DEF IsTable
  <2>4. IsTable(chain', Chains, ChainRow)
    <3>1. [batch |-> b, todo |-> Jobs(b), attempts |-> 0, step |-> "queued"] \in ChainRow
      BY DEF Jobs, Linked, ChainRow, TypeOK, IsTable
    <3>2. \/ chain' = chain
          \/ \E c \in Chains :
               chain' = Put(chain, c, [batch |-> b, todo |-> Jobs(b), attempts |-> 0, step |-> "queued"])
      BY <1>3 DEF BuildChain
    <3> QED
      BY <3>1, <3>2, PutIsTable DEF TypeOK
  <2> QED
    BY <1>3, <2>3, <2>4 DEF BuildChain, TypeOK, ingest, corsa, luck
<1>4. ASSUME NEW b \in Batches, DispatchCrash(b) PROVE TypeOK'
  <2>1. dispatched' \in [Batches -> Nat] /\ building' \subseteq Batches
    BY <1>4 DEF DispatchCrash, TypeOK
  <2> QED
    BY <1>4, <2>1 DEF DispatchCrash, TypeOK, tables, ingest, corsa
<1>5. CASE FlushExpiredBatches
  <2>1. dispatched' \in [Batches -> Nat]
    BY <1>5 DEF FlushExpiredBatches, TypeOK
  <2> QED
    BY <1>5, <2>1 DEF FlushExpiredBatches, TypeOK, tables, ingest, corsa, luck
<1> QED
  BY <1>1, <1>2, <1>3, <1>4, <1>5 DEF BatchStep

\* Every step of a job, a worker that dies and a retry keep the types.
LEMMA JobTypeOK ==
  ASSUME TypeOK, NEW c \in Chains, JobStep(c) \/ FailureBreaks(c) \/ WorkerCrash(c) \/ RetryFailedJob(c)
  PROVE  TypeOK'
<1>0. c \in DOMAIN chain
  BY DEF JobStep, RefuseJob, StartHandle, CallCorsa, CreateZaak, HandleFails, Release,
         MarkProcessed, DispatchNextJob,
     MarkBatchProcessed, MarkBatchFails, CatchFailure, RecordFailure, StoreFailedJob, FailureBreaks,
     WorkerCrash, RetryFailedJob
<1>t. /\ DOMAIN chain \subseteq Chains /\ chain \in [DOMAIN chain -> ChainRow]
      /\ DOMAIN notif \subseteq Ids /\ notif \in [DOMAIN notif -> NotificationRow]
      /\ chain[c] \in ChainRow
  BY <1>0 DEF TypeOK, IsTable
<1>1. CASE \/ RefuseJob(c) \/ HandleFails(c) \/ MarkBatchFails(c)
           \/ CatchFailure(c) \/ RecordFailure(c) \/ StoreFailedJob(c)
  <2>1. UNCHANGED <<ingest, queue, corsa, luck>>
    BY <1>1 DEF RefuseJob, HandleFails, MarkBatchFails, CatchFailure, RecordFailure, StoreFailedJob
  <2> QED
    BY <1>0, <1>1, <2>1, FailureIsTable DEF TypeOK, ingest, queue, corsa, luck
<1>2. CASE StartHandle(c)
  <2>1. PICK n \in Ids, step \in {"done", "running"}, ignored \in BOOLEAN :
          /\ chain' = [chain EXCEPT ![c] = [chain[c] EXCEPT !.attempts = chain[c].attempts + 1, !.step = step]]
          /\ notif' = [notif EXCEPT ![n] = [notif[n] EXCEPT !.ignored = notif[n].ignored \/ ignored]]
    <3>1. PICK n \in Ids :
            /\ IsHead(c, n)
            /\ LET skip   == Handled(n)
                   ignore == ~skip /\ notif[n].kind = Unsupported
                   next   == IF skip \/ ignore THEN "done" ELSE "running"
               IN  /\ chain' = [chain EXCEPT ![c] = [@ EXCEPT !.attempts = chain[c].attempts + 1, !.step = next]]
                   /\ notif' = [notif EXCEPT ![n].ignored = @ \/ ignore]
      BY <1>2 DEF StartHandle
    <3> QED
      BY <3>1
  <2>2. [chain[c] EXCEPT !.attempts = chain[c].attempts + 1, !.step = step] \in ChainRow
    <3>1. chain[c].attempts + 1 \in Nat
      BY <1>t DEF ChainRow
    <3>2. ASSUME NEW a \in Nat PROVE [chain[c] EXCEPT !.attempts = a, !.step = step] \in ChainRow
      BY <1>t DEF ChainRow
    <3> QED
      BY <3>1, <3>2
  <2>3. n \in DOMAIN notif => [notif[n] EXCEPT !.ignored = notif[n].ignored \/ ignored] \in NotificationRow
    BY <1>t DEF NotificationRow
  <2>4. IsTable(chain', Chains, ChainRow)
    BY <1>t, <2>1, <2>2 DEF IsTable
  <2>5. IsTable(notif', Ids, NotificationRow)
    BY <1>t, <2>1, <2>3 DEF IsTable
  <2> QED
    BY <1>2, <2>4, <2>5 DEF StartHandle, TypeOK, ingest, queue, corsa, luck
<1>3. CASE CallCorsa(c)
  <2>1. IsTable(chain', Chains, ChainRow)
    BY <1>0, <1>3, GoToIsTable DEF CallCorsa
  <2>2. sent' \in [Ids -> Nat]
    BY <1>3 DEF CallCorsa, TypeOK
  <2> QED
    BY <1>3, <2>1, <2>2 DEF CallCorsa, TypeOK, tables, ingest, queue, luck
<1>4. CASE CreateZaak(c)
  <2>1. IsTable(chain', Chains, ChainRow)
    BY <1>0, <1>4, GoToIsTable DEF CreateZaak
  <2>2. PICK n \in Ids : /\ creations' = [creations EXCEPT ![notif[n].zaak] = @ + 1]
                         /\ sent' = [sent EXCEPT ![n] = @ + 1]
    BY <1>4 DEF CreateZaak
  <2>3. sent' \in [Ids -> Nat]
    BY <2>2 DEF TypeOK
  <2>4. creations' \in [Zaken -> Nat]
    <3>1. creations \in [Zaken -> Nat]
      BY DEF TypeOK
    <3>2. ASSUME NEW z PROVE [creations EXCEPT ![z] = creations[z] + 1] \in [Zaken -> Nat]
      <4>1. ASSUME NEW y \in Zaken, y = z PROVE creations[z] + 1 \in Nat
        BY <3>1, <4>1
      <4> QED
        BY <3>1, <4>1
    <3> QED
      BY <2>2, <3>2
  <2> QED
    BY <1>4, <2>1, <2>3, <2>4 DEF CreateZaak, TypeOK, tables, ingest, queue, luck
<1>5. CASE Release(c)
  BY <1>0, <1>5, GoToIsTable DEF Release, TypeOK, tables, ingest, queue, corsa, luck
<1>6. CASE MarkProcessed(c)
  <2>1. IsTable(chain', Chains, ChainRow)
    BY <1>0, <1>6, GoToIsTable DEF MarkProcessed
  <2>2. PICK n \in Ids : \E kept \in {FALSE, notif[n].failed} :
          notif' = [notif EXCEPT ![n] = [notif[n] EXCEPT !.processed = TRUE, !.failed = kept]]
    BY <1>6 DEF MarkProcessed
  <2>3. ASSUME n \in DOMAIN notif, NEW kept \in {FALSE, notif[n].failed}
        PROVE  [notif[n] EXCEPT !.processed = TRUE, !.failed = kept] \in NotificationRow
    <3>1. notif[n] \in NotificationRow
      BY <1>t, <2>3
    <3>2. kept \in BOOLEAN
      BY <3>1 DEF NotificationRow
    <3> QED
      BY <3>1, <3>2 DEF NotificationRow
  <2>4. IsTable(notif', Ids, NotificationRow)
    BY <1>t, <2>2, <2>3 DEF IsTable
  <2> QED
    BY <1>6, <2>1, <2>4 DEF MarkProcessed, TypeOK, ingest, queue, corsa, luck
<1>7. CASE DispatchNextJob(c)
  <2>1. PICK n : chain' = [chain EXCEPT ![c] = Remainder(c, n)]
    BY <1>7 DEF DispatchNextJob
  <2>2. IsTable(chain', Chains, ChainRow)
    BY <1>0, <1>t, <2>1, RemainderIsChain DEF IsTable
  <2> QED
    BY <1>7, <2>2 DEF DispatchNextJob, TypeOK, tables, ingest, queue, corsa, luck
<1>8. CASE MarkBatchProcessed(c)
  <2>1. IsTable(chain', Chains, ChainRow)
    BY <1>8, DropIsTable DEF MarkBatchProcessed, TypeOK
  <2>2. IsTable(batches', Batches, BatchRow)
    BY <1>8, MarkIsTable DEF MarkBatchProcessed
  <2> QED
    BY <1>8, <2>1, <2>2 DEF MarkBatchProcessed, TypeOK, ingest, queue, corsa, luck
<1>9. CASE WorkerCrash(c)
  <2>1. IsTable(batches', Batches, BatchRow)
    BY <1>9, MarkIsTable DEF WorkerCrash, TypeOK
  <2>2. IsTable(chain', Chains, ChainRow)
    <3>1. CASE GoTo(c, "queued") \/ GoTo(c, "failing")
      BY <1>0, <3>1, GoToIsTable
    <3>2. ASSUME NEW d \in Chains \ DOMAIN chain, NEW n \in Ids,
                 NEW next \in {"queued", "failing"},
                 chain' = [Put(chain, d, Remainder(c, n)) EXCEPT ![c].step = next]
          PROVE  IsTable(chain', Chains, ChainRow)
      <4> DEFINE copy == Put(chain, d, Remainder(c, n))
      <4>1. IsTable(copy, Chains, ChainRow)
        BY <1>0, RemainderIsChain, PutIsTable DEF TypeOK
      <4>2. chain' = [copy EXCEPT ![c] = [copy[c] EXCEPT !.step = next]]
        BY <3>2
      <4>3. c \in DOMAIN copy => [copy[c] EXCEPT !.step = next] \in ChainRow
        BY <4>1 DEF IsTable, ChainRow
      <4> QED
        BY <4>1, <4>2, <4>3 DEF IsTable
    <3>3. CASE chain' = [chain EXCEPT ![c].attempts = 1]
      BY <1>t, <3>3 DEF IsTable, ChainRow
    <3> QED
      BY <1>9, <3>1, <3>2, <3>3 DEF WorkerCrash
  <2>3. faults' \in Nat
    BY <1>9 DEF WorkerCrash, TypeOK
  <2> QED
    BY <1>9, <2>1, <2>2, <2>3 DEF WorkerCrash, TypeOK, ingest, queue, corsa
<1>10. CASE RetryFailedJob(c)
  <2>1. [chain[c] EXCEPT !.step = "queued", !.attempts = 0] \in ChainRow
    BY <1>t DEF ChainRow
  <2>2. IsTable(chain', Chains, ChainRow)
    BY <1>10, <2>1, PutIsTable DEF RetryFailedJob, TypeOK
  <2> QED
    BY <1>10, <2>2 DEF RetryFailedJob, TypeOK, tables, ingest, queue, corsa
<1>11. CASE FailureBreaks(c)
  <2>1. IsTable(chain', Chains, ChainRow)
    BY <1>0, <1>11, GoToIsTable, DropIsTable DEF FailureBreaks, TypeOK
  <2>2. faults' \in Nat
    BY <1>11 DEF FailureBreaks, TypeOK
  <2> QED
    BY <1>11, <2>1, <2>2 DEF FailureBreaks, TypeOK, tables, ingest, queue, corsa
<1> QED
  BY <1>1, <1>2, <1>3, <1>4, <1>5, <1>6, <1>7, <1>8, <1>9, <1>10, <1>11 DEF JobStep

\* Every step keeps the types.
LEMMA StepTypeOK == TypeOK /\ [Next]_vars => TypeOK'
<1> SUFFICES ASSUME TypeOK, [Next]_vars PROVE TypeOK'
  OBVIOUS
<1>1. CASE Next
  BY <1>1, IngestTypeOK, DispatchTypeOK, JobTypeOK DEF Next
<1>2. CASE UNCHANGED vars
  BY <1>2 DEF TypeOK, vars, tables, ingest, queue, corsa, luck
<1> QED
  BY <1>1, <1>2

\* Types hold in every state: no step of an ingest, the scheduler, a dispatch or a job,
\* and no crash or retry, writes a row, a payload or a counter of another type.
THEOREM TypesHold == Spec => []TypeOK
BY InitTypeOK, StepTypeOK, PTL DEF Spec

-----------------------------------------------------------------------------
(* The inductive invariant, and what follows from it. *)

\* The first state has no transactions, batches or chains.
LEMMA InitBatchInv == Init => BatchInv
<1> SUFFICES ASSUME Init PROVE BatchInv
  OBVIOUS
<1>1. DOMAIN notif = {} /\ DOMAIN batches = {} /\ DOMAIN writing = {} /\ DOMAIN chain = {}
  BY DEF Init, Empty
<1>2. FreshIds /\ WritersHoldOpenBatches
  BY <1>1 DEF FreshIds, WritersHoldOpenBatches
<1>3. LockedWhenWorkedOn
  BY <1>1 DEF LockedWhenWorkedOn, Init
<1>4. ChainsPassHandled /\ ProcessedMeansHandled
  BY <1>1 DEF ChainsPassHandled, ProcessedMeansHandled
<1> QED
  BY <1>2, <1>3, <1>4, InitTypeOK DEF BatchInv

(* What a step does to the rows of the tables. *)

\* A job changes at most the flags of one notification, and takes back neither that it is
\* processed nor that it is ignored.
LEMMA JobChangesFlags ==
  ASSUME TypeOK, NEW c \in Chains, JobStep(c) \/ FailureBreaks(c) \/ WorkerCrash(c) \/ RetryFailedJob(c),
         NEW n \in DOMAIN notif
  PROVE  /\ DOMAIN notif' = DOMAIN notif
         /\ notif'[n].zaak = notif[n].zaak /\ notif'[n].kind = notif[n].kind
         /\ notif'[n].batch = notif[n].batch
         /\ Handled(n) => Handled(n)'
<1>0. notif \in [DOMAIN notif -> NotificationRow]
  BY DEF TypeOK, IsTable
<1>1. CASE UNCHANGED notif
  BY <1>1 DEF Handled
<1>2. ASSUME NEW m, notif' = [notif EXCEPT ![m].failed = TRUE]
      PROVE  /\ DOMAIN notif' = DOMAIN notif
             /\ notif'[n].zaak = notif[n].zaak /\ notif'[n].kind = notif[n].kind
             /\ notif'[n].batch = notif[n].batch
             /\ Handled(n) => Handled(n)'
  BY <1>0, <1>2 DEF Handled, NotificationRow
<1>3. CASE StartHandle(c)
  <2>1. PICK m \in Ids, ignored \in BOOLEAN :
          notif' = [notif EXCEPT ![m] = [notif[m] EXCEPT !.ignored = notif[m].ignored \/ ignored]]
    BY <1>3 DEF StartHandle
  <2>2. CASE m = n
    <3>1. notif'[n] = [notif[n] EXCEPT !.ignored = notif[n].ignored \/ ignored]
      BY <2>1, <2>2
    <3>2. DOMAIN notif' = DOMAIN notif
      BY <2>1
    <3> QED
      BY <1>0, <3>1, <3>2 DEF Handled, NotificationRow
  <2> QED
    BY <2>1, <2>2 DEF Handled
<1>4. CASE MarkProcessed(c)
  <2>1. PICK m \in Ids : \E kept \in {FALSE, notif[m].failed} :
          notif' = [notif EXCEPT ![m] = [notif[m] EXCEPT !.processed = TRUE, !.failed = kept]]
    BY <1>4 DEF MarkProcessed
  <2> QED
    BY <1>0, <2>1 DEF Handled, NotificationRow
<1>5. CASE RecordFailure(c)
  BY <1>1, <1>2, <1>5 DEF RecordFailure
<1> QED
  BY <1>1, <1>3, <1>4, <1>5 DEF JobStep, RefuseJob, HandleFails, CallCorsa, CreateZaak, Release, DispatchNextJob,
     MarkBatchProcessed, MarkBatchFails, CatchFailure, RecordFailure, StoreFailedJob, FailureBreaks,
     WorkerCrash, RetryFailedJob, tables

\* Every step keeps the notifications, their kinds and their batches, and what was handled.
LEMMA NotificationsStay ==
  ASSUME BatchInv, Next, NEW n \in DOMAIN notif
  PROVE  /\ n \in DOMAIN notif'
         /\ notif'[n].zaak = notif[n].zaak /\ notif'[n].kind = notif[n].kind
         /\ notif'[n].batch = notif[n].batch
         /\ Handled(n) => Handled(n)'
<1>1. CASE UNCHANGED notif
  BY <1>1 DEF Handled
<1>2. ASSUME NEW w \in Workers, CommitIngest(w)
      PROVE  n \in DOMAIN notif' /\ notif'[n] = notif[n]
  BY <1>2 DEF CommitIngest, Put, BatchInv, FreshIds
<1>3. ASSUME NEW c \in Chains, JobStep(c) \/ FailureBreaks(c) \/ WorkerCrash(c) \/ RetryFailedJob(c)
      PROVE  /\ n \in DOMAIN notif'
             /\ notif'[n].zaak = notif[n].zaak /\ notif'[n].kind = notif[n].kind
             /\ notif'[n].batch = notif[n].batch
             /\ Handled(n) => Handled(n)'
  BY <1>3, JobChangesFlags DEF BatchInv
<1> QED
  BY <1>1, <1>2, <1>3 DEF Next, IngestStep, BatchStep, ReadOpenBatch, AddNotificationToBatch,
     AbortIngest, TimerExpires, FlushExpiredBatches, DispatchBatch, BuildChain, DispatchCrash,
     tables, Handled

\* A notification that is new after a step is linked to a batch that is new or open.
LEMMA NewNotificationsJoinOpen ==
  ASSUME BatchInv, Next, NEW n \in DOMAIN notif' \ DOMAIN notif
  PROVE  \E w \in Workers : CommitIngest(w) /\ n = writing[w].id
<1>1. ASSUME NEW c \in Chains, JobStep(c) \/ FailureBreaks(c) \/ WorkerCrash(c) \/ RetryFailedJob(c)
      PROVE  DOMAIN notif' = DOMAIN notif
  BY <1>1, JobChangesFlags DEF BatchInv, JobStep, RefuseJob, HandleFails, StartHandle,
     MarkProcessed, CallCorsa, CreateZaak, Release, DispatchNextJob,
     MarkBatchProcessed, MarkBatchFails, CatchFailure, RecordFailure, StoreFailedJob, FailureBreaks,
     WorkerCrash, RetryFailedJob, tables
<1>2. ASSUME NEW w \in Workers, CommitIngest(w)
      PROVE  n = writing[w].id
  BY <1>2 DEF CommitIngest, Put
<1> QED
  BY <1>1, <1>2 DEF Next, IngestStep, BatchStep, ReadOpenBatch, AddNotificationToBatch,
     AbortIngest, TimerExpires, FlushExpiredBatches, DispatchBatch, BuildChain, DispatchCrash, tables

\* A row of batches is new and open, or stays as it was, or is changed the way one of the
\* four statements on the table changes it.
LEMMA BatchSteps ==
  ASSUME BatchInv, Next, NEW b \in DOMAIN batches'
  PROVE  \/ /\ b \notin DOMAIN batches /\ ~batches'[b].locked
            /\ ~batches'[b].processedAt /\ batches'[b].status = "pending"
         \/ b \in DOMAIN batches /\ batches'[b] = batches[b]
         \/ /\ b \in DOMAIN batches /\ ~batches[b].locked /\ RowFree(b) /\ UNCHANGED writing
            /\ batches'[b] = [batches[b] EXCEPT !.locked = TRUE, !.status = "processing"]
         \/ /\ b \in DOMAIN batches /\ batches[b].locked /\ ~batches[b].processedAt
            /\ batches'[b] = [batches[b] EXCEPT !.status = "failed"]
         \/ /\ b \in DOMAIN batches /\ batches[b].locked
            /\ Linked(b) = {} \/ \E c \in DOMAIN chain : chain[c].batch = b /\ chain[c].todo = {}
            /\ batches'[b] = [batches[b] EXCEPT !.processedAt = TRUE, !.status = "processed"]
<1> DEFINE Open    == /\ b \notin DOMAIN batches /\ ~batches'[b].locked
                      /\ ~batches'[b].processedAt /\ batches'[b].status = "pending"
           Same    == b \in DOMAIN batches /\ batches'[b] = batches[b]
           Locks   == /\ b \in DOMAIN batches /\ ~batches[b].locked /\ RowFree(b)
                      /\ UNCHANGED writing
                      /\ batches'[b] = [batches[b] EXCEPT !.locked = TRUE, !.status = "processing"]
           Fails   == /\ b \in DOMAIN batches /\ batches[b].locked /\ ~batches[b].processedAt
                      /\ batches'[b] = [batches[b] EXCEPT !.status = "failed"]
           IsDone  == Linked(b) = {} \/ \E c \in DOMAIN chain : chain[c].batch = b /\ chain[c].todo = {}
           Closes  == /\ b \in DOMAIN batches /\ batches[b].locked /\ IsDone
                      /\ batches'[b] = [batches[b] EXCEPT !.processedAt = TRUE, !.status = "processed"]
<1> SUFFICES Open \/ Same \/ Locks \/ Fails \/ Closes
  OBVIOUS
<1>1. CASE UNCHANGED batches
  BY <1>1
<1>2. ASSUME NEW w \in Workers, CommitIngest(w) PROVE Open \/ Same
  BY <1>2 DEF CommitIngest, Put, NewBatch
<1>3. ASSUME NEW a \in Batches, DispatchBatch(a) PROVE Same \/ Locks
  BY <1>3 DEF DispatchBatch, LockForProcessing, ingest
<1>4. ASSUME NEW a \in Batches, BuildChain(a) PROVE Same \/ Closes
  BY <1>4 DEF BuildChain, BatchInv, LockedWhenWorkedOn
<1>5. ASSUME NEW c \in DOMAIN chain, MarkFailedUnlessProcessed(chain[c].batch)
      PROVE  Same \/ Fails
  BY <1>5 DEF MarkFailedUnlessProcessed, BatchInv, LockedWhenWorkedOn
<1>6. ASSUME NEW c \in DOMAIN chain, chain[c].todo = {}, MarkProcessedOnce(chain[c].batch)
      PROVE  Same \/ Closes
  BY <1>6 DEF MarkProcessedOnce, BatchInv, LockedWhenWorkedOn
<1>7. ASSUME NEW c \in Chains, CatchFailure(c) PROVE Same \/ Fails
  BY <1>5, <1>7 DEF CatchFailure
<1>8. ASSUME NEW c \in Chains, MarkBatchProcessed(c) \/ MarkBatchFails(c) PROVE Same \/ Closes
  BY <1>1, <1>6, <1>8 DEF MarkBatchProcessed, MarkBatchFails
<1>9. ASSUME NEW c \in Chains, WorkerCrash(c) PROVE Same \/ Closes
  BY <1>1, <1>6, <1>9 DEF WorkerCrash
<1>10. ASSUME NEW c \in Chains, JobStep(c) \/ FailureBreaks(c) \/ RetryFailedJob(c)
       PROVE  Same \/ Fails \/ Closes
  BY <1>1, <1>7, <1>8, <1>10 DEF JobStep, RefuseJob, HandleFails, StartHandle, CallCorsa, CreateZaak,
     Release, MarkProcessed, DispatchNextJob, RecordFailure, StoreFailedJob, FailureBreaks,
     RetryFailedJob, tables
<1> QED
  BY <1>1, <1>2, <1>3, <1>4, <1>9, <1>10 DEF Next, IngestStep, BatchStep, ReadOpenBatch,
     AddNotificationToBatch, AbortIngest, TimerExpires, FlushExpiredBatches, DispatchCrash, tables

\* The same, field by field, for a batch that was there.
LEMMA BatchFields ==
  ASSUME BatchInv, Next, NEW b \in DOMAIN batches \cap DOMAIN batches'
  PROVE  \/ batches'[b] = batches[b]
         \/ /\ ~batches[b].locked /\ batches'[b].locked /\ batches'[b].status = "processing"
            /\ batches'[b].processedAt = batches[b].processedAt
         \/ /\ batches[b].locked /\ ~batches[b].processedAt /\ batches'[b].locked
            /\ batches'[b].status = "failed" /\ ~batches'[b].processedAt
         \/ /\ batches[b].locked /\ batches'[b].locked
            /\ Linked(b) = {} \/ \E c \in DOMAIN chain : chain[c].batch = b /\ chain[c].todo = {}
            /\ batches'[b].processedAt /\ batches'[b].status = "processed"
<1>1. batches[b] \in BatchRow
  BY DEF BatchInv, TypeOK, IsTable
<1>2. ASSUME batches'[b] = [batches[b] EXCEPT !.locked = TRUE, !.status = "processing"]
      PROVE  /\ batches'[b].locked /\ batches'[b].status = "processing"
             /\ batches'[b].processedAt = batches[b].processedAt
  BY <1>1, <1>2 DEF BatchRow
<1>3. ASSUME batches'[b] = [batches[b] EXCEPT !.status = "failed"]
      PROVE  /\ batches'[b].locked = batches[b].locked /\ batches'[b].status = "failed"
             /\ batches'[b].processedAt = batches[b].processedAt
  BY <1>1, <1>3 DEF BatchRow
<1>4. ASSUME batches'[b] = [batches[b] EXCEPT !.processedAt = TRUE, !.status = "processed"]
      PROVE  /\ batches'[b].locked = batches[b].locked /\ batches'[b].status = "processed"
             /\ batches'[b].processedAt
  BY <1>1, <1>4 DEF BatchRow
<1> QED
  BY <1>2, <1>3, <1>4, BatchSteps

\* No step deletes a batch.
LEMMA BatchesRemain ==
  ASSUME BatchInv, Next
  PROVE  DOMAIN batches \subseteq DOMAIN batches'
<1>1. CASE UNCHANGED batches
  BY <1>1
<1>2. ASSUME NEW w \in Workers, CommitIngest(w) PROVE DOMAIN batches \subseteq DOMAIN batches'
  BY <1>2 DEF CommitIngest, Put
<1>3. ASSUME NEW a \in Batches, BatchStep(a) PROVE DOMAIN batches \subseteq DOMAIN batches'
  BY <1>3 DEF BatchStep, DispatchBatch, LockForProcessing, BuildChain
<1>4. ASSUME NEW c \in Chains, JobStep(c) \/ FailureBreaks(c) \/ WorkerCrash(c) \/ RetryFailedJob(c)
      PROVE  DOMAIN batches \subseteq DOMAIN batches'
  BY <1>4 DEF JobStep, RefuseJob, HandleFails, StartHandle, MarkProcessed, CallCorsa,
     CreateZaak, Release, DispatchNextJob,
     MarkBatchProcessed, MarkBatchFails, CatchFailure, RecordFailure, StoreFailedJob, FailureBreaks,
     WorkerCrash, RetryFailedJob, tables,
     MarkProcessedOnce, MarkFailedUnlessProcessed
<1> QED
  BY <1>1, <1>2, <1>3, <1>4 DEF Next, IngestStep, ReadOpenBatch, AddNotificationToBatch,
     AbortIngest, TimerExpires, FlushExpiredBatches, DispatchCrash, tables

\* A batch that is locked stays locked, and one that is processed stays so.
LEMMA BatchesStay ==
  ASSUME BatchInv, Next, NEW b \in DOMAIN batches
  PROVE  /\ b \in DOMAIN batches'
         /\ batches[b].locked => batches'[b].locked
         /\ batches[b].processedAt => batches'[b].processedAt /\ batches'[b].status = "processed"
<1>1. b \in DOMAIN batches' /\ batches[b] \in BatchRow
  BY BatchesRemain DEF BatchInv, TypeOK, IsTable
<1>2. batches[b].processedAt => batches[b].locked /\ batches[b].status = "processed"
  BY DEF BatchInv, LockedWhenWorkedOn
<1> QED
  BY <1>1, <1>2, BatchSteps DEF BatchRow

\* The notifications of a locked batch, and so its jobs, do not change.
LEMMA JobsStay ==
  ASSUME BatchInv, Next, NEW b \in DOMAIN batches, batches[b].locked
  PROVE  Jobs(b)' = Jobs(b) /\ Linked(b)' = Linked(b)
<1>1. Linked(b)' = Linked(b)
  <2>1. ASSUME NEW n \in Linked(b) PROVE n \in Linked(b)'
    BY <2>1, NotificationsStay DEF Linked
  <2>2. ASSUME NEW n \in Linked(b)' PROVE n \in Linked(b)
    <3>1. CASE n \in DOMAIN notif
      BY <2>2, <3>1, NotificationsStay DEF Linked
    <3>2. CASE n \notin DOMAIN notif
      <4>1. PICK w \in Workers : CommitIngest(w) /\ n = writing[w].id
        BY <2>2, <3>2, NewNotificationsJoinOpen DEF Linked
      <4>2. notif'[n].batch = writing[w].batch /\ w \in DOMAIN writing
        BY <4>1 DEF CommitIngest, Put
      <4> QED
        BY <2>2, <4>2 DEF Linked, BatchInv, WritersHoldOpenBatches
    <3> QED
      BY <3>1, <3>2
  <2> QED
    BY <2>1, <2>2
<1>2. \A n \in Linked(b) : notif'[n].kind = notif[n].kind /\ notif[n].batch = b /\ notif'[n].batch = b
  BY NotificationsStay DEF Linked
<1>3. \A n \in Linked(b) : IsRepeatedZaak(n)' <=> IsRepeatedZaak(n)
  BY <1>1, <1>2 DEF IsRepeatedZaak
<1> QED
  BY <1>1, <1>3 DEF Jobs

\* The jobs of a chain have one first job.
LEMMA OneHead ==
  ASSUME BatchInv, NEW c \in DOMAIN chain, NEW m, NEW n, IsHead(c, m), IsHead(c, n)
  PROVE  m = n
<1>1. m \in DOMAIN notif /\ n \in DOMAIN notif
  BY DEF IsHead, BatchInv, ChainsPassHandled, Jobs, Linked
<1>2. m \in Nat /\ n \in Nat
  BY <1>1, ConstantsAssumption DEF BatchInv, TypeOK, IsTable, Ids
<1>3. \A k : ProcessingGroup(k) \in 0..3
  BY DEF ProcessingGroup
<1>4. ~(Precedes(notif, m, n) /\ Precedes(notif, n, m))
  BY <1>2, <1>3 DEF Precedes
<1> QED
  BY <1>4 DEF IsHead

(* One lemma for each part of the invariant. *)

\* A transaction of an ingest is an old one, or the one that has just inserted its
\* notification under a fresh id, in an open batch or a new one.
LEMMA WritingSteps ==
  ASSUME BatchInv, Next, NEW w \in DOMAIN writing'
  PROVE  \/ w \in DOMAIN writing /\ writing'[w] = writing[w] /\ lastId' \in {lastId, lastId + 1}
         \/ /\ lastId' = lastId + 1 /\ UNCHANGED tables /\ writing'[w].id = lastId + 1
            /\ TakesBatch(w, writing'[w].batch)
            /\ w \in DOMAIN reading /\ writing'[w].zaak = reading[w].zaak
            /\ \A v \in DOMAIN writing' \ {w} : v \in DOMAIN writing /\ writing'[v] = writing[v]
<1>1. CASE UNCHANGED <<writing, lastId>>
  BY <1>1
<1>2. ASSUME NEW v \in Workers, AddNotificationToBatch(v)
      PROVE  \/ w \in DOMAIN writing /\ writing'[w] = writing[w] /\ lastId' = lastId + 1
             \/ /\ lastId' = lastId + 1 /\ UNCHANGED tables /\ writing'[w].id = lastId + 1
                /\ TakesBatch(w, writing'[w].batch)
                /\ w \in DOMAIN reading /\ writing'[w].zaak = reading[w].zaak
                /\ \A u \in DOMAIN writing' \ {w} : u \in DOMAIN writing /\ writing'[u] = writing[u]
  BY <1>2 DEF AddNotificationToBatch, Put
<1>3. ASSUME NEW v \in Workers, CommitIngest(v) \/ AbortIngest(v)
      PROVE  w \in DOMAIN writing /\ writing'[w] = writing[w] /\ lastId' = lastId
  BY <1>3 DEF CommitIngest, AbortIngest, Drop
<1>4. ASSUME NEW c \in Chains, JobStep(c) \/ FailureBreaks(c) \/ WorkerCrash(c) \/ RetryFailedJob(c)
      PROVE  UNCHANGED <<writing, lastId>>
  BY <1>4 DEF JobStep, RefuseJob, HandleFails, StartHandle, MarkProcessed, CallCorsa, CreateZaak,
     Release, DispatchNextJob,
     MarkBatchProcessed, MarkBatchFails, CatchFailure, RecordFailure, StoreFailedJob, FailureBreaks,
     WorkerCrash, RetryFailedJob, ingest
<1> QED
  BY <1>1, <1>2, <1>3, <1>4 DEF Next, IngestStep, BatchStep, ReadOpenBatch, TimerExpires,
     FlushExpiredBatches, DispatchBatch, BuildChain, DispatchCrash, ingest

\* Identifiers are handed out once.
LEMMA StepFreshIds ==
  ASSUME BatchInv, Next
  PROVE  FreshIds'
<1>0. lastId \in Nat /\ lastId' \in Nat
  BY StepTypeOK DEF BatchInv, TypeOK
<1>t. /\ \A n \in DOMAIN notif : n \in Nat
      /\ \A w \in DOMAIN writing : writing[w].id \in Nat
  BY ConstantsAssumption DEF BatchInv, TypeOK, IsTable, Ids, Transaction
<1>1. lastId' >= lastId
  <2>1. CASE UNCHANGED lastId
    BY <2>1, <1>0
  <2>2. ASSUME NEW w \in Workers, AddNotificationToBatch(w) PROVE lastId' >= lastId
    BY <2>2, <1>0 DEF AddNotificationToBatch
  <2>3. ASSUME NEW c \in Chains, JobStep(c) \/ FailureBreaks(c) \/ WorkerCrash(c) \/ RetryFailedJob(c)
        PROVE  UNCHANGED lastId
    BY <2>3 DEF JobStep, RefuseJob, HandleFails, StartHandle, MarkProcessed, CallCorsa, CreateZaak,
       Release, DispatchNextJob,
     MarkBatchProcessed, MarkBatchFails, CatchFailure, RecordFailure, StoreFailedJob, FailureBreaks,
     WorkerCrash, RetryFailedJob, ingest
  <2> QED
    BY <2>1, <2>2, <2>3 DEF Next, IngestStep, BatchStep, ReadOpenBatch, CommitIngest, AbortIngest,
       TimerExpires, FlushExpiredBatches, DispatchBatch, BuildChain, DispatchCrash, ingest
<1>2. ASSUME NEW n \in DOMAIN notif' PROVE n <= lastId'
  <2>1. CASE n \in DOMAIN notif
    BY <2>1, <1>0, <1>1, <1>t DEF BatchInv, FreshIds
  <2>2. CASE n \notin DOMAIN notif
    <3>1. PICK w \in Workers : CommitIngest(w) /\ n = writing[w].id
      BY <2>2, NewNotificationsJoinOpen
    <3>2. writing[w].id <= lastId /\ writing[w].id \in Nat
      BY <3>1, <1>t DEF CommitIngest, BatchInv, FreshIds
    <3> QED
      BY <3>1, <3>2, <1>0, <1>1
  <2> QED
    BY <2>1, <2>2
<1>3. ASSUME NEW w \in DOMAIN writing'
      PROVE  /\ writing'[w].id <= lastId' /\ writing'[w].id \notin DOMAIN notif'
             /\ \A v \in DOMAIN writing' \ {w} : writing'[v].id # writing'[w].id
  <2>1. CASE w \in DOMAIN writing /\ writing'[w] = writing[w]
    <3>1. writing'[w].id <= lastId'
      BY <2>1, <1>0, <1>1, <1>t DEF BatchInv, FreshIds
    <3>2. ASSUME writing'[w].id \in DOMAIN notif' PROVE FALSE
      <4>1. writing[w].id \notin DOMAIN notif
        BY <2>1 DEF BatchInv, FreshIds
      <4>2. PICK v \in Workers : CommitIngest(v) /\ writing[w].id = writing[v].id
        BY <2>1, <3>2, <4>1, NewNotificationsJoinOpen
      <4>3. v = w
        BY <2>1, <4>2 DEF CommitIngest, BatchInv, FreshIds
      <4> QED
        BY <4>2, <4>3 DEF CommitIngest, Drop
    <3>3. ASSUME NEW v \in DOMAIN writing' \ {w} PROVE writing'[v].id # writing'[w].id
      <4>1. CASE v \in DOMAIN writing /\ writing'[v] = writing[v]
        BY <2>1, <4>1 DEF BatchInv, FreshIds
      <4>2. CASE writing'[v].id = lastId + 1
        BY <2>1, <4>2, <1>0, <1>t DEF BatchInv, FreshIds
      <4> QED
        BY <4>1, <4>2, WritingSteps
    <3> QED
      BY <3>1, <3>2, <3>3
  <2>2. CASE /\ lastId' = lastId + 1 /\ UNCHANGED tables /\ writing'[w].id = lastId + 1
             /\ \A v \in DOMAIN writing' \ {w} : v \in DOMAIN writing /\ writing'[v] = writing[v]
    BY <2>2, <1>0, <1>t DEF BatchInv, FreshIds, tables
  <2> QED
    BY <2>1, <2>2, WritingSteps
<1> QED
  BY <1>2, <1>3 DEF FreshIds

\* The batch of an open transaction is not locked: the lock waits for the row, and a
\* transaction that waits for the row looks at it again.
LEMMA StepWritersHoldOpenBatches ==
  ASSUME BatchInv, Next
  PROVE  WritersHoldOpenBatches'
<1> SUFFICES ASSUME NEW w \in DOMAIN writing', writing'[w].batch \in DOMAIN batches'
             PROVE  ~batches'[writing'[w].batch].locked
  BY DEF WritersHoldOpenBatches
<1> DEFINE b == writing'[w].batch
<1>1. CASE w \in DOMAIN writing /\ writing'[w] = writing[w]
  <2>1. CASE b \notin DOMAIN batches
    BY <2>1, BatchSteps
  <2>2. CASE b \in DOMAIN batches
    <3>1. ~batches[b].locked
      BY <1>1, <2>2 DEF BatchInv, WritersHoldOpenBatches
    <3>2. ~RowFree(b)
      BY <1>1 DEF RowFree
    <3> QED
      BY <2>2, <3>1, <3>2, BatchSteps
  <2> QED
    BY <2>1, <2>2
<1>2. CASE UNCHANGED tables /\ TakesBatch(w, b)
  BY <1>2 DEF TakesBatch, Lockable, tables
<1> QED
  BY <1>1, <1>2, WritingSteps

\* Jobs that wait to dispatch a batch name a batch that is there.
LEMMA StepDispatched ==
  ASSUME BatchInv, Next, NEW b \in Batches, dispatched'[b] > 0
  PROVE  b \in DOMAIN batches'
<1> SUFFICES b \in DOMAIN batches
  BY BatchesRemain
<1> SUFFICES dispatched[b] > 0 \/ b \in UnprocessedBatches
  BY DEF BatchInv, LockedWhenWorkedOn, UnprocessedBatches
<1>t. dispatched \in [Batches -> Nat]
  BY DEF BatchInv, TypeOK
<1>1. CASE UNCHANGED dispatched
  BY <1>1
<1>2. CASE FlushExpiredBatches
  BY <1>2 DEF FlushExpiredBatches
<1>3. ASSUME NEW a \in Batches, DispatchBatch(a) \/ DispatchCrash(a) PROVE dispatched[b] > 0
  BY <1>t, <1>3 DEF DispatchBatch, DispatchCrash
<1>4. ASSUME NEW c \in Chains, JobStep(c) \/ FailureBreaks(c) \/ WorkerCrash(c) \/ RetryFailedJob(c)
      PROVE  UNCHANGED dispatched
  BY <1>4 DEF JobStep, RefuseJob, HandleFails, StartHandle, MarkProcessed, CallCorsa, CreateZaak,
     Release, DispatchNextJob,
     MarkBatchProcessed, MarkBatchFails, CatchFailure, RecordFailure, StoreFailedJob, FailureBreaks,
     WorkerCrash, RetryFailedJob, queue
<1> QED
  BY <1>1, <1>2, <1>3, <1>4 DEF Next, IngestStep, BatchStep, ReadOpenBatch,
     AddNotificationToBatch, CommitIngest, AbortIngest, TimerExpires, BuildChain, queue

\* A chain is built for a batch that this job has locked.
LEMMA StepBuilding ==
  ASSUME BatchInv, Next, NEW b \in building'
  PROVE  b \in DOMAIN batches' /\ batches'[b].locked
<1>1. CASE b \in building
  BY <1>1, BatchesStay DEF BatchInv, LockedWhenWorkedOn
<1>2. ASSUME NEW a \in Batches, DispatchBatch(a), b \notin building
      PROVE  b \in DOMAIN batches' /\ batches'[b].locked
  <2>1. b = a /\ LockForProcessing(a) /\ dispatched[a] > 0
    BY <1>2 DEF DispatchBatch
  <2>2. b \in DOMAIN batches /\ batches[b] \in BatchRow
    BY <2>1 DEF BatchInv, LockedWhenWorkedOn, TypeOK, IsTable
  <2> QED
    BY <2>1, <2>2 DEF LockForProcessing, BatchRow
<1>3. ASSUME NEW c \in Chains, JobStep(c) \/ FailureBreaks(c) \/ WorkerCrash(c) \/ RetryFailedJob(c)
      PROVE  UNCHANGED building
  BY <1>3 DEF JobStep, RefuseJob, HandleFails, StartHandle, MarkProcessed, CallCorsa, CreateZaak,
     Release, DispatchNextJob,
     MarkBatchProcessed, MarkBatchFails, CatchFailure, RecordFailure, StoreFailedJob, FailureBreaks,
     WorkerCrash, RetryFailedJob, queue
<1> QED
  BY <1>1, <1>2, <1>3 DEF Next, IngestStep, BatchStep, ReadOpenBatch, AddNotificationToBatch,
     CommitIngest, AbortIngest, TimerExpires, FlushExpiredBatches, BuildChain, DispatchCrash, queue
\* A chain after a step is one that was there, with its jobs, and is only done when its first
\* notification is handled; or the rest of a chain whose first job was done; or a chain with
\* all the jobs of a batch that was locked.
LEMMA ChainSteps ==
  ASSUME BatchInv, Next, NEW d \in DOMAIN chain'
  PROVE  \/ \E c \in DOMAIN chain :
              /\ chain'[d].batch = chain[c].batch /\ chain'[d].todo = chain[c].todo
              /\ chain'[d].step = "done" => \A n \in chain[c].todo : IsHead(c, n) => Handled(n)'
         \/ \E c \in DOMAIN chain, n \in Ids :
              chain[c].step = "done" /\ IsHead(c, n) /\ chain'[d] = Remainder(c, n)
         \/ \E b \in building :
              /\ chain'[d].batch = b /\ chain'[d].todo = Jobs(b) /\ chain'[d].step = "queued"
<1> DEFINE Kept == \E c \in DOMAIN chain :
              /\ chain'[d].batch = chain[c].batch /\ chain'[d].todo = chain[c].todo
              /\ chain'[d].step = "done" => \A n \in chain[c].todo : IsHead(c, n) => Handled(n)'
           Passed == \E c \in DOMAIN chain, n \in Ids :
              chain[c].step = "done" /\ IsHead(c, n) /\ chain'[d] = Remainder(c, n)
           Built == \E b \in building :
              /\ chain'[d].batch = b /\ chain'[d].todo = Jobs(b) /\ chain'[d].step = "queued"
<1> SUFFICES Kept \/ Passed \/ Built
  OBVIOUS
<1>t. DOMAIN chain \subseteq Chains /\ chain \in [DOMAIN chain -> ChainRow]
  BY DEF BatchInv, TypeOK, IsTable
<1>h. ASSUME NEW c \in DOMAIN chain, NEW n, IsHead(c, n), Handled(n) PROVE Handled(n)'
  BY <1>h, NotificationsStay DEF IsHead, BatchInv, ChainsPassHandled, Jobs, Linked
<1>1. ASSUME d \in DOMAIN chain, chain'[d] = chain[d] PROVE Kept
  BY <1>1, <1>h DEF BatchInv, ChainsPassHandled
<1>2. ASSUME NEW c \in DOMAIN chain, NEW step, GoTo(c, step),
             step = "done" => \A n \in chain[c].todo : IsHead(c, n) => Handled(n)'
      PROVE  Kept
  <2>1. CASE d = c
    <3>1. chain'[d] = [chain[c] EXCEPT !.step = step]
      BY <1>2, <2>1 DEF GoTo
    <3>2. /\ chain'[d].batch = chain[c].batch /\ chain'[d].todo = chain[c].todo
          /\ chain'[d].step = step
      BY <1>t, <3>1 DEF ChainRow
    <3> QED
      BY <1>2, <3>2
  <2> QED
    BY <1>1, <1>2, <2>1 DEF GoTo
<1>3. ASSUME NEW c \in Chains, StartHandle(c) PROVE Kept
  <2>1. PICK m \in Ids :
          /\ IsHead(c, m)
          /\ LET skip   == Handled(m)
                 ignore == ~skip /\ notif[m].kind = Unsupported
                 next   == IF skip \/ ignore THEN "done" ELSE "running"
             IN  /\ chain' = [chain EXCEPT ![c] = [@ EXCEPT !.attempts = chain[c].attempts + 1, !.step = next]]
                 /\ notif' = [notif EXCEPT ![m].ignored = @ \/ ignore]
    BY <1>3 DEF StartHandle
  <2>2. c \in DOMAIN chain
    BY <1>3 DEF StartHandle
  <2>3. CASE d = c
    <3>1. chain'[d].batch = chain[c].batch /\ chain'[d].todo = chain[c].todo
      BY <1>t, <2>1, <2>2, <2>3 DEF ChainRow
    <3>2. ASSUME chain'[d].step = "done" PROVE Handled(m)'
      <4>1. CASE Handled(m)
        BY <1>h, <2>1, <2>2, <4>1
      <4>2. CASE ~Handled(m)
        <5>1. notif[m].kind = Unsupported
          BY <1>t, <2>1, <2>2, <2>3, <3>2, <4>2 DEF ChainRow
        <5>2. m \in DOMAIN notif /\ notif \in [DOMAIN notif -> NotificationRow]
          BY <2>1, <2>2 DEF IsHead, BatchInv, ChainsPassHandled, Jobs, Linked, TypeOK, IsTable
        <5>3. notif' = [notif EXCEPT ![m] = [notif[m] EXCEPT !.ignored = TRUE]]
          BY <2>1, <4>2, <5>1
        <5> QED
          BY <5>2, <5>3 DEF Handled, NotificationRow
      <4> QED
        BY <4>1, <4>2
    <3>3. \A n : IsHead(c, n) => n = m
      BY <2>1, <2>2, OneHead
    <3> QED
      BY <2>2, <3>1, <3>2, <3>3
  <2> QED
    BY <1>1, <2>1, <2>3
<1>4. ASSUME NEW c \in Chains, MarkProcessed(c) PROVE Kept
  <2>1. PICK m \in Ids :
          /\ IsHead(c, m)
          /\ \E kept \in {FALSE, notif[m].failed} :
               notif' = [notif EXCEPT ![m] = [notif[m] EXCEPT !.processed = TRUE, !.failed = kept]]
    BY <1>4 DEF MarkProcessed
  <2>2. c \in DOMAIN chain /\ GoTo(c, "done")
    BY <1>4 DEF MarkProcessed
  <2>3. m \in DOMAIN notif /\ notif \in [DOMAIN notif -> NotificationRow]
    BY <2>1, <2>2 DEF IsHead, BatchInv, ChainsPassHandled, Jobs, Linked, TypeOK, IsTable
  <2>4. Handled(m)'
    BY <2>1, <2>3 DEF Handled, NotificationRow
  <2>5. \A n : IsHead(c, n) => n = m
    BY <2>1, <2>2, OneHead
  <2> QED
    BY <1>2, <2>2, <2>4, <2>5
<1>5. ASSUME NEW c \in Chains,
             \/ RefuseJob(c) \/ HandleFails(c) \/ CallCorsa(c) \/ CreateZaak(c) \/ Release(c)
             \/ MarkBatchFails(c) \/ CatchFailure(c) \/ RecordFailure(c) \/ StoreFailedJob(c)
      PROVE  Kept
  <2>1. /\ c \in DOMAIN chain
        /\ \E step \in {"queued", "creating", "sent", "failing", "caught", "recorded", "failed"} :
             GoTo(c, step)
    BY <1>5 DEF RefuseJob, HandleFails, FailJob, CallCorsa, CreateZaak, Release, MarkBatchFails,
       CatchFailure, RecordFailure, StoreFailedJob
  <2> QED
    BY <1>2, <2>1
<1>6. ASSUME NEW c \in Chains, DispatchNextJob(c) PROVE Kept \/ Passed
  BY <1>1, <1>6 DEF DispatchNextJob
<1>7. ASSUME NEW c \in Chains, MarkBatchProcessed(c) PROVE Kept
  BY <1>1, <1>7 DEF MarkBatchProcessed, Drop
<1>8. ASSUME NEW c \in Chains, RetryFailedJob(c) PROVE Kept
  <2>1. PICK e \in Chains \ DOMAIN chain :
          chain' = Put(chain, e, [chain[c] EXCEPT !.step = "queued", !.attempts = 0])
    BY <1>8 DEF RetryFailedJob
  <2>2. c \in DOMAIN chain
    BY <1>8 DEF RetryFailedJob
  <2>3. CASE d = e
    <3>1. chain'[d] = [chain[c] EXCEPT !.step = "queued", !.attempts = 0]
      BY <2>1, <2>3 DEF Put
    <3> QED
      BY <1>t, <2>2, <3>1 DEF ChainRow
  <2> QED
    BY <1>1, <2>1, <2>3 DEF Put
<1>9. ASSUME NEW c \in Chains, WorkerCrash(c) PROVE Kept \/ Passed
  <2>1. CASE GoTo(c, "queued") \/ GoTo(c, "failing")
    BY <1>2, <1>9, <2>1 DEF WorkerCrash
  <2>2. ASSUME chain[c].step = "done", NEW e \in Chains \ DOMAIN chain, NEW n \in Ids, IsHead(c, n),
               NEW next \in {"queued", "failing"},
               chain' = [Put(chain, e, Remainder(c, n)) EXCEPT ![c].step = next]
        PROVE  Kept \/ Passed
    <3>1. c \in DOMAIN chain
      BY <1>9 DEF WorkerCrash
    <3>2. CASE d = e
      BY <2>2, <3>1, <3>2 DEF Put
    <3>3. CASE d = c
      <4>1. chain'[c] = [chain[c] EXCEPT !.step = next]
        BY <2>2, <3>1 DEF Put
      <4> QED
        BY <1>t, <3>1, <3>3, <4>1 DEF ChainRow
    <3>4. CASE d # e /\ d # c
      <4>1. d \in DOMAIN chain /\ chain'[d] = chain[d]
        BY <2>2, <3>1, <3>4 DEF Put
      <4> QED
        BY <1>1, <4>1
    <3> QED
      BY <3>2, <3>3, <3>4
  <2>3. ASSUME chain[c].step = "queued", chain' = [chain EXCEPT ![c].attempts = 1] PROVE Kept
    <3>1. c \in DOMAIN chain
      BY <1>9 DEF WorkerCrash
    <3>2. CASE d = c
      <4>1. chain'[d] = [chain[c] EXCEPT !.attempts = 1]
        BY <2>3, <3>1, <3>2
      <4> QED
        BY <1>t, <2>3, <3>1, <3>2, <4>1 DEF ChainRow
    <3> QED
      BY <1>1, <2>3, <3>2
  <2> QED
    BY <1>9, <2>1, <2>2, <2>3 DEF WorkerCrash
<1>10. ASSUME NEW b \in Batches, BuildChain(b) PROVE Kept \/ Built
  <2>1. CASE UNCHANGED chain
    BY <1>1, <2>1
  <2>2. ASSUME NEW c \in Chains \ DOMAIN chain,
               chain' = Put(chain, c, [batch |-> b, todo |-> Jobs(b), attempts |-> 0, step |-> "queued"])
        PROVE  Kept \/ chain'[d] = [batch |-> b, todo |-> Jobs(b), attempts |-> 0, step |-> "queued"]
    BY <1>1, <2>2 DEF Put
  <2>3. b \in building
    BY <1>10 DEF BuildChain
  <2> QED
    BY <1>10, <2>1, <2>2, <2>3 DEF BuildChain
<1>11. CASE UNCHANGED chain
  BY <1>1, <1>11
<1>12. ASSUME NEW c \in Chains, FailureBreaks(c) PROVE Kept
  BY <1>1, <1>2, <1>12 DEF FailureBreaks, Drop
<1> QED
  BY <1>3, <1>4, <1>5, <1>6, <1>7, <1>8, <1>9, <1>10, <1>11, <1>12 DEF Next, JobStep, IngestStep, BatchStep,
     ReadOpenBatch, AddNotificationToBatch, CommitIngest, AbortIngest, TimerExpires,
     FlushExpiredBatches, DispatchBatch, DispatchCrash
\* Only locked batches are worked on, and only locked batches become processed.
LEMMA StepLockedWhenWorkedOn ==
  ASSUME BatchInv, Next
  PROVE  LockedWhenWorkedOn'
<1>1. ASSUME NEW d \in DOMAIN chain'
      PROVE  chain'[d].batch \in DOMAIN batches' /\ batches'[chain'[d].batch].locked
  <2>1. \/ \E c \in DOMAIN chain : chain'[d].batch = chain[c].batch
        \/ \E b \in building : chain'[d].batch = b
    BY ChainSteps DEF Remainder
  <2> QED
    BY <2>1, BatchesStay DEF BatchInv, LockedWhenWorkedOn
<1>2. ASSUME NEW b \in DOMAIN batches',
             batches'[b].processedAt \/ batches'[b].status = "processed"
      PROVE  batches'[b].processedAt /\ batches'[b].locked /\ batches'[b].status = "processed"
  <2>1. b \in DOMAIN batches
    BY <1>2, BatchSteps
  <2>2. batches[b].processedAt \/ batches[b].status = "processed" =>
          batches[b].processedAt /\ batches[b].locked /\ batches[b].status = "processed"
    BY <2>1 DEF BatchInv, LockedWhenWorkedOn
  <2> QED
    BY <1>2, <2>1, <2>2, BatchFields
<1> QED
  BY <1>1, <1>2, StepDispatched, StepBuilding DEF LockedWhenWorkedOn

\* A chain only passes what is handled: it goes on after a job that is done.
LEMMA StepChainsPassHandled ==
  ASSUME BatchInv, Next
  PROVE  ChainsPassHandled'
<1> SUFFICES ASSUME NEW d \in DOMAIN chain', NEW b, b = chain'[d].batch
             PROVE  /\ chain'[d].todo \subseteq Jobs(b)'
                    /\ \A n \in Jobs(b)' \ chain'[d].todo : Handled(n)'
                    /\ chain'[d].step = "done" => \A n \in chain'[d].todo : IsHead(d, n)' => Handled(n)'
  BY DEF ChainsPassHandled, Jobs, Linked, IsRepeatedZaak
<1>l. /\ \A c \in DOMAIN chain : chain[c].batch \in DOMAIN batches /\ batches[chain[c].batch].locked
      /\ \A a \in building : a \in DOMAIN batches /\ batches[a].locked
  BY DEF BatchInv, LockedWhenWorkedOn
<1>h. ASSUME NEW n \in Jobs(b), Handled(n) PROVE Handled(n)'
  BY <1>h, NotificationsStay DEF Jobs, Linked
<1>j. b \in DOMAIN batches /\ batches[b].locked
  BY <1>l, ChainSteps DEF Remainder
<1>k. Jobs(b)' = Jobs(b)
  BY <1>j, JobsStay
<1>p. ASSUME NEW c \in DOMAIN chain, chain[c].batch = b
      PROVE  /\ chain[c].todo \subseteq Jobs(b)
             /\ \A n \in Jobs(b) \ chain[c].todo : Handled(n)
             /\ chain[c].step = "done" => \A n \in chain[c].todo : IsHead(c, n) => Handled(n)
  BY <1>p DEF BatchInv, ChainsPassHandled
<1>1. ASSUME NEW c \in DOMAIN chain,
             chain'[d].batch = chain[c].batch, chain'[d].todo = chain[c].todo,
             chain'[d].step = "done" => \A n \in chain[c].todo : IsHead(c, n) => Handled(n)'
      PROVE  /\ chain'[d].todo \subseteq Jobs(b)
             /\ \A n \in Jobs(b) \ chain'[d].todo : Handled(n)'
             /\ chain'[d].step = "done" => \A n \in chain'[d].todo : IsHead(d, n)' => Handled(n)'
  <2>1. /\ chain[c].todo \subseteq Jobs(b)
        /\ \A n \in Jobs(b) \ chain[c].todo : Handled(n)
    BY <1>1, <1>p
  <2>2. \A n \in chain[c].todo : n \in DOMAIN notif
    BY <2>1 DEF Jobs, Linked
  <2>3. \A n \in chain[c].todo : notif'[n].kind = notif[n].kind
    BY <2>2, NotificationsStay
  <2>4. \A n \in chain[c].todo : IsHead(d, n)' => IsHead(c, n)
    BY <1>1, <2>3 DEF IsHead, Precedes
  <2> QED
    BY <1>1, <1>h, <2>1, <2>4
<1>2. ASSUME NEW c \in DOMAIN chain, NEW n \in Ids,
             chain[c].step = "done", IsHead(c, n), chain'[d] = Remainder(c, n)
      PROVE  /\ chain'[d].todo \subseteq Jobs(b)
             /\ \A m \in Jobs(b) \ chain'[d].todo : Handled(m)'
             /\ chain'[d].step = "queued"
  <2>1. /\ chain[c].batch = b /\ chain'[d].todo = chain[c].todo \ {n}
        /\ chain'[d].step = "queued"
    BY <1>2 DEF Remainder
  <2>2. /\ chain[c].todo \subseteq Jobs(b)
        /\ \A m \in Jobs(b) \ chain[c].todo : Handled(m)
        /\ Handled(n)
    BY <1>2, <1>p, <2>1 DEF IsHead
  <2> QED
    BY <1>h, <2>1, <2>2
<1> QED
  BY <1>1, <1>2, <1>k, ChainSteps

\* A batch becomes processed when it has no jobs, or by a chain that passed all of them.
LEMMA StepProcessedMeansHandled ==
  ASSUME BatchInv, Next
  PROVE  ProcessedMeansHandled'
<1> SUFFICES ASSUME NEW b \in DOMAIN batches', batches'[b].status = "processed",
                    NEW n \in Jobs(b)'
             PROVE  Handled(n)'
  BY DEF ProcessedMeansHandled
<1>1. b \in DOMAIN batches /\ batches[b].locked
  <2>1. b \in DOMAIN batches => batches[b] \in BatchRow
    BY DEF BatchInv, TypeOK, IsTable
  <2>2. b \in DOMAIN batches /\ batches[b].status = "processed" => batches[b].locked
    BY DEF BatchInv, LockedWhenWorkedOn
  <2> QED
    BY <2>1, <2>2, BatchSteps DEF BatchRow
<1>2. n \in Jobs(b) /\ Jobs(b) \subseteq Linked(b)
  BY <1>1, JobsStay DEF Jobs
<1>3. \/ batches[b].status = "processed"
      \/ \E c \in DOMAIN chain : chain[c].batch = b /\ chain[c].todo = {}
  BY <1>1, <1>2, BatchFields
<1>4. Handled(n)
  BY <1>1, <1>2, <1>3 DEF BatchInv, ProcessedMeansHandled, ChainsPassHandled
<1> QED
  BY <1>2, <1>4, NotificationsStay DEF Linked

\* The invariant is inductive.
LEMMA StepBatchInv == BatchInv /\ [Next]_vars => BatchInv'
<1> SUFFICES ASSUME BatchInv, [Next]_vars PROVE BatchInv'
  OBVIOUS
<1>1. TypeOK'
  BY StepTypeOK DEF BatchInv
<1>2. CASE Next
  BY <1>1, <1>2, StepFreshIds, StepWritersHoldOpenBatches, StepLockedWhenWorkedOn,
     StepChainsPassHandled, StepProcessedMeansHandled DEF BatchInv
<1>3. CASE UNCHANGED vars
  <2>1. /\ FreshIds' /\ WritersHoldOpenBatches' /\ LockedWhenWorkedOn'
    BY <1>3 DEF BatchInv, vars, tables, ingest, queue, FreshIds, WritersHoldOpenBatches, LockedWhenWorkedOn
  <2>2. ChainsPassHandled' /\ ProcessedMeansHandled'
    BY <1>3 DEF BatchInv, vars, tables, ChainsPassHandled, ProcessedMeansHandled, Jobs, Linked,
       IsRepeatedZaak, Handled, IsHead, Precedes
  <2> QED
    BY <1>1, <2>1, <2>2 DEF BatchInv
<1> QED
  BY <1>2, <1>3

(* The theorems: for any number of workers, zaken, batches, chains, notifications, tries, *)
(* jobs that break off and jobs that are retried.                                         *)

\* The parts of BatchInv hold in every state: transactions hold open batches, only locked
\* batches are worked on, and chains pass what is handled.
THEOREM BatchInvHolds == Spec => []BatchInv
BY InitBatchInv, StepBatchInv, PTL DEF Spec

\* MarkBatchProcessed ends the chain that handled every job: a batch that says processed
\* has handled every notification that got a job, also with several chains and failures.
THEOREM ProcessedHandledAll == Spec => []ProcessedMeansHandled
<1>1. BatchInv => ProcessedMeansHandled
  BY DEF BatchInv
<1> QED
  BY <1>1, BatchInvHolds, PTL

\* Whatever chains there are for a batch, while a notification is handled everything before
\* it in inProcessingOrder is done.
THEOREM InOrder == Spec => []HandledInOrder
<1>1. ASSUME BatchInv, NEW c \in DOMAIN chain, NEW n \in chain[c].todo, IsHead(c, n),
             NEW m \in Jobs(chain[c].batch), Precedes(notif, m, n)
      PROVE  Handled(m)
  <2>1. CASE m \notin chain[c].todo
    BY <1>1, <2>1 DEF BatchInv, ChainsPassHandled
  <2>2. CASE m \in chain[c].todo
    <3>1. m \in Nat /\ n \in Nat
      BY <1>1, ConstantsAssumption DEF BatchInv, ChainsPassHandled, Jobs, Linked, TypeOK, IsTable, Ids
    <3>2. \A k : ProcessingGroup(k) \in 0..3
      BY DEF ProcessingGroup
    <3>3. ~Precedes(notif, n, m) /\ m # n
      BY <1>1, <3>1, <3>2 DEF Precedes
    <3> QED
      BY <1>1, <2>2, <3>3 DEF IsHead
  <2> QED
    BY <2>1, <2>2
<1>2. BatchInv => HandledInOrder
  BY <1>1 DEF HandledInOrder
<1> QED
  BY <1>2, BatchInvHolds, PTL

\* However ingests and dispatches interleave, a notification joins a batch that is open.
THEOREM JoinsOpen == Spec => JoinsOpenBatch
<1>1. ASSUME BatchInv, Next, NEW n \in DOMAIN notif' \ DOMAIN notif
      PROVE  ~batches'[notif'[n].batch].locked
  <2>1. PICK w \in Workers : CommitIngest(w) /\ n = writing[w].id
    BY <1>1, NewNotificationsJoinOpen
  <2>2. notif'[n].batch = writing[w].batch /\ w \in DOMAIN writing
    BY <2>1 DEF CommitIngest, Put
  <2>3. CASE writing[w].batch \in DOMAIN batches
    BY <1>1, <2>1, <2>2, <2>3 DEF CommitIngest, BatchInv, WritersHoldOpenBatches
  <2>4. CASE writing[w].batch \notin DOMAIN batches
    BY <2>1, <2>2, <2>4 DEF CommitIngest, Put, NewBatch
  <2> QED
    BY <2>3, <2>4
<1>2. BatchInv /\ [Next]_vars =>
        [\A n \in DOMAIN notif' \ DOMAIN notif : ~batches'[notif'[n].batch].locked]_vars
  BY <1>1
<1> QED
  BY <1>2, BatchInvHolds, PTL DEF Spec, JoinsOpenBatch

\* A batch that is processed stays processed, whatever other jobs of it fail later.
THEOREM ProcessedForGood == Spec => StaysProcessed
<1>1. BatchInv /\ [Next]_vars =>
        [\A b \in DOMAIN batches : batches[b].processedAt =>
           batches'[b].processedAt /\ batches'[b].status = "processed"]_vars
  BY BatchesStay
<1> QED
  BY <1>1, BatchInvHolds, PTL DEF Spec, StaysProcessed
=============================================================================
