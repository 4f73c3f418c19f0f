------------------------- MODULE BatchingCountProofs -------------------------
(* Counting chains, calls of Corsa and batches that are stranded or given up  *)
(* against jobs that break off and jobs that are retried, the order in which  *)
(* Corsa is changed, and how long a chain can take: theorems about Batching,  *)
(* for every value of its constants.                                          *)
EXTENDS BatchingPromiseProofs, FiniteSetTheorems

(* What a step does to the chains. *)

\* Chain c is the only one that changes.
OnlyChain(c) ==
  /\ DOMAIN chain' = DOMAIN chain
  /\ \A d \in DOMAIN chain \ {c} : chain'[d] = chain[d]
  /\ chain'[c].batch = chain[c].batch

\* Chain d is added.
NewChain(d) ==
  /\ d \notin DOMAIN chain /\ DOMAIN chain' = DOMAIN chain \cup {d}

\* A job that goes to another step leaves its chain otherwise as it was.
LEMMA GoToChain ==
  ASSUME TypeOK, NEW c \in DOMAIN chain, NEW step, GoTo(c, step)
  PROVE  /\ OnlyChain(c) /\ chain'[c].todo = chain[c].todo /\ chain'[c].attempts = chain[c].attempts
         /\ chain'[c].step = step
<1>1. chain \in [DOMAIN chain -> ChainRow]
  BY DEF TypeOK, IsTable
<1>2. chain' = [chain EXCEPT ![c] = [chain[c] EXCEPT !.step = step]]
  BY DEF GoTo
<1>3. LET row == [chain[c] EXCEPT !.step = step]
      IN  row.batch = chain[c].batch /\ row.todo = chain[c].todo /\ row.attempts = chain[c].attempts
          /\ row.step = step
  BY <1>1 DEF ChainRow
<1> QED
  BY <1>1, <1>2, <1>3 DEF OnlyChain

\* A job that starts is the first of its chain, and is done at once when it is skipped or ignored.
LEMMA StartChain ==
  ASSUME TypeOK, NEW c \in Chains, StartHandle(c)
  PROVE  \E n \in Ids :
           /\ c \in DOMAIN chain /\ chain[c].step = "queued" /\ IsHead(c, n)
           /\ OnlyChain(c) /\ chain'[c].todo = chain[c].todo
           /\ chain'[c].step = IF Handled(n) \/ notif[n].kind = Unsupported THEN "done" ELSE "running"
           /\ n \in DOMAIN notif /\ ~Handled(n) /\ chain'[c].step = "done" => Handled(n)'
           /\ \A m \in DOMAIN notif \ {n} : notif'[m] = notif[m]
<1>1. /\ c \in DOMAIN chain /\ chain[c].step = "queued" /\ chain \in [DOMAIN chain -> ChainRow]
      /\ notif \in [DOMAIN notif -> NotificationRow]
  BY DEF StartHandle, TypeOK, IsTable
<1>2. PICK n \in Ids :
        /\ IsHead(c, n)
        /\ LET skip   == Handled(n)
               ignore == ~skip /\ notif[n].kind = Unsupported
               next   == IF skip \/ ignore THEN "done" ELSE "running"
           IN  /\ chain' = [chain EXCEPT ![c] = [@ EXCEPT !.attempts = chain[c].attempts + 1, !.step = next]]
               /\ notif' = [notif EXCEPT ![n].ignored = @ \/ ignore]
  BY DEF StartHandle
<1> DEFINE step == IF Handled(n) \/ notif[n].kind = Unsupported THEN "done" ELSE "running"
<1>3. chain' = [chain EXCEPT ![c] = [chain[c] EXCEPT !.attempts = chain[c].attempts + 1, !.step = step]]
  <2>1. (IF Handled(n) \/ (~Handled(n) /\ notif[n].kind = Unsupported) THEN "done" ELSE "running") = step
    OBVIOUS
  <2> QED
    BY <1>2, <2>1
<1> HIDE DEF step
<1>4. LET row == [chain[c] EXCEPT !.attempts = chain[c].attempts + 1, !.step = step]
      IN  row.batch = chain[c].batch /\ row.todo = chain[c].todo /\ row.step = step
  BY <1>1 DEF ChainRow
<1>5. OnlyChain(c) /\ chain'[c].todo = chain[c].todo /\ chain'[c].step = step
  BY <1>1, <1>3, <1>4 DEF OnlyChain
<1>6. ASSUME n \in DOMAIN notif, ~Handled(n), step = "done" PROVE Handled(n)'
  <2>1. notif' = [notif EXCEPT ![n] = [notif[n] EXCEPT !.ignored = TRUE]]
    BY <1>2, <1>6 DEF step
  <2>2. [notif[n] EXCEPT !.ignored = TRUE].ignored
    BY <1>1, <1>6 DEF NotificationRow
  <2> QED
    BY <1>6, <2>1, <2>2 DEF Handled
<1>7. \A m \in DOMAIN notif \ {n} : notif'[m] = notif[m]
  BY <1>2
<1> QED
  BY <1>1, <1>2, <1>5, <1>6, <1>7 DEF step

\* A chain that goes on has one job less, which waits with no tries used.
LEMMA NextChain ==
  ASSUME TypeOK, NEW c \in Chains, DispatchNextJob(c)
  PROVE  \E n \in Ids :
           /\ c \in DOMAIN chain /\ chain[c].step = "done" /\ IsHead(c, n)
           /\ OnlyChain(c) /\ chain'[c].todo = chain[c].todo \ {n}
           /\ chain'[c].step = "queued" /\ chain'[c].attempts = 0
BY DEF DispatchNextJob, Remainder, OnlyChain, TypeOK, IsTable

\* A retry adds a chain for the same batch, with what the failed one had left.
LEMMA RetryChain ==
  ASSUME TypeOK, NEW c \in Chains, RetryFailedJob(c)
  PROVE  \E d \in Chains :
           /\ c \in DOMAIN chain /\ NewChain(d)
           /\ \A e \in DOMAIN chain : chain'[e] = chain[e]
           /\ chain'[d].batch = chain[c].batch /\ chain'[d].todo = chain[c].todo
           /\ chain'[d].step = "queued"
<1>1. c \in DOMAIN chain /\ chain[c] \in ChainRow
  BY DEF RetryFailedJob, TypeOK, IsTable
<1>2. LET row == [chain[c] EXCEPT !.step = "queued", !.attempts = 0]
      IN  row.batch = chain[c].batch /\ row.todo = chain[c].todo /\ row.step = "queued"
  BY <1>1 DEF ChainRow
<1>3. PICK d \in Chains \ DOMAIN chain :
        chain' = Put(chain, d, [chain[c] EXCEPT !.step = "queued", !.attempts = 0])
  BY DEF RetryFailedJob
<1> QED
  BY <1>1, <1>2, <1>3 DEF Put, NewChain

\* A worker that dies leaves its chain to be run again or to fail, or adds one for the same batch.
LEMMA CrashChain ==
  ASSUME TypeOK, NEW c \in Chains, WorkerCrash(c)
  PROVE  \/ /\ c \in DOMAIN chain /\ OnlyChain(c)
            /\ chain[c].step # "failed" /\ chain'[c].step \in {"queued", "failing"}
            /\ chain'[c].todo = chain[c].todo /\ chain'[c].attempts \in {chain[c].attempts, 1}
         \/ \E d \in Chains, n \in Ids :
              /\ c \in DOMAIN chain /\ NewChain(d)
              /\ chain[c].step = "done" /\ IsHead(c, n)
              /\ \A e \in DOMAIN chain \ {c} : chain'[e] = chain[e]
              /\ chain'[c].batch = chain[c].batch /\ chain'[c].todo = chain[c].todo
              /\ chain'[c].step \in {"queued", "failing"} /\ chain'[c].attempts = chain[c].attempts
              /\ chain'[d].batch = chain[c].batch /\ chain'[d].todo = chain[c].todo \ {n}
              /\ chain'[d].step = "queued" /\ chain'[d].attempts = 0
<1>1. c \in DOMAIN chain /\ chain \in [DOMAIN chain -> ChainRow]
  BY DEF WorkerCrash, TypeOK, IsTable
<1>2. CASE (GoTo(c, "queued") \/ GoTo(c, "failing")) /\ chain[c].step # "failed"
  BY <1>1, <1>2, GoToChain
<1>3. CASE chain' = [chain EXCEPT ![c].attempts = 1] /\ chain[c].step = "queued"
  <2>1. LET row == [chain[c] EXCEPT !.attempts = 1]
        IN  row.batch = chain[c].batch /\ row.todo = chain[c].todo /\ row.step = chain[c].step
            /\ row.attempts = 1
    BY <1>1 DEF ChainRow
  <2>2. chain' = [chain EXCEPT ![c] = [chain[c] EXCEPT !.attempts = 1]]
    BY <1>3
  <2> QED
    BY <1>1, <1>3, <2>1, <2>2 DEF OnlyChain
<1>4. ASSUME NEW d \in Chains \ DOMAIN chain, NEW n \in Ids, NEW next \in {"queued", "failing"},
             IsHead(c, n), chain[c].step = "done",
             chain' = [Put(chain, d, Remainder(c, n)) EXCEPT ![c].step = next]
      PROVE  /\ NewChain(d)
             /\ \A e \in DOMAIN chain \ {c} : chain'[e] = chain[e]
             /\ chain'[c].batch = chain[c].batch /\ chain'[c].todo = chain[c].todo
             /\ chain'[c].step = next /\ chain'[c].attempts = chain[c].attempts
             /\ chain'[d].batch = chain[c].batch /\ chain'[d].todo = chain[c].todo \ {n}
             /\ chain'[d].step = "queued" /\ chain'[d].attempts = 0
  <2> DEFINE copy == Put(chain, d, Remainder(c, n))
  <2>1. /\ DOMAIN copy = DOMAIN chain \cup {d} /\ copy[d] = Remainder(c, n)
        /\ \A e \in DOMAIN chain : copy[e] = chain[e]
    BY <1>4 DEF Put
  <2> HIDE DEF copy
  <2>2. chain' = [copy EXCEPT ![c] = [copy[c] EXCEPT !.step = next]]
    BY <1>4 DEF copy
  <2>3. copy[c] = chain[c] /\ chain[c] \in ChainRow
    BY <1>1, <2>1
  <2>4. LET row == [chain[c] EXCEPT !.step = next]
        IN  row.batch = chain[c].batch /\ row.todo = chain[c].todo /\ row.step = next
            /\ row.attempts = chain[c].attempts
    BY <2>3 DEF ChainRow
  <2>5. /\ DOMAIN chain' = DOMAIN chain \cup {d} /\ c # d
        /\ chain'[c] = [chain[c] EXCEPT !.step = next]
        /\ \A e \in DOMAIN chain' \ {c} : chain'[e] = copy[e]
    BY <1>1, <1>4, <2>1, <2>2, <2>3
  <2>6. NewChain(d) /\ \A e \in DOMAIN chain \ {c} : chain'[e] = chain[e]
    BY <1>4, <2>1, <2>5 DEF NewChain
  <2>7. chain'[d] = Remainder(c, n)
    BY <2>1, <2>5
  <2>8. /\ chain'[c].batch = chain[c].batch /\ chain'[c].todo = chain[c].todo
        /\ chain'[c].step = next /\ chain'[c].attempts = chain[c].attempts
    BY <2>4, <2>5
  <2> QED
    BY <2>6, <2>7, <2>8 DEF Remainder
<1> QED
  BY <1>1, <1>2, <1>3, <1>4 DEF WorkerCrash

\* A failure that breaks off loses the chain, or stores its failed job at once.
LEMMA BreakChain ==
  ASSUME TypeOK, NEW c \in Chains, FailureBreaks(c)
  PROVE  /\ c \in DOMAIN chain /\ chain[c].step \in {"failing", "caught", "recorded"}
         /\ UNCHANGED <<tables, ingest, queue, corsa, retries>> /\ faults' = faults + 1
         /\ \/ OnlyChain(c) /\ chain'[c].todo = chain[c].todo /\ chain'[c].step = "failed"
            \/ DOMAIN chain' = DOMAIN chain \ {c} /\ \A d \in DOMAIN chain' : chain'[d] = chain[d]
<1>1. chain' = Drop(chain, c) => DOMAIN chain' = DOMAIN chain \ {c} /\ \A d \in DOMAIN chain' : chain'[d] = chain[d]
  BY DEF Drop
<1> QED
  BY <1>1, GoToChain DEF FailureBreaks

(* Counting. *)

\* A set with at most one element more has at most one more.
LEMMA OneMore ==
  ASSUME NEW S, IsFiniteSet(S), NEW x, NEW T, T \subseteq S \cup {x}
  PROVE  /\ IsFiniteSet(T) /\ Cardinality(T) \in Nat /\ Cardinality(S) \in Nat
         /\ Cardinality(T) <= Cardinality(S) + 1
<1>1. IsFiniteSet(S \cup {x}) /\ Cardinality(S \cup {x}) \in Nat /\ Cardinality(S) \in Nat
      /\ Cardinality(S \cup {x}) <= Cardinality(S) + 1
  BY FS_AddElement, FS_CardinalityType
<1>2. IsFiniteSet(T) /\ Cardinality(T) <= Cardinality(S \cup {x}) /\ Cardinality(T) \in Nat
  BY <1>1, FS_Subset, FS_CardinalityType
<1> QED
  BY <1>1, <1>2

\* A subset of a finite set is finite and no larger.
LEMMA NoMore ==
  ASSUME NEW S, IsFiniteSet(S), NEW T, T \subseteq S
  PROVE  /\ IsFiniteSet(T) /\ Cardinality(T) \in Nat /\ Cardinality(S) \in Nat
         /\ Cardinality(T) <= Cardinality(S)
BY FS_Subset, FS_CardinalityType

\* A subset without some element of the set is smaller.
LEMMA OneLess ==
  ASSUME NEW S, IsFiniteSet(S), NEW x \in S, NEW T, T \subseteq S \ {x}
  PROVE  /\ IsFiniteSet(T) /\ Cardinality(T) \in Nat /\ Cardinality(S) \in Nat
         /\ Cardinality(T) + 1 <= Cardinality(S)
<1>1. /\ IsFiniteSet(S \ {x}) /\ Cardinality(S \ {x}) = Cardinality(S) - 1
      /\ Cardinality(S) \in Nat /\ Cardinality(S \ {x}) \in Nat
  BY FS_RemoveElement, FS_CardinalityType
<1>2. IsFiniteSet(T) /\ Cardinality(T) <= Cardinality(S \ {x}) /\ Cardinality(T) \in Nat
  BY <1>1, FS_Subset, FS_CardinalityType
<1> QED
  BY <1>1, <1>2

(* One chain for each batch. *)

NotBuilt == \A c \in DOMAIN chain : chain[c].batch \notin building

ChainCountInv == BatchInv /\ IsFiniteSet(DOMAIN chain) /\ NotBuilt /\ OneChainPerBatch

\* A chain that is new takes a job that broke off, a retry, or the batch that was built.
LEMMA ChainSets ==
  ASSUME BatchInv, Next
  PROVE  \/ /\ DOMAIN chain' \subseteq DOMAIN chain
            /\ \A c \in DOMAIN chain' : chain'[c].batch = chain[c].batch
            /\ \A b \in building' \ building : b \in DOMAIN batches /\ ~batches[b].locked
            /\ faults' \in {faults, faults + 1} /\ retries' = retries
         \/ /\ \E d : NewChain(d) /\ \E c \in DOMAIN chain : chain'[d].batch = chain[c].batch
            /\ \A c \in DOMAIN chain : chain'[c].batch = chain[c].batch
            /\ building' = building /\ faults' + retries' = faults + retries + 1
         \/ \E b \in building :
              /\ \E d : NewChain(d) /\ chain'[d].batch = b
              /\ \A c \in DOMAIN chain : chain'[c].batch = chain[c].batch
              /\ building' = building \ {b} /\ faults' = faults /\ retries' = retries
<1> DEFINE Fewer == /\ DOMAIN chain' \subseteq DOMAIN chain
                    /\ \A c \in DOMAIN chain' : chain'[c].batch = chain[c].batch
                    /\ \A b \in building' \ building : b \in DOMAIN batches /\ ~batches[b].locked
                    /\ faults' \in {faults, faults + 1} /\ retries' = retries
           Again == /\ \E d : NewChain(d) /\ \E c \in DOMAIN chain : chain'[d].batch = chain[c].batch
                    /\ \A c \in DOMAIN chain : chain'[c].batch = chain[c].batch
                    /\ building' = building /\ faults' + retries' = faults + retries + 1
           Built == \E b \in building :
                      /\ \E d : NewChain(d) /\ chain'[d].batch = b
                      /\ \A c \in DOMAIN chain : chain'[c].batch = chain[c].batch
                      /\ building' = building \ {b} /\ faults' = faults /\ retries' = retries
<1> SUFFICES Fewer \/ Again \/ Built
  OBVIOUS
<1>t. TypeOK /\ faults \in Nat /\ retries \in Nat
  BY DEF BatchInv, TypeOK
<1>1. CASE UNCHANGED <<chain, building, retries>> /\ faults' \in {faults, faults + 1}
  BY <1>1
<1>2. ASSUME NEW b \in Batches, DispatchBatch(b) PROVE Fewer
  <2>1. UNCHANGED <<chain, faults, retries>> /\ building' \subseteq building \cup {b}
    BY <1>2 DEF DispatchBatch, luck
  <2>2. b \in DOMAIN batches
    BY <1>2 DEF DispatchBatch, BatchInv, LockedWhenWorkedOn
  <2>3. b \notin building' \/ b \in building \/ ~batches[b].locked
    BY <1>2 DEF DispatchBatch, LockForProcessing
  <2> QED
    BY <2>1, <2>2, <2>3
<1>3. ASSUME NEW b \in Batches, BuildChain(b) PROVE Fewer \/ Built
  <2>1. b \in building /\ building' = building \ {b} /\ UNCHANGED <<faults, retries>>
    BY <1>3 DEF BuildChain, luck
  <2>2. CASE UNCHANGED chain
    BY <2>1, <2>2
  <2>3. ASSUME NEW d \in Chains \ DOMAIN chain,
               chain' = Put(chain, d, [batch |-> b, todo |-> Jobs(b), attempts |-> 0, step |-> "queued"])
        PROVE  Built
    <3>1. /\ NewChain(d) /\ chain'[d].batch = b
          /\ \A c \in DOMAIN chain : chain'[c].batch = chain[c].batch
      BY <2>3 DEF NewChain, Put
    <3> QED
      BY <2>1, <3>1
  <2> QED
    BY <1>3, <2>2, <2>3 DEF BuildChain
<1>4. ASSUME NEW b \in Batches, DispatchCrash(b) PROVE Fewer
  BY <1>4 DEF DispatchCrash
<1>5. ASSUME NEW c \in Chains, WorkerCrash(c) PROVE Fewer \/ Again
  <2>1. building' = building /\ faults' = faults + 1 /\ retries' = retries
    BY <1>5 DEF WorkerCrash, queue
  <2>2. CASE OnlyChain(c)
    BY <2>1, <2>2 DEF OnlyChain
  <2>3. ASSUME NEW d, c \in DOMAIN chain, NewChain(d), chain'[d].batch = chain[c].batch,
               \A e \in DOMAIN chain \ {c} : chain'[e] = chain[e], chain'[c].batch = chain[c].batch
        PROVE  Again
    BY <1>t, <2>1, <2>3
  <2> QED
    BY <1>t, <1>5, <2>2, <2>3, CrashChain
<1>6. ASSUME NEW c \in Chains, RetryFailedJob(c) PROVE Again
  <2>1. building' = building /\ faults' = faults /\ retries' = retries + 1
    BY <1>6 DEF RetryFailedJob, queue
  <2> QED
    BY <1>t, <1>6, <2>1, RetryChain
<1>10. ASSUME NEW c \in Chains, FailureBreaks(c) PROVE Fewer
  BY <1>t, <1>10, BreakChain DEF OnlyChain, queue
<1>7. ASSUME NEW c \in Chains, JobStep(c) PROVE Fewer
  <2>1. UNCHANGED <<building, faults, retries>>
    BY <1>7 DEF JobStep, RefuseJob, StartHandle, CallCorsa, CreateZaak, HandleFails, Release,
       MarkProcessed, DispatchNextJob,
     MarkBatchProcessed, MarkBatchFails, CatchFailure, RecordFailure, StoreFailedJob, FailureBreaks,
     queue, luck
  <2>2. CASE MarkBatchProcessed(c)
    <3>1. DOMAIN chain' \subseteq DOMAIN chain /\ \A d \in DOMAIN chain' : chain'[d] = chain[d]
      BY <2>2 DEF MarkBatchProcessed, Drop
    <3> QED
      BY <2>1, <3>1
  <2>3. ASSUME NEW step, c \in DOMAIN chain, GoTo(c, step) PROVE OnlyChain(c)
    BY <1>t, <2>3, GoToChain
  <2>4. CASE ~MarkBatchProcessed(c)
    <3>1. OnlyChain(c)
      BY <1>t, <1>7, <2>3, <2>4, StartChain, NextChain DEF JobStep, RefuseJob, FailJob, CallCorsa,
         CreateZaak, HandleFails, Release, MarkProcessed, MarkBatchFails, CatchFailure, RecordFailure,
         StoreFailedJob
    <3> QED
      BY <2>1, <3>1 DEF OnlyChain
  <2> QED
    BY <2>2, <2>4
<1>8. ASSUME NEW w \in Workers, IngestStep(w) \/ AbortIngest(w) \/ \E z \in Zaken, k \in Delivered : ReadOpenBatch(w, z, k)
      PROVE  Fewer
  BY <1>1, <1>8 DEF IngestStep, ReadOpenBatch, AddNotificationToBatch, CommitIngest, AbortIngest, queue, luck
<1>9. ASSUME FlushExpiredBatches \/ \E b \in Batches : TimerExpires(b) PROVE Fewer
  BY <1>1, <1>9 DEF FlushExpiredBatches, TimerExpires, luck
<1> HIDE DEF Fewer, Again, Built
<1> QED
  BY <1>2, <1>3, <1>4, <1>5, <1>6, <1>7, <1>8, <1>9, <1>10 DEF Next, BatchStep

\* Every step accounts for the chain it adds: the batch that was built, a fault or a retry.
LEMMA StepChainCount == ChainCountInv /\ [Next]_vars => ChainCountInv'
<1> SUFFICES ASSUME ChainCountInv, [Next]_vars PROVE ChainCountInv'
  OBVIOUS
<1>0. BatchInv /\ BatchInv' /\ IsFiniteSet(DOMAIN chain) /\ NotBuilt /\ OneChainPerBatch
  BY StepBatchInv DEF ChainCountInv
<1>t. faults \in Nat /\ retries \in Nat /\ faults' \in Nat /\ retries' \in Nat
  BY <1>0 DEF BatchInv, TypeOK
<1>n. ASSUME NEW b PROVE IsFiniteSet(ChainsOf(b)) /\ Cardinality(ChainsOf(b)) \in Nat
  BY <1>0, NoMore DEF ChainsOf
<1>l. \A b \in DOMAIN batches : ~batches[b].locked => ChainsOf(b) = {}
  BY <1>0 DEF BatchInv, LockedWhenWorkedOn, ChainsOf
<1> DEFINE Load(b) == Cardinality(ChainsOf(b)) + (IF b \in building THEN 1 ELSE 0)
<1>o. \A b \in Batches : Load(b) <= 1 + faults + retries
  BY <1>0 DEF OneChainPerBatch
<1> SUFFICES /\ IsFiniteSet(DOMAIN chain') /\ NotBuilt'
             /\ \A b \in Batches : Load(b)' <= 1 + faults' + retries'
  BY <1>0 DEF ChainCountInv, OneChainPerBatch
<1>1. CASE UNCHANGED vars
  BY <1>0, <1>o, <1>1 DEF vars, queue, luck, NotBuilt, ChainsOf
<1>2. CASE /\ DOMAIN chain' \subseteq DOMAIN chain
           /\ \A c \in DOMAIN chain' : chain'[c].batch = chain[c].batch
           /\ \A b \in building' \ building : b \in DOMAIN batches /\ ~batches[b].locked
           /\ faults' \in {faults, faults + 1} /\ retries' = retries
  <2>1. \A b : ChainsOf(b)' \subseteq ChainsOf(b)
    BY <1>2 DEF ChainsOf
  <2>2. NotBuilt'
    BY <1>0, <1>2 DEF NotBuilt, BatchInv, LockedWhenWorkedOn
  <2>3. ASSUME NEW b \in Batches PROVE Load(b)' <= 1 + faults' + retries'
    <3>1. Cardinality(ChainsOf(b)') <= Cardinality(ChainsOf(b)) /\ Cardinality(ChainsOf(b)') \in Nat
      BY <1>n, <2>1, NoMore
    <3>2. Cardinality(ChainsOf(b))' = Cardinality(ChainsOf(b)')
      OBVIOUS
    <3>3. CASE b \in building' \ building
      <4>1. ChainsOf(b)' = {}
        BY <1>2, <1>l, <2>1, <3>3
      <4> QED
        BY <1>t, <1>2, <3>2, <3>3, <4>1, FS_EmptySet
    <3>4. CASE b \notin building' \ building
      BY <1>t, <1>n, <1>o, <1>2, <3>1, <3>2, <3>4
    <3> QED
      BY <3>3, <3>4
  <2> QED
    BY <1>0, <1>2, <2>2, <2>3, NoMore
<1>3. ASSUME NEW d, NewChain(d), \E c \in DOMAIN chain : chain'[d].batch = chain[c].batch,
             \A c \in DOMAIN chain : chain'[c].batch = chain[c].batch,
             building' = building, faults' + retries' = faults + retries + 1
      PROVE  /\ IsFiniteSet(DOMAIN chain') /\ NotBuilt'
             /\ \A b \in Batches : Load(b)' <= 1 + faults' + retries'
  <2>1. \A b : ChainsOf(b)' \subseteq ChainsOf(b) \cup {d}
    BY <1>3 DEF ChainsOf, NewChain
  <2>2. NotBuilt'
    BY <1>0, <1>3 DEF NotBuilt, NewChain
  <2>3. ASSUME NEW b \in Batches PROVE Load(b)' <= 1 + faults' + retries'
    <3>1. Cardinality(ChainsOf(b)') <= Cardinality(ChainsOf(b)) + 1 /\ Cardinality(ChainsOf(b)') \in Nat
      BY <1>n, <2>1, OneMore
    <3>2. b \in building' <=> b \in building
      BY <1>3
    <3>3. Load(b)' <= Load(b) + 1 /\ Load(b) \in Nat /\ Load(b)' \in Nat
      BY <1>n, <3>1, <3>2
    <3>4. Load(b) <= 1 + faults + retries /\ faults' + retries' = faults + retries + 1
      BY <1>o, <1>3
    <3>5. \A k, m, f, r, g, q \in Nat :
            m <= k + 1 /\ k <= 1 + f + r /\ g + q = f + r + 1 => m <= 1 + g + q
      OBVIOUS
    <3> HIDE DEF Load
    <3> QED
      BY <1>t, <3>3, <3>4, <3>5
  <2> QED
    BY <1>0, <1>3, <2>2, <2>3, OneMore DEF NewChain
<1>4. ASSUME NEW a \in building, NEW d, NewChain(d), chain'[d].batch = a,
             \A c \in DOMAIN chain : chain'[c].batch = chain[c].batch,
             building' = building \ {a}, faults' = faults, retries' = retries
      PROVE  /\ IsFiniteSet(DOMAIN chain') /\ NotBuilt'
             /\ \A b \in Batches : Load(b)' <= 1 + faults' + retries'
  <2>1. \A b : ChainsOf(b)' \subseteq ChainsOf(b) \cup (IF b = a THEN {d} ELSE {})
    BY <1>4 DEF ChainsOf, NewChain
  <2>2. NotBuilt'
    BY <1>0, <1>4 DEF NotBuilt, NewChain
  <2>3. ASSUME NEW b \in Batches PROVE Load(b)' <= 1 + faults' + retries'
    <3>1. CASE b = a
      <4>1. Cardinality(ChainsOf(b)') <= Cardinality(ChainsOf(b)) + 1 /\ Cardinality(ChainsOf(b)') \in Nat
        BY <1>n, <2>1, <3>1, OneMore
      <4>2. b \notin building' /\ Cardinality(ChainsOf(b)) + 1 <= 1 + faults + retries
        BY <1>n, <1>o, <1>4, <3>1
      <4>3. Load(b)' = Cardinality(ChainsOf(b)') + 0
        BY <4>2
      <4> QED
        BY <1>t, <1>n, <1>4, <4>1, <4>2, <4>3
    <3>2. CASE b # a
      <4>1. Cardinality(ChainsOf(b)') <= Cardinality(ChainsOf(b)) /\ Cardinality(ChainsOf(b)') \in Nat
        BY <1>n, <2>1, <3>2, NoMore
      <4> QED
        BY <1>t, <1>n, <1>o, <1>4, <3>2, <4>1
    <3> QED
      BY <3>1, <3>2
  <2> QED
    BY <1>0, <1>4, <2>2, <2>3, OneMore DEF NewChain
<1> QED
  BY <1>0, <1>1, <1>2, <1>3, <1>4, ChainSets

\* At first there are no chains.
LEMMA InitChainCount == Init => ChainCountInv
<1> SUFFICES ASSUME Init PROVE ChainCountInv
  OBVIOUS
<1>1. DOMAIN chain = {} /\ building = {} /\ faults = 0 /\ retries = 0
  BY DEF Init, Empty
<1>2. \A b : ChainsOf(b) = {}
  BY <1>1 DEF ChainsOf
<1> QED
  BY <1>1, <1>2, FS_EmptySet, InitBatchInv DEF ChainCountInv, NotBuilt, OneChainPerBatch

\* The chains of a batch are accounted for in every state.
LEMMA ChainCountHolds == Spec => []ChainCountInv
BY InitChainCount, StepChainCount, PTL DEF Spec

\* The conditional update of lockForProcessing: however many DispatchBatch jobs run, a batch
\* gets a second chain only from a job that broke off or a retry.
THEOREM OneChain == Spec => []OneChainPerBatch
<1>1. ChainCountInv => OneChainPerBatch
  BY DEF ChainCountInv
<1> QED
  BY <1>1, ChainCountHolds, PTL

(* A stranded batch takes a job that broke off. *)

\* What a job does to its chain and to its batch together.
LEMMA JobChain ==
  ASSUME BatchInv, NEW c \in Chains, JobStep(c)
  PROVE  /\ c \in DOMAIN chain /\ chain[c].step # "failed"
         /\ \/ /\ OnlyChain(c) /\ UNCHANGED batches /\ chain'[c].step \notin {"caught", "failed"}
               /\ chain'[c].step = "recorded" => chain[c].step = "caught"
            \/ /\ OnlyChain(c) /\ UNCHANGED batches
               /\ chain[c].step = "recorded" /\ chain'[c].step = "failed"
            \/ OnlyChain(c) /\ chain'[c].step = "caught" /\ MarkFailedUnlessProcessed(chain[c].batch)
            \/ OnlyChain(c) /\ chain'[c].step = "failing" /\ MarkProcessedOnce(chain[c].batch)
            \/ /\ DOMAIN chain' = DOMAIN chain \ {c}
               /\ \A d \in DOMAIN chain' : chain'[d] = chain[d]
               /\ MarkProcessedOnce(chain[c].batch)
<1>t. TypeOK
  BY DEF BatchInv
<1>1. CASE MarkBatchProcessed(c)
  BY <1>1 DEF MarkBatchProcessed, Drop
<1>2. CASE RefuseJob(c) \/ HandleFails(c) \/ MarkBatchFails(c)
  BY <1>t, <1>2, GoToChain DEF RefuseJob, HandleFails, MarkBatchFails, FailJob, tables
<1>3. CASE StartHandle(c)
  BY <1>t, <1>3, StartChain DEF StartHandle
<1>4. CASE DispatchNextJob(c)
  BY <1>t, <1>4, NextChain DEF DispatchNextJob, tables
<1>5. CASE CallCorsa(c) \/ CreateZaak(c) \/ Release(c) \/ MarkProcessed(c)
  <2>1. /\ c \in DOMAIN chain /\ chain[c].step # "failed" /\ UNCHANGED batches
        /\ \E step \in {"sent", "creating", "queued", "done"} : GoTo(c, step)
    BY <1>5 DEF CallCorsa, CreateZaak, Release, MarkProcessed, tables
  <2> QED
    BY <1>t, <2>1, GoToChain
<1>6. CASE CatchFailure(c)
  BY <1>t, <1>6, GoToChain DEF CatchFailure
<1>7. CASE RecordFailure(c)
  BY <1>t, <1>7, GoToChain DEF RecordFailure
<1>8. CASE StoreFailedJob(c)
  BY <1>t, <1>8, GoToChain DEF StoreFailedJob, tables
<1> QED
  BY <1>1, <1>2, <1>3, <1>4, <1>5, <1>6, <1>7, <1>8 DEF JobStep

\* What the statements of the jobs do to the status of a batch.
LEMMA Marks ==
  ASSUME BatchInv, NEW a \in DOMAIN batches
  PROVE  /\ MarkFailedUnlessProcessed(a) =>
              /\ DOMAIN batches' = DOMAIN batches
              /\ \A b \in DOMAIN batches \ {a} : batches'[b] = batches[b]
              /\ batches'[a].status \in {"failed", "processed"}
         /\ MarkProcessedOnce(a) =>
              /\ DOMAIN batches' = DOMAIN batches
              /\ \A b \in DOMAIN batches \ {a} : batches'[b] = batches[b]
              /\ batches'[a].status = "processed" /\ batches'[a].processedAt
<1>1. batches \in [DOMAIN batches -> BatchRow]
  BY DEF BatchInv, TypeOK, IsTable
<1>2. batches[a].processedAt => batches[a].status = "processed"
  BY DEF BatchInv, LockedWhenWorkedOn
<1>3. [batches[a] EXCEPT !.status = "failed"].status = "failed"
  BY <1>1 DEF BatchRow
<1>4. LET row == [batches[a] EXCEPT !.processedAt = TRUE, !.status = "processed"]
      IN  row.processedAt /\ row.status = "processed"
  BY <1>1 DEF BatchRow
<1>5. ASSUME MarkFailedUnlessProcessed(a)
      PROVE  /\ DOMAIN batches' = DOMAIN batches
             /\ \A b \in DOMAIN batches \ {a} : batches'[b] = batches[b]
             /\ batches'[a].status \in {"failed", "processed"}
  <2>1. \/ batches' = batches /\ batches[a].processedAt
        \/ batches' = [batches EXCEPT ![a] = [batches[a] EXCEPT !.status = "failed"]]
    BY <1>5 DEF MarkFailedUnlessProcessed
  <2> QED
    BY <1>2, <1>3, <2>1
<1>6. ASSUME MarkProcessedOnce(a)
      PROVE  /\ DOMAIN batches' = DOMAIN batches
             /\ \A b \in DOMAIN batches \ {a} : batches'[b] = batches[b]
             /\ batches'[a].status = "processed" /\ batches'[a].processedAt
  <2>1. \/ batches' = batches /\ batches[a].processedAt
        \/ batches' = [batches EXCEPT ![a] = [batches[a] EXCEPT !.processedAt = TRUE, !.status = "processed"]]
    BY <1>6 DEF MarkProcessedOnce
  <2> QED
    BY <1>2, <1>4, <2>1
<1> QED
  BY <1>5, <1>6

\* When the catch callback of a chain has run, its batch is failed or processed.
CaughtIsMarked ==
  \A c \in DOMAIN chain : chain[c].step \in {"caught", "recorded"} =>
    batches[chain[c].batch].status \in {"failed", "processed"}

\* A locked batch that is failed or processed stays one of the two.
LEMMA MarkedStays ==
  ASSUME BatchInv, Next, NEW b \in DOMAIN batches, batches[b].locked,
         batches[b].status \in {"failed", "processed"}
  PROVE  b \in DOMAIN batches' /\ batches'[b].status \in {"failed", "processed"}
<1>1. b \in DOMAIN batches' /\ batches[b] \in BatchRow
  BY BatchesStay DEF BatchInv, TypeOK, IsTable
<1> QED
  BY <1>1, BatchSteps DEF BatchRow

\* The chains change only when a chain is built or a job of one runs, breaks off or is retried.
LEMMA ChainsChange ==
  ASSUME BatchInv, Next
  PROVE  \/ UNCHANGED chain
         \/ \E b \in Batches : BuildChain(b)
         \/ \E c \in Chains : JobStep(c) \/ FailureBreaks(c) \/ WorkerCrash(c) \/ RetryFailedJob(c)
BY DEF Next, IngestStep, BatchStep, ReadOpenBatch, AddNotificationToBatch, CommitIngest, AbortIngest,
   TimerExpires, FlushExpiredBatches, DispatchBatch, DispatchCrash

\* A chain comes to "caught" with its batch marked, and to "recorded" from there only.
LEMMA StepCaughtIsMarked ==
  ASSUME BatchInv, CaughtIsMarked, Next
  PROVE  CaughtIsMarked'
<1>t. TypeOK /\ LockedWhenWorkedOn
  BY DEF BatchInv
<1> SUFFICES ASSUME NEW d \in DOMAIN chain', chain'[d].step \in {"caught", "recorded"}
             PROVE  batches'[chain'[d].batch].status \in {"failed", "processed"}
  BY DEF CaughtIsMarked
<1>1. ASSUME d \in DOMAIN chain, chain'[d].batch = chain[d].batch, chain[d].step \in {"caught", "recorded"}
      PROVE  batches'[chain'[d].batch].status \in {"failed", "processed"}
  BY <1>t, <1>1, MarkedStays DEF CaughtIsMarked, LockedWhenWorkedOn
<1>2. CASE UNCHANGED chain
  BY <1>1, <1>2
<1>3. ASSUME NEW b \in Batches, BuildChain(b)
      PROVE  d \in DOMAIN chain /\ chain'[d] = chain[d]
  <2>1. CASE UNCHANGED chain
    BY <2>1
  <2>2. ASSUME NEW c \in Chains \ DOMAIN chain,
               chain' = Put(chain, c, [batch |-> b, todo |-> Jobs(b), attempts |-> 0, step |-> "queued"])
        PROVE  d \in DOMAIN chain /\ chain'[d] = chain[d]
    BY <2>2 DEF Put
  <2> QED
    BY <1>3, <2>1, <2>2 DEF BuildChain
<1>4. ASSUME NEW c \in Chains, JobStep(c)
      PROVE  batches'[chain'[d].batch].status \in {"failed", "processed"}
  <2>1. c \in DOMAIN chain /\ chain[c].batch \in DOMAIN batches
    BY <1>4, <1>t, JobChain DEF LockedWhenWorkedOn
  <2>2. CASE d # c
    BY <1>1, <1>4, <2>2, JobChain DEF OnlyChain
  <2>3. CASE d = c /\ OnlyChain(c) /\ chain'[c].step = "recorded" /\ chain[c].step = "caught"
    BY <1>1, <2>1, <2>3 DEF OnlyChain
  <2>4. CASE d = c /\ OnlyChain(c) /\ MarkFailedUnlessProcessed(chain[c].batch)
    BY <2>1, <2>4, Marks DEF OnlyChain
  <2> QED
    BY <1>4, <2>2, <2>3, <2>4, JobChain
<1>5. ASSUME NEW c \in Chains, FailureBreaks(c)
      PROVE  d \in DOMAIN chain /\ chain'[d] = chain[d]
  BY <1>t, <1>5, BreakChain DEF OnlyChain
<1>6. ASSUME NEW c \in Chains, WorkerCrash(c)
      PROVE  d \in DOMAIN chain /\ chain'[d] = chain[d]
  BY <1>t, <1>6, CrashChain DEF OnlyChain, NewChain
<1>7. ASSUME NEW c \in Chains, RetryFailedJob(c)
      PROVE  d \in DOMAIN chain /\ chain'[d] = chain[d]
  BY <1>t, <1>7, RetryChain DEF NewChain
<1> QED
  BY <1>1, <1>2, <1>3, <1>4, <1>5, <1>6, <1>7, ChainsChange

StrandedBatches == {b \in Batches : Stranded(b)}

\* A step strands at most the batch whose job breaks off.
LEMMA StrandSets ==
  ASSUME BatchInv, CaughtIsMarked, Next
  PROVE  /\ faults' \in {faults, faults + 1}
         /\ \/ StrandedBatches' \subseteq StrandedBatches
            \/ faults' = faults + 1 /\ \E a : StrandedBatches' \subseteq StrandedBatches \cup {a}
<1>t. TypeOK /\ LockedWhenWorkedOn
  BY DEF BatchInv
<1> DEFINE Fewer == faults' \in {faults, faults + 1} /\ StrandedBatches' \subseteq StrandedBatches
           More  == faults' = faults + 1 /\ \E a : StrandedBatches' \subseteq StrandedBatches \cup {a}
<1> SUFFICES Fewer \/ More
  OBVIOUS
\* A batch was stranded before when its row was, and each of its live chains is still one.
<1>s. ASSUME faults' \in {faults, faults + 1},
             \A b \in Batches : Stranded(b)' =>
               /\ b \in DOMAIN batches /\ batches[b].status = "processing" /\ b \notin building
               /\ \A d \in DOMAIN chain : chain[d].batch = b /\ chain[d].step # "failed" =>
                    \E e \in DOMAIN chain' : chain'[e].batch = b /\ chain'[e].step # "failed"
      PROVE  Fewer
  <2>1. ASSUME NEW b \in Batches, Stranded(b)' PROVE Stranded(b)
    BY <1>s, <2>1 DEF Stranded, ChainsOf, Live
  <2> QED
    BY <1>s, <2>1 DEF StrandedBatches
<1>1. ASSUME UNCHANGED <<batches, building, chain>>, faults' \in {faults, faults + 1}
      PROVE  Fewer
  BY <1>1, <1>s DEF Stranded
<1>2. ASSUME NEW w \in Workers, CommitIngest(w) PROVE Fewer
  <2>1. UNCHANGED <<building, chain, faults>>
    BY <1>2 DEF CommitIngest, queue, luck
  <2>2. ASSUME NEW b \in DOMAIN batches', batches'[b].status = "processing"
        PROVE  b \in DOMAIN batches /\ batches[b].status = "processing"
    BY <1>2, <2>2 DEF CommitIngest, Put, NewBatch
  <2> QED
    BY <1>s, <2>1, <2>2 DEF Stranded
<1>3. ASSUME NEW a \in Batches, DispatchBatch(a) PROVE Fewer
  <2>1. UNCHANGED <<chain, faults>> /\ building \subseteq building'
    BY <1>3 DEF DispatchBatch, luck
  <2>2. ASSUME NEW b \in DOMAIN batches', batches'[b].status = "processing", b \notin building'
        PROVE  b \in DOMAIN batches /\ batches[b].status = "processing"
    <3>1. UNCHANGED batches \/ (a \in building' /\ batches' = [batches EXCEPT ![a] = batches'[a]])
      BY <1>3, <1>t DEF DispatchBatch, LockForProcessing, TypeOK, IsTable
    <3> QED
      BY <1>t, <2>2, <3>1 DEF TypeOK, IsTable
  <2> QED
    BY <1>s, <2>1, <2>2 DEF Stranded
<1>4. ASSUME NEW a \in Batches, BuildChain(a) PROVE Fewer
  <2>1. a \in DOMAIN batches /\ building' = building \ {a} /\ faults' = faults
    BY <1>4, <1>t DEF BuildChain, LockedWhenWorkedOn, luck
  <2>2. CASE Linked(a) = {}
    <3>1. UNCHANGED chain
      BY <1>4, <2>2 DEF BuildChain
    <3>2. DOMAIN batches' = DOMAIN batches /\ batches'[a].status = "processed"
          /\ \A b \in DOMAIN batches \ {a} : batches'[b] = batches[b]
      <4>1. batches' = [batches EXCEPT ![a] = [batches[a] EXCEPT !.processedAt = TRUE, !.status = "processed"]]
        BY <1>4, <2>2 DEF BuildChain
      <4>2. [batches[a] EXCEPT !.processedAt = TRUE, !.status = "processed"].status = "processed"
        BY <1>t, <2>1 DEF TypeOK, IsTable, BatchRow
      <4> QED
        BY <2>1, <4>1, <4>2
    <3> QED
      BY <1>s, <2>1, <3>1, <3>2 DEF Stranded
  <2>3. CASE Linked(a) # {}
    <3>1. PICK d \in Chains \ DOMAIN chain :
            chain' = Put(chain, d, [batch |-> a, todo |-> Jobs(a), attempts |-> 0, step |-> "queued"])
      BY <1>4, <2>3 DEF BuildChain
    <3>2. /\ d \in DOMAIN chain' /\ chain'[d].batch = a /\ chain'[d].step = "queued"
          /\ \A e \in DOMAIN chain : e \in DOMAIN chain' /\ chain'[e] = chain[e]
      BY <3>1 DEF Put
    <3>3. UNCHANGED batches
      BY <1>4, <2>3 DEF BuildChain
    <3>4. ~Stranded(a)'
      BY <3>2 DEF Stranded, ChainsOf, Live
    <3> QED
      BY <1>s, <2>1, <3>2, <3>3, <3>4 DEF Stranded
  <2> QED
    BY <2>2, <2>3
<1>5. ASSUME NEW a \in Batches, DispatchCrash(a) PROVE More
  <2>1. UNCHANGED <<batches, chain>> /\ building \ {a} \subseteq building' /\ faults' = faults + 1
    BY <1>5 DEF DispatchCrash, tables
  <2>2. ASSUME NEW b \in Batches, b # a, Stranded(b)' PROVE Stranded(b)
    BY <2>1, <2>2 DEF Stranded, ChainsOf, Live
  <2> QED
    BY <2>1, <2>2 DEF StrandedBatches
<1>6. ASSUME NEW c \in Chains, JobStep(c) PROVE Fewer
  <2>1. building' = building /\ faults' = faults
    BY <1>6 DEF JobStep, RefuseJob, StartHandle, CallCorsa, CreateZaak, HandleFails, Release,
       MarkProcessed, DispatchNextJob,
     MarkBatchProcessed, MarkBatchFails, CatchFailure, RecordFailure, StoreFailedJob, FailureBreaks,
     queue, luck
  <2>2. c \in DOMAIN chain /\ chain[c].batch \in DOMAIN batches
    BY <1>6, <1>t, JobChain DEF LockedWhenWorkedOn
  <2>3. CASE OnlyChain(c) /\ chain'[c].step # "failed" /\ UNCHANGED batches
    BY <1>s, <2>1, <2>3 DEF Stranded, OnlyChain
  <2>6. CASE OnlyChain(c) /\ chain[c].step = "recorded" /\ UNCHANGED batches
    <3>1. batches[chain[c].batch].status # "processing"
      BY <2>2, <2>6 DEF CaughtIsMarked
    <3> QED
      BY <1>s, <2>1, <2>6, <3>1 DEF Stranded, OnlyChain
  <2>4. CASE /\ OnlyChain(c)
             /\ MarkFailedUnlessProcessed(chain[c].batch) \/ MarkProcessedOnce(chain[c].batch)
    <3>1. /\ DOMAIN batches' = DOMAIN batches
          /\ \A b \in DOMAIN batches \ {chain[c].batch} : batches'[b] = batches[b]
          /\ batches'[chain[c].batch].status \in {"failed", "processed"}
      BY <2>2, <2>4, Marks
    <3> QED
      BY <1>s, <2>1, <2>4, <3>1 DEF Stranded, OnlyChain
  <2>5. CASE /\ DOMAIN chain' = DOMAIN chain \ {c}
             /\ \A d \in DOMAIN chain' : chain'[d] = chain[d]
             /\ MarkProcessedOnce(chain[c].batch)
    <3>1. /\ DOMAIN batches' = DOMAIN batches
          /\ \A b \in DOMAIN batches \ {chain[c].batch} : batches'[b] = batches[b]
          /\ batches'[chain[c].batch].status = "processed"
      BY <2>2, <2>5, Marks
    <3> QED
      BY <1>s, <2>1, <2>5, <3>1 DEF Stranded
  <2> QED
    BY <1>6, <2>3, <2>4, <2>5, <2>6, JobChain
<1>10. ASSUME NEW c \in Chains, FailureBreaks(c) PROVE More
  <2>1. UNCHANGED <<batches, building>> /\ faults' = faults + 1
    BY <1>t, <1>10, BreakChain DEF tables, queue
  <2>2. \A d \in DOMAIN chain \ {c} : d \in DOMAIN chain' /\ chain'[d] = chain[d]
    BY <1>t, <1>10, BreakChain DEF OnlyChain
  <2>3. ASSUME NEW b \in Batches, b # chain[c].batch, Stranded(b)' PROVE Stranded(b)
    BY <2>1, <2>2, <2>3 DEF Stranded, ChainsOf, Live
  <2>4. StrandedBatches' \subseteq StrandedBatches \cup {chain[c].batch}
    BY <2>3 DEF StrandedBatches
  <2> QED
    BY <2>1, <2>4
<1>7. ASSUME NEW c \in Chains, WorkerCrash(c) PROVE Fewer
  <2>1. c \in DOMAIN chain /\ building' = building /\ faults' = faults + 1
    BY <1>7 DEF WorkerCrash, queue
  <2>2. chain[c].batch \in DOMAIN batches
    BY <1>t, <2>1 DEF LockedWhenWorkedOn
  <2>3. UNCHANGED batches \/ MarkProcessedOnce(chain[c].batch)
    BY <1>7 DEF WorkerCrash
  <2>4. ASSUME NEW b \in Batches, Stranded(b)'
        PROVE  b \in DOMAIN batches /\ batches[b].status = "processing"
    BY <2>2, <2>3, <2>4, Marks DEF Stranded
  <2>5. \A d \in DOMAIN chain :
          /\ d \in DOMAIN chain' /\ chain'[d].batch = chain[d].batch
          /\ chain[d].step # "failed" => chain'[d].step # "failed"
    BY <1>7, <1>t, CrashChain DEF OnlyChain, NewChain
  <2> QED
    BY <1>s, <2>1, <2>4, <2>5 DEF Stranded
<1>8. ASSUME NEW c \in Chains, RetryFailedJob(c) PROVE Fewer
  <2>1. UNCHANGED <<batches, building, faults>>
    BY <1>8 DEF RetryFailedJob, tables, queue
  <2>2. \A d \in DOMAIN chain : d \in DOMAIN chain' /\ chain'[d] = chain[d]
    BY <1>8, <1>t, RetryChain DEF NewChain
  <2>3. ASSUME NEW b \in Batches, Stranded(b)' PROVE Stranded(b)
    BY <2>1, <2>2, <2>3 DEF Stranded, ChainsOf, Live
  <2>4. StrandedBatches' \subseteq StrandedBatches
    BY <2>3 DEF StrandedBatches
  <2>5. faults' = faults
    BY <2>1
  <2> QED
    BY <2>4, <2>5
<1>9. ASSUME \/ FlushExpiredBatches \/ \E b \in Batches : TimerExpires(b)
             \/ \E w \in Workers : \/ AddNotificationToBatch(w) \/ AbortIngest(w)
                                   \/ \E z \in Zaken, k \in Delivered : ReadOpenBatch(w, z, k)
      PROVE  Fewer
  <2>1. UNCHANGED <<batches, building, chain>> /\ faults' \in {faults, faults + 1}
    BY <1>9 DEF FlushExpiredBatches, TimerExpires, AddNotificationToBatch, AbortIngest,
       ReadOpenBatch, tables, queue, luck
  <2> QED
    BY <1>1, <2>1
<1> HIDE DEF Fewer, More
<1> QED
  BY <1>2, <1>3, <1>4, <1>5, <1>6, <1>7, <1>8, <1>9, <1>10 DEF Next, IngestStep, BatchStep

StrandInv == BatchInv /\ CaughtIsMarked /\ IsFiniteSet(StrandedBatches) /\ StrandedNeedsFault

\* A step that strands a batch is a job that breaks off.
LEMMA StepStrandInv == StrandInv /\ [Next]_vars => StrandInv'
<1> SUFFICES ASSUME StrandInv, [Next]_vars PROVE StrandInv'
  OBVIOUS
<1>0. /\ BatchInv /\ BatchInv' /\ CaughtIsMarked /\ IsFiniteSet(StrandedBatches)
      /\ Cardinality(StrandedBatches) <= faults
  BY StepBatchInv DEF StrandInv, StrandedNeedsFault, StrandedBatches
<1>c. CaughtIsMarked'
  BY <1>0, StepCaughtIsMarked DEF CaughtIsMarked, vars, tables, queue
<1>t. faults \in Nat /\ faults' \in Nat
  BY <1>0 DEF BatchInv, TypeOK
<1> SUFFICES IsFiniteSet(StrandedBatches') /\ Cardinality(StrandedBatches') <= faults'
  BY <1>0, <1>c DEF StrandInv, StrandedNeedsFault, StrandedBatches
<1>1. CASE UNCHANGED vars
  BY <1>0, <1>1 DEF vars, tables, queue, luck, StrandedBatches, Stranded, ChainsOf, Live
<1>2. CASE Next
  <2>1. CASE StrandedBatches' \subseteq StrandedBatches /\ faults' \in {faults, faults + 1}
    BY <1>0, <1>t, <2>1, NoMore
  <2>2. ASSUME NEW a, StrandedBatches' \subseteq StrandedBatches \cup {a}, faults' = faults + 1
        PROVE  IsFiniteSet(StrandedBatches') /\ Cardinality(StrandedBatches') <= faults'
    BY <1>0, <1>t, <2>2, OneMore
  <2> QED
    BY <1>0, <1>2, <2>1, <2>2, StrandSets
<1> QED
  BY <1>1, <1>2

\* Every batch that stays in processing with nothing at work on it took a job of its own that
\* broke off: DispatchBatch between the lock and the chain, or a failure before its catch
\* callback was done.  No failure of a job that runs to its end, and no order of the jobs,
\* leaves a batch in processing.
THEOREM StrandedNeedsFaultHolds == Spec => []StrandedNeedsFault
<1>1. Init => StrandInv
  <2> SUFFICES ASSUME Init PROVE StrandInv
    OBVIOUS
  <2>1. StrandedBatches = {} /\ faults = 0 /\ CaughtIsMarked
    BY DEF Init, Empty, StrandedBatches, Stranded, CaughtIsMarked
  <2> QED
    BY <2>1, FS_EmptySet, InitBatchInv DEF StrandInv, StrandedNeedsFault, StrandedBatches
<1>2. StrandInv => StrandedNeedsFault
  BY DEF StrandInv
<1> QED
  BY <1>1, <1>2, StepStrandInv, PTL DEF Spec

(* A failed batch can still be finished. *)

\* A chain leaves the queue with its batch processed, or when its failure breaks off.
LEMMA ChainLeaves ==
  ASSUME BatchInv, Next, NEW c \in DOMAIN chain, c \notin DOMAIN chain'
  PROVE  FailureBreaks(c) \/ batches'[chain[c].batch].status = "processed"
<1>t. TypeOK /\ LockedWhenWorkedOn
  BY DEF BatchInv
<1>1. ASSUME NEW b \in Batches, BuildChain(b) PROVE FALSE
  BY <1>1 DEF BuildChain, Put
<1>2. ASSUME NEW d \in Chains, JobStep(d) PROVE batches'[chain[c].batch].status = "processed"
  <2>1. d = c /\ MarkProcessedOnce(chain[c].batch)
    BY <1>2, JobChain DEF OnlyChain
  <2> QED
    BY <1>t, <2>1, Marks DEF LockedWhenWorkedOn
<1>3. ASSUME NEW d \in Chains, FailureBreaks(d) PROVE FailureBreaks(c)
  <2>1. d = c
    BY <1>t, <1>3, BreakChain DEF OnlyChain
  <2> QED
    BY <1>3, <2>1
<1>4. ASSUME NEW d \in Chains, WorkerCrash(d) PROVE FALSE
  BY <1>t, <1>4, CrashChain DEF OnlyChain, NewChain
<1>5. ASSUME NEW d \in Chains, RetryFailedJob(d) PROVE FALSE
  BY <1>t, <1>5, RetryChain DEF NewChain
<1> QED
  BY <1>1, <1>2, <1>3, <1>4, <1>5, ChainsChange

\* A batch fails with the chain of which a job fails, and the chain is still there.
LEMMA FailSteps ==
  ASSUME BatchInv, Next, NEW b \in DOMAIN batches', batches'[b].status = "failed"
  PROVE  \/ b \in DOMAIN batches /\ batches[b].status = "failed"
         \/ \E c \in DOMAIN chain' : chain'[c].batch = b
<1>t. TypeOK /\ LockedWhenWorkedOn
  BY DEF BatchInv
<1> DEFINE Was  == b \in DOMAIN batches /\ batches[b].status = "failed"
           Fails == \E c \in DOMAIN chain' : chain'[c].batch = b
<1> SUFFICES Was \/ Fails
  OBVIOUS
<1>1. ASSUME UNCHANGED batches PROVE Was
  BY <1>1
<1>2. ASSUME NEW w \in Workers, CommitIngest(w) PROVE Was
  BY <1>2 DEF CommitIngest, Put, NewBatch
<1>3. ASSUME NEW a \in Batches, DispatchBatch(a) \/ BuildChain(a) PROVE Was
  <2>1. \/ UNCHANGED batches
        \/ batches' = [batches EXCEPT ![a] = [batches[a] EXCEPT !.locked = TRUE, !.status = "processing"]]
        \/ batches' = [batches EXCEPT ![a] = [batches[a] EXCEPT !.processedAt = TRUE, !.status = "processed"]]
    BY <1>3 DEF DispatchBatch, BuildChain, LockForProcessing
  <2>2. ASSUME a \in DOMAIN batches
        PROVE  /\ [batches[a] EXCEPT !.locked = TRUE, !.status = "processing"].status = "processing"
               /\ [batches[a] EXCEPT !.processedAt = TRUE, !.status = "processed"].status = "processed"
    BY <1>t, <2>2 DEF TypeOK, IsTable, BatchRow
  <2> QED
    BY <2>1, <2>2
<1>4. ASSUME NEW c \in Chains, JobStep(c) PROVE Was \/ Fails
  <2>1. c \in DOMAIN chain /\ chain[c].batch \in DOMAIN batches
    BY <1>4, <1>t, JobChain DEF LockedWhenWorkedOn
  <2>2. CASE UNCHANGED batches
    BY <1>1, <2>2
  <2>3. CASE OnlyChain(c) /\ MarkFailedUnlessProcessed(chain[c].batch)
    <3>1. CASE b = chain[c].batch
      BY <2>1, <2>3, <3>1 DEF OnlyChain
    <3>2. CASE b # chain[c].batch
      BY <2>1, <2>3, <3>2, Marks
    <3> QED
      BY <3>1, <3>2
  <2>4. CASE MarkProcessedOnce(chain[c].batch)
    BY <2>1, <2>4, Marks
  <2> QED
    BY <1>4, <2>2, <2>3, <2>4, JobChain
<1>5. ASSUME NEW c \in Chains, WorkerCrash(c) PROVE Was
  <2>1. c \in DOMAIN chain /\ (UNCHANGED batches \/ MarkProcessedOnce(chain[c].batch))
    BY <1>5 DEF WorkerCrash
  <2>2. chain[c].batch \in DOMAIN batches
    BY <1>t, <2>1 DEF LockedWhenWorkedOn
  <2> QED
    BY <2>1, <2>2, Marks
<1>6. ASSUME \/ FlushExpiredBatches
             \/ \E a \in Batches : TimerExpires(a) \/ DispatchCrash(a)
             \/ \E c \in Chains : RetryFailedJob(c) \/ FailureBreaks(c)
             \/ \E w \in Workers : \/ AddNotificationToBatch(w) \/ AbortIngest(w)
                                   \/ \E z \in Zaken, k \in Delivered : ReadOpenBatch(w, z, k)
      PROVE  Was
  <2>1. UNCHANGED batches
    BY <1>6 DEF FlushExpiredBatches, TimerExpires, DispatchCrash, RetryFailedJob, FailureBreaks,
       AddNotificationToBatch, AbortIngest, ReadOpenBatch, tables
  <2> QED
    BY <1>1, <2>1
<1> HIDE DEF Was, Fails
<1> QED
  BY <1>2, <1>3, <1>4, <1>5, <1>6 DEF Next, IngestStep, BatchStep

GivenUpBatches == {b \in Batches : GivenUp(b)}

\* A step gives up at most the batch whose failure breaks off.
LEMMA GivenUpSets ==
  ASSUME BatchInv, Next
  PROVE  \/ GivenUpBatches' \subseteq GivenUpBatches
         \/ faults' = faults + 1 /\ \E a : GivenUpBatches' \subseteq GivenUpBatches \cup {a}
<1>t. TypeOK
  BY DEF BatchInv
<1>k. \A c \in DOMAIN chain : c \in DOMAIN chain' => chain'[c].batch = chain[c].batch
  BY ChainSets
<1>f. ASSUME NEW b \in Batches, GivenUp(b)' PROVE b \in DOMAIN batches /\ batches[b].status = "failed"
  BY <1>f, FailSteps DEF GivenUp, ChainsOf
<1>1. CASE \A c \in DOMAIN chain : ~FailureBreaks(c)
  <2>1. ASSUME NEW b \in Batches, GivenUp(b)' PROVE GivenUp(b)
    <3>1. ASSUME NEW c \in DOMAIN chain, chain[c].batch = b PROVE FALSE
      BY <1>1, <1>k, <2>1, <3>1, ChainLeaves DEF GivenUp, ChainsOf
    <3> QED
      BY <1>f, <2>1, <3>1 DEF GivenUp, ChainsOf
  <2> QED
    BY <2>1 DEF GivenUpBatches
<1>2. ASSUME NEW c \in DOMAIN chain, FailureBreaks(c)
      PROVE  faults' = faults + 1 /\ \E a : GivenUpBatches' \subseteq GivenUpBatches \cup {a}
  <2>1. c \in Chains
    BY <1>t DEF TypeOK, IsTable
  <2>2. /\ faults' = faults + 1
        /\ \A d \in DOMAIN chain \ {c} : d \in DOMAIN chain'
    BY <1>t, <1>2, <2>1, BreakChain DEF OnlyChain
  <2>3. ASSUME NEW b \in Batches, GivenUp(b)', b # chain[c].batch PROVE GivenUp(b)
    BY <1>f, <1>k, <2>2, <2>3 DEF GivenUp, ChainsOf
  <2>4. GivenUpBatches' \subseteq GivenUpBatches \cup {chain[c].batch}
    BY <2>3 DEF GivenUpBatches
  <2> QED
    BY <2>2, <2>4
<1> QED
  BY <1>1, <1>2

GivenUpInv ==
  StrandInv /\ IsFiniteSet(GivenUpBatches) /\ Cardinality(GivenUpBatches) <= faults

\* A step that gives a batch up is a failure that breaks off.
LEMMA StepGivenUpInv == GivenUpInv /\ [Next]_vars => GivenUpInv'
<1> SUFFICES ASSUME GivenUpInv, [Next]_vars PROVE GivenUpInv'
  OBVIOUS
<1>0. /\ StrandInv /\ StrandInv' /\ BatchInv /\ BatchInv' /\ CaughtIsMarked
      /\ IsFiniteSet(GivenUpBatches) /\ Cardinality(GivenUpBatches) <= faults
  BY StepStrandInv DEF GivenUpInv, StrandInv
<1>t. faults \in Nat /\ faults' \in Nat
  BY <1>0 DEF BatchInv, TypeOK
<1> SUFFICES IsFiniteSet(GivenUpBatches') /\ Cardinality(GivenUpBatches') <= faults'
  BY <1>0 DEF GivenUpInv, GivenUpBatches
<1>1. CASE UNCHANGED vars
  BY <1>0, <1>1 DEF vars, tables, queue, luck, GivenUpBatches, GivenUp, ChainsOf
<1>2. CASE Next
  <2>f. faults' \in {faults, faults + 1}
    BY <1>0, <1>2, StrandSets
  <2>1. CASE GivenUpBatches' \subseteq GivenUpBatches
    BY <1>0, <1>t, <2>f, <2>1, NoMore
  <2>2. ASSUME NEW a, GivenUpBatches' \subseteq GivenUpBatches \cup {a}, faults' = faults + 1
        PROVE  IsFiniteSet(GivenUpBatches') /\ Cardinality(GivenUpBatches') <= faults'
    BY <1>0, <1>t, <2>2, OneMore
  <2> QED
    BY <1>0, <1>2, <2>1, <2>2, GivenUpSets
<1> QED
  BY <1>1, <1>2

\* A batch that is shown as failed keeps a chain, with everything in it that is not handled: the
\* failed job that the admin retries, or a chain that is still on the queue.  Every batch without
\* one took a job of its own that broke off after the catch callback of its chain.
THEOREM FailedCanBeFinishedHolds == Spec => []FailedCanBeFinished
<1>1. Init => GivenUpInv
  <2> SUFFICES ASSUME Init PROVE GivenUpInv
    OBVIOUS
  <2>1. /\ StrandedBatches = {} /\ GivenUpBatches = {} /\ faults = 0 /\ CaughtIsMarked
    BY DEF Init, Empty, StrandedBatches, Stranded, GivenUpBatches, GivenUp, CaughtIsMarked
  <2> QED
    BY <2>1, FS_EmptySet, InitBatchInv DEF GivenUpInv, StrandInv, StrandedNeedsFault, StrandedBatches
<1>2. GivenUpInv => FailedCanBeFinished
  BY DEF GivenUpInv, StrandInv, GivenUpBatches, FailedCanBeFinished, BatchInv, ChainsPassHandled
<1> QED
  BY <1>1, <1>2, StepGivenUpInv, PTL DEF Spec

(* Corsa is changed twice for a notification only after a fault or a retry. *)

\* The chains that may still change Corsa for a notification: its job is left, and was not
\* the one that called Corsa just now, nor did one before it fail.
Ended == {"failing", "caught", "recorded", "failed"}
MayCall(n) ==
  {c \in DOMAIN chain : /\ n \in chain[c].todo /\ chain[c].step \notin Ended
                        /\ ~(IsHead(c, n) /\ chain[c].step \in {"sent", "done"})}

\* The chain with the job of a notification is still to be built.
Waits(n) ==
  n \in DOMAIN notif /\ notif[n].batch \in DOMAIN batches /\ batches[notif[n].batch].locked =>
    notif[n].batch \in building

CallsLeft(n) == sent[n] + Cardinality(MayCall(n)) + (IF Waits(n) THEN 1 ELSE 0)

RepeatInv == ChainCountInv /\ \A n \in Ids : CallsLeft(n) <= 1 + faults + retries

\* A batch whose chain was built, or lost, does not get another one.
LEMMA WaitsNoMore ==
  ASSUME BatchInv, Next, NEW n, Waits(n)'
  PROVE  Waits(n)
<1> SUFFICES ASSUME n \in DOMAIN notif, notif[n].batch \in DOMAIN batches,
                    batches[notif[n].batch].locked, notif[n].batch \notin building
             PROVE  FALSE
  BY DEF Waits
<1>1. n \in DOMAIN notif' /\ notif'[n].batch = notif[n].batch
  BY NotificationsStay
<1>2. notif[n].batch \in DOMAIN batches' /\ batches'[notif[n].batch].locked
  BY BatchesStay
<1>3. notif[n].batch \notin building'
  BY ChainSets
<1> QED
  BY <1>1, <1>2, <1>3 DEF Waits

\* The first job of a chain stays the first while no job is passed.
LEMMA HeadStays ==
  ASSUME BatchInv, Next, NEW c \in DOMAIN chain, chain'[c].todo = chain[c].todo, NEW n
  PROVE  IsHead(c, n)' <=> IsHead(c, n)
<1>1. ASSUME NEW m \in chain[c].todo PROVE m \in DOMAIN notif /\ notif'[m].kind = notif[m].kind
  BY <1>1, NotificationsStay DEF BatchInv, ChainsPassHandled, Jobs, Linked
<1>2. ASSUME NEW m \in chain[c].todo, NEW k \in chain[c].todo
      PROVE  Precedes(notif, m, k)' <=> Precedes(notif, m, k)
  BY <1>1, <1>2 DEF Precedes
<1> QED
  BY <1>2 DEF IsHead

\* A chain that a step leaves alone does not start to call.
LEMMA OthersCall ==
  ASSUME BatchInv, Next, NEW d \in DOMAIN chain, chain'[d] = chain[d], NEW n, d \in MayCall(n)'
  PROVE  d \in MayCall(n)
<1>1. IsHead(d, n)' <=> IsHead(d, n)
  BY HeadStays
<1> QED
  BY <1>1 DEF MayCall

\* A step adds at most one chain that may call Corsa for a notification, and pays for it; a
\* call uses one up.
LEMMA CallSteps ==
  ASSUME ChainCountInv, Next, NEW n \in Ids
  PROVE  \/ /\ MayCall(n)' \subseteq MayCall(n) /\ sent'[n] = sent[n]
            /\ faults' \in {faults, faults + 1} /\ retries' = retries
         \/ /\ \E c \in MayCall(n) : MayCall(n)' \subseteq MayCall(n) \ {c}
            /\ sent'[n] = sent[n] + 1 /\ faults' = faults /\ retries' = retries
         \/ /\ \E d : MayCall(n)' \subseteq MayCall(n) \cup {d}
            /\ sent'[n] = sent[n] /\ faults' + retries' = faults + retries + 1
         \/ /\ \E d : MayCall(n)' \subseteq MayCall(n) \cup {d}
            /\ sent'[n] = sent[n] /\ faults' = faults /\ retries' = retries
            /\ Waits(n) /\ ~Waits(n)'
<1>t. /\ BatchInv /\ TypeOK /\ LockedWhenWorkedOn /\ ChainsPassHandled
      /\ faults \in Nat /\ retries \in Nat /\ sent \in [Ids -> Nat]
  BY DEF ChainCountInv, BatchInv, TypeOK
<1> DEFINE Same == /\ MayCall(n)' \subseteq MayCall(n) /\ sent'[n] = sent[n]
                   /\ faults' \in {faults, faults + 1} /\ retries' = retries
           Call == /\ \E c \in MayCall(n) : MayCall(n)' \subseteq MayCall(n) \ {c}
                   /\ sent'[n] = sent[n] + 1 /\ faults' = faults /\ retries' = retries
           Pays == /\ \E d : MayCall(n)' \subseteq MayCall(n) \cup {d}
                   /\ sent'[n] = sent[n] /\ faults' + retries' = faults + retries + 1
           Built == /\ \E d : MayCall(n)' \subseteq MayCall(n) \cup {d}
                    /\ sent'[n] = sent[n] /\ faults' = faults /\ retries' = retries
                    /\ Waits(n) /\ ~Waits(n)'
<1> SUFFICES Same \/ Call \/ Pays \/ Built
  OBVIOUS
<1>o. ASSUME NEW d \in DOMAIN chain, chain'[d] = chain[d], d \in MayCall(n)' PROVE d \in MayCall(n)
  BY <1>t, <1>o, OthersCall
<1>m. \A d : d \in MayCall(n)' => d \in DOMAIN chain' /\ n \in chain'[d].todo
  BY DEF MayCall
<1>1. ASSUME UNCHANGED <<chain, sent, retries>>, faults' \in {faults, faults + 1} PROVE Same
  <2>1. MayCall(n)' \subseteq MayCall(n)
    BY <1>1, <1>m, <1>o
  <2> QED
    BY <1>1, <2>1
<1>2. ASSUME NEW b \in Batches, BuildChain(b) PROVE Same \/ Built
  <2>1. /\ b \in building /\ building' = building \ {b} /\ UNCHANGED <<notif, sent, faults, retries>>
        /\ b \in DOMAIN batches /\ batches[b].locked
    BY <1>2, <1>t DEF BuildChain, LockedWhenWorkedOn, corsa, luck
  <2>2. CASE Linked(b) = {}
    <3>1. UNCHANGED chain
      BY <1>2, <2>2 DEF BuildChain
    <3> QED
      BY <1>1, <2>1, <3>1
  <2>3. CASE Linked(b) # {}
    <3>1. PICK d \in Chains \ DOMAIN chain :
            chain' = Put(chain, d, [batch |-> b, todo |-> Jobs(b), attempts |-> 0, step |-> "queued"])
      BY <1>2, <2>3 DEF BuildChain
    <3>2. /\ DOMAIN chain' = DOMAIN chain \cup {d} /\ chain'[d].todo = Jobs(b)
          /\ \A e \in DOMAIN chain : chain'[e] = chain[e]
      BY <3>1 DEF Put
    <3>3. MayCall(n)' \subseteq MayCall(n) \cup {d}
      BY <3>2, <1>m, <1>o
    <3>4. CASE n \in Jobs(b)
      <4>1. n \in DOMAIN notif /\ notif[n].batch = b
        BY <3>4 DEF Jobs, Linked
      <4>2. UNCHANGED batches
        BY <1>2, <2>3 DEF BuildChain
      <4>3. Waits(n) /\ ~Waits(n)'
        BY <2>1, <4>1, <4>2 DEF Waits
      <4> QED
        BY <2>1, <3>3, <4>3
    <3>5. CASE n \notin Jobs(b)
      <4>1. MayCall(n)' \subseteq MayCall(n)
        BY <3>2, <3>3, <3>5, <1>m
      <4> QED
        BY <2>1, <4>1
    <3> QED
      BY <3>4, <3>5
  <2> QED
    BY <2>2, <2>3
<1>3. ASSUME NEW c \in Chains, RetryFailedJob(c) PROVE Pays
  <2>1. UNCHANGED <<sent, faults>> /\ retries' = retries + 1
    BY <1>3 DEF RetryFailedJob, corsa
  <2>2. PICK d \in Chains : NewChain(d) /\ \A e \in DOMAIN chain : chain'[e] = chain[e]
    BY <1>3, <1>t, RetryChain
  <2>3. MayCall(n)' \subseteq MayCall(n) \cup {d}
    BY <2>2, <1>m, <1>o DEF NewChain
  <2>4. sent'[n] = sent[n] /\ faults' + retries' = faults + retries + 1
    BY <1>t, <2>1
  <2> QED
    BY <2>3, <2>4
<1>4. ASSUME NEW c \in Chains, WorkerCrash(c) PROVE Pays
  <2>1. UNCHANGED <<sent, retries>> /\ faults' = faults + 1
    BY <1>4 DEF WorkerCrash, corsa
  <2>2. sent'[n] = sent[n] /\ faults' + retries' = faults + retries + 1
    BY <1>t, <2>1
  <2>3. CASE OnlyChain(c)
    <3>1. MayCall(n)' \subseteq MayCall(n) \cup {c}
      BY <2>3, <1>m, <1>o DEF OnlyChain
    <3> QED
      BY <2>2, <3>1
  <2>4. ASSUME NEW d \in Chains, NEW m \in Ids,
               c \in DOMAIN chain, NewChain(d), chain[c].step = "done", IsHead(c, m),
               \A e \in DOMAIN chain \ {c} : chain'[e] = chain[e],
               chain'[c].todo = chain[c].todo, chain'[d].todo = chain[c].todo \ {m}
        PROVE  Pays
    <3>1. MayCall(n)' \subseteq MayCall(n) \cup {c, d}
      BY <2>4, <1>m, <1>o DEF NewChain
    <3>2. CASE n = m
      <4>1. d \notin MayCall(n)'
        BY <2>4, <3>2, <1>m
      <4>2. MayCall(n)' \subseteq MayCall(n) \cup {c}
        BY <3>1, <4>1
      <4> QED
        BY <2>2, <4>2
    <3>3. CASE n # m
      <4>1. ~IsHead(c, n)
        BY <1>t, <2>4, <3>3, OneHead
      <4>2. c \in MayCall(n)' => c \in MayCall(n)
        BY <2>4, <4>1, <1>m DEF MayCall, Ended
      <4>3. MayCall(n)' \subseteq MayCall(n) \cup {d}
        BY <3>1, <4>2
      <4> QED
        BY <2>2, <4>3
    <3> QED
      BY <3>2, <3>3
  <2> HIDE DEF Pays
  <2> QED
    BY <1>t, <1>4, <2>3, <2>4, CrashChain
<1>5. ASSUME NEW c \in Chains, JobStep(c) PROVE Same \/ Call
  <2>1. faults' = faults /\ retries' = retries
    BY <1>5 DEF JobStep, RefuseJob, StartHandle, CallCorsa, CreateZaak, HandleFails, Release,
       MarkProcessed, DispatchNextJob,
     MarkBatchProcessed, MarkBatchFails, CatchFailure, RecordFailure, StoreFailedJob, FailureBreaks,
     luck
  <2>2. ASSUME OnlyChain(c), c \in DOMAIN chain, c \in MayCall(n)' => c \in MayCall(n),
               sent'[n] = sent[n]
        PROVE  Same
    <3>1. MayCall(n)' \subseteq MayCall(n)
      BY <2>2, <1>m, <1>o DEF OnlyChain
    <3> QED
      BY <2>1, <2>2, <3>1
  <2>3. CASE \/ RefuseJob(c) \/ HandleFails(c) \/ MarkBatchFails(c)
             \/ CatchFailure(c) \/ RecordFailure(c) \/ StoreFailedJob(c)
    <3>1. c \in DOMAIN chain /\ UNCHANGED sent /\ \E step \in Ended : GoTo(c, step)
      BY <2>3 DEF RefuseJob, HandleFails, MarkBatchFails, CatchFailure, RecordFailure, StoreFailedJob,
         FailJob, corsa, Ended
    <3>2. OnlyChain(c) /\ chain'[c].step \in Ended
      BY <1>t, <3>1, GoToChain
    <3>3. c \notin MayCall(n)'
      BY <3>2 DEF MayCall
    <3> QED
      BY <2>2, <3>1, <3>2, <3>3
  <2>4. CASE StartHandle(c)
    <3>1. /\ c \in DOMAIN chain /\ chain[c].step = "queued" /\ OnlyChain(c)
          /\ chain'[c].todo = chain[c].todo
      BY <1>t, <2>4, StartChain
    <3>2. c \in MayCall(n)' => c \in MayCall(n)
      BY <3>1 DEF MayCall, Ended
    <3>3. UNCHANGED sent
      BY <2>4 DEF StartHandle, corsa
    <3> QED
      BY <2>2, <3>1, <3>2, <3>3
  <2>5. CASE Release(c) \/ MarkProcessed(c)
    <3>1. /\ c \in DOMAIN chain /\ UNCHANGED sent
          /\ \/ GoTo(c, "queued") /\ chain[c].step = "running"
             \/ GoTo(c, "done") /\ chain[c].step = "sent"
      BY <2>5 DEF Release, MarkProcessed, corsa
    <3>2. /\ OnlyChain(c) /\ chain'[c].todo = chain[c].todo
          /\ chain[c].step = "running" \/ (chain[c].step = "sent" /\ chain'[c].step = "done")
      BY <1>t, <3>1, GoToChain
    <3>3. IsHead(c, n)' <=> IsHead(c, n)
      BY <1>t, <3>1, <3>2, HeadStays
    <3>4. c \in MayCall(n)' => c \in MayCall(n)
      BY <3>1, <3>2, <3>3 DEF MayCall, Ended
    <3> QED
      BY <2>2, <3>1, <3>2, <3>4
  <2>6. CASE CallCorsa(c) \/ CreateZaak(c)
    <3>1. PICK m \in Ids :
            /\ c \in DOMAIN chain /\ chain[c].step \in {"running", "creating"} /\ IsHead(c, m)
            /\ \/ UNCHANGED sent /\ \E step \in {"sent", "creating"} : GoTo(c, step)
               \/ sent' = [sent EXCEPT ![m] = sent[m] + 1] /\ GoTo(c, "sent")
      BY <2>6 DEF CallCorsa, CreateZaak
    <3>2. OnlyChain(c) /\ chain'[c].todo = chain[c].todo
      BY <1>t, <3>1, GoToChain
    <3>3. c \in MayCall(n)' => c \in MayCall(n)
      BY <3>1, <3>2 DEF MayCall, Ended
    <3>4. CASE sent'[n] = sent[n]
      BY <2>2, <3>1, <3>2, <3>3, <3>4
    <3>5. CASE sent'[n] # sent[n]
      <4>1. m = n /\ sent'[n] = sent[n] + 1 /\ GoTo(c, "sent")
        BY <1>t, <3>1, <3>5
      <4>2. chain'[c].step = "sent" /\ IsHead(c, n)' /\ n \in chain[c].todo
        BY <1>t, <3>1, <3>2, <4>1, GoToChain, HeadStays DEF IsHead
      <4>3. c \notin MayCall(n)' /\ c \in MayCall(n)
        BY <3>1, <4>2 DEF MayCall, Ended
      <4>4. MayCall(n)' \subseteq MayCall(n) \ {c}
        BY <3>2, <4>3, <1>m, <1>o DEF OnlyChain
      <4> QED
        BY <2>1, <4>1, <4>3, <4>4
    <3> QED
      BY <3>4, <3>5
  <2>7. CASE DispatchNextJob(c)
    <3>1. PICK m \in Ids : /\ c \in DOMAIN chain /\ chain[c].step = "done" /\ IsHead(c, m)
                           /\ OnlyChain(c) /\ chain'[c].todo = chain[c].todo \ {m}
      BY <1>t, <2>7, NextChain
    <3>2. c \in MayCall(n)' => c \in MayCall(n)
      <4>1. ASSUME c \in MayCall(n)' PROVE n \in chain[c].todo /\ n # m
        BY <3>1, <4>1, <1>m
      <4>2. n # m => ~IsHead(c, n)
        BY <1>t, <3>1, OneHead
      <4> QED
        BY <3>1, <4>1, <4>2 DEF MayCall, Ended
    <3>3. UNCHANGED sent
      BY <2>7 DEF DispatchNextJob, corsa
    <3> QED
      BY <2>2, <3>1, <3>2, <3>3
  <2>8. CASE MarkBatchProcessed(c)
    <3>1. /\ DOMAIN chain' \subseteq DOMAIN chain /\ UNCHANGED sent
          /\ \A e \in DOMAIN chain' : chain'[e] = chain[e]
      BY <2>8 DEF MarkBatchProcessed, Drop, corsa
    <3>2. MayCall(n)' \subseteq MayCall(n)
      BY <3>1, <1>m, <1>o
    <3> QED
      BY <2>1, <3>1, <3>2
  <2> HIDE DEF Same, Call
  <2> QED
    BY <1>5, <2>3, <2>4, <2>5, <2>6, <2>7, <2>8 DEF JobStep
<1>7. ASSUME NEW c \in Chains, FailureBreaks(c) PROVE Same
  <2>1. UNCHANGED <<sent, retries>> /\ faults' = faults + 1
    BY <1>t, <1>7, BreakChain DEF corsa
  <2>2. CASE OnlyChain(c) /\ chain'[c].step = "failed"
    <3>1. c \notin MayCall(n)'
      BY <2>2 DEF MayCall, Ended
    <3>2. MayCall(n)' \subseteq MayCall(n)
      BY <2>2, <3>1, <1>m, <1>o DEF OnlyChain
    <3> QED
      BY <2>1, <3>2
  <2>3. CASE DOMAIN chain' = DOMAIN chain \ {c} /\ \A d \in DOMAIN chain' : chain'[d] = chain[d]
    <3>1. MayCall(n)' \subseteq MayCall(n)
      BY <2>3, <1>m, <1>o
    <3> QED
      BY <2>1, <3>1
  <2> QED
    BY <1>t, <1>7, <2>2, <2>3, BreakChain
<1>6. ASSUME \/ FlushExpiredBatches
             \/ \E a \in Batches : TimerExpires(a) \/ DispatchBatch(a) \/ DispatchCrash(a)
             \/ \E w \in Workers : \/ IngestStep(w) \/ AbortIngest(w)
                                   \/ \E z \in Zaken, k \in Delivered : ReadOpenBatch(w, z, k)
      PROVE  Same
  <2>1. UNCHANGED <<chain, sent, retries>> /\ faults' \in {faults, faults + 1}
    BY <1>6 DEF FlushExpiredBatches, TimerExpires, DispatchBatch, DispatchCrash, IngestStep,
       AddNotificationToBatch, CommitIngest, AbortIngest, ReadOpenBatch, corsa, luck
  <2> QED
    BY <1>1, <2>1
<1> HIDE DEF Same, Call, Pays, Built
<1> QED
  BY <1>2, <1>3, <1>4, <1>5, <1>6, <1>7 DEF Next, BatchStep

\* A call of Corsa uses up one that its chain may make; a new chain costs a fault or a retry.
LEMMA StepRepeatInv == RepeatInv /\ [Next]_vars => RepeatInv'
<1> SUFFICES ASSUME RepeatInv, [Next]_vars PROVE RepeatInv'
  OBVIOUS
<1>0. ChainCountInv /\ ChainCountInv' /\ BatchInv /\ IsFiniteSet(DOMAIN chain)
  BY StepChainCount DEF RepeatInv, ChainCountInv
<1> SUFFICES ASSUME NEW n \in Ids PROVE CallsLeft(n)' <= 1 + faults' + retries'
  BY <1>0 DEF RepeatInv
<1>t. /\ faults \in Nat /\ retries \in Nat /\ sent[n] \in Nat
      /\ faults' \in Nat /\ retries' \in Nat /\ sent'[n] \in Nat
  BY <1>0 DEF ChainCountInv, BatchInv, TypeOK
<1>n. IsFiniteSet(MayCall(n)) /\ Cardinality(MayCall(n)) \in Nat
  BY <1>0, NoMore DEF MayCall
<1>o. sent[n] + Cardinality(MayCall(n)) + (IF Waits(n) THEN 1 ELSE 0) <= 1 + faults + retries
  BY DEF RepeatInv, CallsLeft
<1> DEFINE calls == Cardinality(MayCall(n)')
           Fits  == sent'[n] + calls + (IF Waits(n)' THEN 1 ELSE 0) <= 1 + faults' + retries'
<1>1. CASE UNCHANGED vars
  BY <1>1, <1>o DEF vars, tables, queue, corsa, luck, CallsLeft, MayCall, Waits, IsHead
<1>2. CASE Next
  <2>w. Waits(n)' => Waits(n)
    BY <1>0, <1>2, WaitsNoMore
  <2>1. ASSUME MayCall(n)' \subseteq MayCall(n), sent'[n] = sent[n],
               faults' \in {faults, faults + 1}, retries' = retries
        PROVE  Fits
    <3>1. calls <= Cardinality(MayCall(n)) /\ calls \in Nat
      BY <1>n, <2>1, NoMore
    <3> QED
      BY <1>t, <1>n, <1>o, <2>w, <2>1, <3>1
  <2>2. ASSUME NEW c \in MayCall(n), MayCall(n)' \subseteq MayCall(n) \ {c},
               sent'[n] = sent[n] + 1, faults' = faults, retries' = retries
        PROVE  Fits
    <3>1. calls + 1 <= Cardinality(MayCall(n)) /\ calls \in Nat
      BY <1>n, <2>2, OneLess
    <3> QED
      BY <1>t, <1>n, <1>o, <2>w, <2>2, <3>1
  <2>3. ASSUME NEW d, MayCall(n)' \subseteq MayCall(n) \cup {d},
               sent'[n] = sent[n], faults' + retries' = faults + retries + 1
        PROVE  Fits
    <3>1. calls <= Cardinality(MayCall(n)) + 1 /\ calls \in Nat
      BY <1>n, <2>3, OneMore
    <3>2. ASSUME NEW f \in Nat, NEW g \in Nat, f + g = faults + retries + 1
          PROVE  sent[n] + calls + (IF Waits(n)' THEN 1 ELSE 0) <= 1 + f + g
      BY <1>t, <1>n, <1>o, <2>w, <3>1, <3>2
    <3> QED
      BY <1>t, <2>3, <3>2
  <2>4. ASSUME NEW d, MayCall(n)' \subseteq MayCall(n) \cup {d}, sent'[n] = sent[n],
               faults' = faults, retries' = retries, Waits(n), ~Waits(n)'
        PROVE  Fits
    <3>1. calls <= Cardinality(MayCall(n)) + 1 /\ calls \in Nat
      BY <1>n, <2>4, OneMore
    <3> QED
      BY <1>t, <1>n, <1>o, <2>4, <3>1
  <2> HIDE DEF Fits
  <2>5. Fits
    BY <1>0, <1>2, <2>1, <2>2, <2>3, <2>4, CallSteps
  <2> QED
    BY <2>5 DEF Fits, CallsLeft
<1> QED
  BY <1>1, <1>2

\* Corsa is changed for a notification once, and once more for each job that broke off and each
\* retry: dispatching, releasing and chaining jobs never repeats a call.
THEOREM RepeatsNeedFaultsHold == Spec => []RepeatsNeedFaults
<1>1. Init => RepeatInv
  <2> SUFFICES ASSUME Init PROVE RepeatInv
    OBVIOUS
  <2>1. /\ DOMAIN chain = {} /\ DOMAIN notif = {} /\ faults = 0 /\ retries = 0
        /\ \A n \in Ids : sent[n] = 0
    BY DEF Init, Empty
  <2>2. \A n \in Ids : MayCall(n) = {} /\ Waits(n)
    BY <2>1 DEF MayCall, Waits
  <2>3. Cardinality({}) = 0
    BY FS_EmptySet
  <2>4. ASSUME NEW n \in Ids PROVE CallsLeft(n) = 1
    <3>1. sent[n] = 0 /\ Cardinality(MayCall(n)) = 0 /\ Waits(n)
      BY <2>1, <2>2, <2>3
    <3> QED
      BY <3>1 DEF CallsLeft
  <2> QED
    BY <2>1, <2>4, InitChainCount DEF RepeatInv
<1>2. RepeatInv => RepeatsNeedFaults
  <2> SUFFICES ASSUME RepeatInv, NEW n \in Ids PROVE sent[n] <= 1 + faults + retries
    BY DEF RepeatsNeedFaults
  <2>1. Cardinality(MayCall(n)) \in Nat
    BY NoMore DEF RepeatInv, ChainCountInv, MayCall
  <2>2. sent[n] \in Nat /\ faults \in Nat /\ retries \in Nat
    BY DEF RepeatInv, ChainCountInv, BatchInv, TypeOK
  <2> QED
    BY <2>1, <2>2 DEF RepeatInv, CallsLeft
<1> QED
  BY <1>1, <1>2, StepRepeatInv, PTL DEF Spec

(* A zaak is created once for each of its batches. *)

ZaakChains(z) == {c \in DOMAIN chain : batches[chain[c].batch].zaak = z}
Creating(z) == {c \in ZaakChains(z) : chain[c].step = "creating"}
Dispatched(z) == {b \in DOMAIN batches : batches[b].zaak = z /\ batches[b].locked /\ b \notin building}

\* The chains that the batches of z, the jobs that broke off and the retries account for.
Room(z) == Cardinality(Dispatched(z)) + faults + retries

\* A chain that creates a zaak that is there checked before it was there: there are no more of
\* these than there were chains then.
CreateInv ==
  /\ PromiseInv /\ ChainCountInv /\ IsFiniteSet(DOMAIN batches)
  /\ \A z \in Zaken :
       /\ Cardinality(ZaakChains(z)) <= Room(z)
       /\ ~MayFail /\ creations[z] > 0 /\ creations[z] + Cardinality(Creating(z)) > 1 =>
            creations[z] + Cardinality(Creating(z)) <= Room(z)

\* One ingest adds one batch.
LEMMA BatchesFinite ==
  ASSUME BatchInv, Next, IsFiniteSet(DOMAIN batches)
  PROVE  IsFiniteSet(DOMAIN batches')
<1>1. CASE DOMAIN batches' \subseteq DOMAIN batches
  BY <1>1, NoMore
<1>2. ASSUME NEW b \in DOMAIN batches' \ DOMAIN batches PROVE IsFiniteSet(DOMAIN batches')
  <2>1. PICK w \in Workers : CommitIngest(w)
    BY <1>2, NewBatches
  <2>2. DOMAIN batches' \subseteq DOMAIN batches \cup {writing[w].batch}
    BY <2>1 DEF CommitIngest, Put
  <2> QED
    BY <2>2, OneMore
<1> QED
  BY <1>1, <1>2

\* A batch that was dispatched stays so, and a chain keeps the zaak of its batch.
LEMMA DispatchedStays ==
  ASSUME BatchInv, Next, NEW z,
         \A b \in building' \ building : b \in DOMAIN batches /\ ~batches[b].locked
  PROVE  /\ Dispatched(z) \subseteq Dispatched(z)'
         /\ \A c \in DOMAIN chain, d \in DOMAIN chain' :
              chain'[d].batch = chain[c].batch /\ d \in ZaakChains(z)' => c \in ZaakChains(z)
<1>1. \A b \in DOMAIN batches : /\ b \in DOMAIN batches' /\ batches'[b].zaak = batches[b].zaak
                                /\ batches[b].locked => batches'[b].locked
  BY ZaakStays, BatchesStay
<1>2. \A c \in DOMAIN chain : chain[c].batch \in DOMAIN batches
  BY DEF BatchInv, LockedWhenWorkedOn
<1> QED
  BY <1>1, <1>2 DEF Dispatched, ZaakChains

\* Every chain of a zaak is accounted for.
LEMMA StepChainsOfZaak ==
  ASSUME CreateInv, Next, NEW z \in Zaken
  PROVE  /\ Room(z) \in Nat /\ Room(z)' \in Nat /\ Room(z) <= Room(z)'
         /\ Cardinality(ZaakChains(z))' <= Room(z)'
<1>0. /\ BatchInv /\ BatchInv' /\ IsFiniteSet(DOMAIN batches) /\ IsFiniteSet(DOMAIN batches')
      /\ IsFiniteSet(DOMAIN chain) /\ Cardinality(ZaakChains(z)) <= Room(z)
  BY StepBatchInv, BatchesFinite DEF CreateInv, ChainCountInv
<1>t. faults \in Nat /\ retries \in Nat /\ faults' \in Nat /\ retries' \in Nat
  BY <1>0 DEF BatchInv, TypeOK
<1> DEFINE D == Dispatched(z)
           E == Dispatched(z)'
           C == ZaakChains(z)
           F == ZaakChains(z)'
<1>1. IsFiniteSet(D) /\ IsFiniteSet(E) /\ IsFiniteSet(C) /\ Cardinality(C) \in Nat
      /\ Cardinality(D) \in Nat /\ Cardinality(E) \in Nat
  BY <1>0, NoMore, FS_CardinalityType DEF Dispatched, ZaakChains
<1>2. Cardinality(C) <= Cardinality(D) + faults + retries
  BY <1>0 DEF Room
<1>r. Room(z) = Cardinality(D) + faults + retries /\ Room(z)' = Cardinality(E) + faults' + retries'
      /\ Cardinality(ZaakChains(z))' = Cardinality(F)
  BY DEF Room
<1> DEFINE Goal == /\ Cardinality(D) + faults + retries <= Cardinality(E) + faults' + retries'
                   /\ Cardinality(F) <= Cardinality(E) + faults' + retries'
<1> SUFFICES Goal
  BY <1>1, <1>r, <1>t
<1>3. ASSUME DOMAIN chain' \subseteq DOMAIN chain, \A c \in DOMAIN chain' : chain'[c].batch = chain[c].batch,
             \A b \in building' \ building : b \in DOMAIN batches /\ ~batches[b].locked,
             faults' \in {faults, faults + 1}, retries' = retries
      PROVE  Goal
  <2>1. D \subseteq E /\ F \subseteq C
    <3>1. F \subseteq DOMAIN chain'
      BY DEF ZaakChains
    <3> QED
      BY <1>0, <1>3, <3>1, DispatchedStays
  <2>2. Cardinality(D) <= Cardinality(E) /\ Cardinality(F) <= Cardinality(C) /\ Cardinality(F) \in Nat
    BY <1>0, <1>1, <1>3, <2>1, NoMore
  <2> QED
    BY <1>1, <1>2, <1>3, <1>t, <2>2
<1>4. ASSUME NEW d, NewChain(d), NEW c \in DOMAIN chain, chain'[d].batch = chain[c].batch,
             \A e \in DOMAIN chain : chain'[e].batch = chain[e].batch,
             building' = building, faults' + retries' = faults + retries + 1
      PROVE  Goal
  <2>1. D \subseteq E /\ F \subseteq C \cup {d}
    <3>1. F \subseteq DOMAIN chain \cup {d}
      BY <1>4 DEF ZaakChains, NewChain
    <3> QED
      BY <1>0, <1>4, <3>1, DispatchedStays DEF NewChain
  <2>2. Cardinality(D) <= Cardinality(E) /\ Cardinality(F) <= Cardinality(C) + 1 /\ Cardinality(F) \in Nat
    BY <1>0, <1>1, <1>4, <2>1, NoMore, OneMore DEF NewChain
  <2>3. \A k, a, f, r, g, q \in Nat :
          k <= a + f + r /\ g + q = f + r + 1 => a + f + r <= a + g + q /\ k + 1 <= a + g + q
    OBVIOUS
  <2>4. faults' + retries' = faults + retries + 1
    BY <1>4
  <2> HIDE DEF C, D, E, F
  <2>5. /\ Cardinality(D) + faults + retries <= Cardinality(D) + faults' + retries'
        /\ Cardinality(C) + 1 <= Cardinality(D) + faults' + retries'
    BY <1>1, <1>2, <1>t, <2>3, <2>4
  <2>6. \A m, k, a, b, s, g, q \in Nat :
          a <= b /\ s <= a + g + q /\ m <= k + 1 /\ k + 1 <= a + g + q => s <= b + g + q /\ m <= b + g + q
    OBVIOUS
  <2>7. Cardinality(D) + faults + retries \in Nat
    BY <1>1, <1>t
  <2> QED
    BY <1>1, <1>t, <2>2, <2>5, <2>6, <2>7
<1>5. ASSUME NEW b \in building, NEW d, NewChain(d), chain'[d].batch = b,
             \A e \in DOMAIN chain : chain'[e].batch = chain[e].batch,
             building' = building \ {b}, faults' = faults, retries' = retries
      PROVE  Goal
  <2>1. D \subseteq E /\ F \subseteq C \cup {d}
    <3>1. F \subseteq DOMAIN chain \cup {d}
      BY <1>5 DEF ZaakChains, NewChain
    <3> QED
      BY <1>0, <1>5, <3>1, DispatchedStays DEF NewChain
  <2>2. Cardinality(D) <= Cardinality(E) /\ Cardinality(F) \in Nat
    BY <1>0, <1>1, <1>5, <2>1, NoMore, OneMore DEF NewChain
  <2>3. CASE d \notin F
    <3>1. Cardinality(F) <= Cardinality(C)
      BY <1>1, <2>1, <2>3, NoMore
    <3> QED
      BY <1>1, <1>2, <1>5, <1>t, <2>2, <3>1
  <2>4. CASE d \in F
    <3>1. b \notin D /\ b \in E
      <4>1. batches'[b].zaak = z
        BY <1>5, <2>4 DEF ZaakChains
      <4> QED
        BY <1>0, <1>5, <4>1, BatchesStay DEF Dispatched, BatchInv, LockedWhenWorkedOn
    <3>2. Cardinality(D) + 1 <= Cardinality(E)
      <4>1. D \subseteq E \ {b}
        BY <2>1, <3>1
      <4> QED
        BY <1>1, <3>1, <4>1, OneLess
    <3>3. Cardinality(F) <= Cardinality(C) + 1
      BY <1>1, <2>1, OneMore
    <3> QED
      BY <1>1, <1>2, <1>5, <1>t, <2>2, <3>2, <3>3
  <2> QED
    BY <2>3, <2>4
<1> HIDE DEF Goal
<1> QED
  BY <1>0, <1>3, <1>4, <1>5, ChainSets

\* A chain that starts to create a zaak found none; one that created it is done with it.
LEMMA CreatingSteps ==
  ASSUME PromiseInv, Next, ~MayFail, NEW z \in Zaken
  PROVE  \/ creations'[z] = creations[z] /\ (creations[z] = 0 \/ Creating(z)' \subseteq Creating(z))
         \/ /\ \E c \in Creating(z) : Creating(z)' \subseteq Creating(z) \ {c}
            /\ creations'[z] = creations[z] + 1
<1>0. /\ BatchInv /\ TypeOK /\ LockedWhenWorkedOn /\ ChainsPassHandled /\ NotificationsKnowZaak
      /\ creations \in [Zaken -> Nat]
  BY DEF PromiseInv, BatchInv, TypeOK
<1> DEFINE Same == creations'[z] = creations[z] /\ (creations[z] = 0 \/ Creating(z)' \subseteq Creating(z))
           Made == /\ \E c \in Creating(z) : Creating(z)' \subseteq Creating(z) \ {c}
                   /\ creations'[z] = creations[z] + 1
<1> SUFFICES Same \/ Made
  OBVIOUS
\* A chain that is creating was so, if its row is what it was but for its step.
<1>1. ASSUME NEW c \in DOMAIN chain, NEW d \in Creating(z)', chain'[d].batch = chain[c].batch
      PROVE  c \in ZaakChains(z)
  <2>1. batches'[chain'[d].batch].zaak = z
    BY <1>1 DEF Creating, ZaakChains
  <2>2. chain[c].batch \in DOMAIN batches
    BY <1>0 DEF LockedWhenWorkedOn
  <2> QED
    BY <1>0, <1>1, <2>1, <2>2, ZaakStays DEF ZaakChains
<1>2. Creating(z)' \subseteq DOMAIN chain' /\ \A d \in Creating(z)' : chain'[d].step = "creating"
  BY DEF Creating, ZaakChains
<1>3. ASSUME \A d \in DOMAIN chain' : chain'[d].step = "creating" => d \in DOMAIN chain /\ chain'[d] = chain[d]
      PROVE  Creating(z)' \subseteq Creating(z)
  BY <1>1, <1>2, <1>3 DEF Creating
\* No other chain starts to create.
<1>4. ASSUME NEW c, OnlyChain(c), chain'[c].step # "creating" PROVE Creating(z)' \subseteq Creating(z) \ {c}
  <2>1. \A d \in DOMAIN chain' : chain'[d].step = "creating" => d \in DOMAIN chain /\ chain'[d] = chain[d]
    BY <1>4 DEF OnlyChain
  <2> QED
    BY <1>2, <1>3, <1>4, <2>1
<1>5. CASE UNCHANGED <<chain, creations>>
  BY <1>3, <1>5
<1>6. ASSUME NEW c \in Chains, CallCorsa(c) PROVE Same
  <2>1. UNCHANGED creations /\ c \in DOMAIN chain
    BY <1>6 DEF CallCorsa
  <2>2. CASE GoTo(c, "sent")
    BY <1>0, <1>4, <2>1, <2>2, GoToChain
  <2>3. PICK n \in Ids :
          /\ IsHead(c, n)
          /\ ~GoTo(c, "sent") => ~InCorsa(notif[n].zaak) /\ GoTo(c, "creating")
    BY <1>6 DEF CallCorsa
  <2>4. CASE ~InCorsa(notif[n].zaak) /\ GoTo(c, "creating")
    <3>1. notif[n].zaak = batches[chain[c].batch].zaak /\ notif[n].zaak \in Zaken
      BY <1>0, <2>1, <2>3 DEF IsHead, ChainsPassHandled, Jobs, Linked, NotificationsKnowZaak,
         TypeOK, IsTable, NotificationRow
    <3>2. creations[notif[n].zaak] = 0
      BY <1>0, <2>4, <3>1 DEF InCorsa
    <3>3. OnlyChain(c) /\ chain'[c].batch = chain[c].batch
      BY <1>0, <2>1, <2>4, GoToChain DEF OnlyChain
    <3>4. CASE notif[n].zaak = z
      BY <2>1, <3>2, <3>4
    <3>5. CASE notif[n].zaak # z
      <4>1. c \notin ZaakChains(z)
        BY <3>1, <3>5 DEF ZaakChains
      <4>2. c \notin Creating(z)'
        BY <1>1, <2>1, <3>3, <4>1
      <4>3. Creating(z)' \subseteq Creating(z)
        BY <1>1, <1>2, <3>3, <4>2 DEF Creating, OnlyChain
      <4> QED
        BY <2>1, <4>3
    <3> QED
      BY <3>4, <3>5
  <2> QED
    BY <2>2, <2>3, <2>4
<1>7. ASSUME NEW c \in Chains, CreateZaak(c) PROVE Same \/ Made
  <2>1. PICK n \in Ids : IsHead(c, n) /\ creations' = [creations EXCEPT ![notif[n].zaak] = creations[notif[n].zaak] + 1]
    BY <1>7 DEF CreateZaak
  <2>2. c \in DOMAIN chain /\ chain[c].step = "creating" /\ GoTo(c, "sent")
    BY <1>7 DEF CreateZaak
  <2>3. notif[n].zaak = batches[chain[c].batch].zaak /\ notif[n].zaak \in Zaken
    BY <1>0, <2>1, <2>2 DEF IsHead, ChainsPassHandled, Jobs, Linked, NotificationsKnowZaak,
       TypeOK, IsTable, NotificationRow
  <2>4. Creating(z)' \subseteq Creating(z) \ {c}
    BY <1>0, <1>4, <2>2, GoToChain
  <2>5. CASE notif[n].zaak = z
    <3>1. c \in Creating(z)
      BY <2>2, <2>3, <2>5 DEF Creating, ZaakChains
    <3>2. creations'[z] = creations[z] + 1
      BY <1>0, <2>1, <2>5
    <3> QED
      BY <2>4, <3>1, <3>2
  <2>6. CASE notif[n].zaak # z
    BY <1>0, <2>1, <2>4, <2>6
  <2> QED
    BY <2>5, <2>6
<1>8. ASSUME NEW b \in Batches, BuildChain(b) PROVE Same
  <2>1. UNCHANGED creations
    BY <1>8 DEF BuildChain, corsa
  <2>2. CASE UNCHANGED chain
    BY <1>5, <2>1, <2>2
  <2>3. ASSUME NEW d, chain' = Put(chain, d, [batch |-> b, todo |-> Jobs(b), attempts |-> 0, step |-> "queued"])
        PROVE  \A e \in DOMAIN chain' : chain'[e].step = "creating" => e \in DOMAIN chain /\ chain'[e] = chain[e]
    BY <2>3 DEF Put
  <2> QED
    BY <1>3, <1>8, <2>1, <2>2, <2>3 DEF BuildChain
<1>9. ASSUME NEW c \in Chains, WorkerCrash(c) PROVE Same
  <2>1. UNCHANGED creations
    BY <1>9 DEF WorkerCrash, corsa
  <2>2. \A e \in DOMAIN chain' : chain'[e].step = "creating" => e \in DOMAIN chain /\ chain'[e] = chain[e]
    <3>1. CASE OnlyChain(c) /\ chain'[c].step \in {"queued", "failing"}
      BY <3>1 DEF OnlyChain
    <3>2. ASSUME NEW d, NewChain(d), chain'[d].step = "queued", chain'[c].step \in {"queued", "failing"},
                 \A e \in DOMAIN chain \ {c} : chain'[e] = chain[e]
          PROVE  \A e \in DOMAIN chain' : chain'[e].step = "creating" =>
                   e \in DOMAIN chain /\ chain'[e] = chain[e]
      BY <3>2 DEF NewChain
    <3> QED
      BY <1>0, <1>9, <3>1, <3>2, CrashChain
  <2> QED
    BY <1>3, <2>1, <2>2
<1>16. ASSUME NEW c \in Chains, FailureBreaks(c) PROVE Same
  <2>1. UNCHANGED creations
    BY <1>0, <1>16, BreakChain DEF corsa
  <2>2. \A e \in DOMAIN chain' : chain'[e].step = "creating" => e \in DOMAIN chain /\ chain'[e] = chain[e]
    BY <1>0, <1>16, BreakChain DEF OnlyChain
  <2> QED
    BY <1>3, <2>1, <2>2
<1>10. ASSUME NEW c \in Chains, RetryFailedJob(c) PROVE Same
  <2>1. UNCHANGED creations
    BY <1>10 DEF RetryFailedJob, corsa
  <2>2. PICK d \in Chains : /\ NewChain(d) /\ \A e \in DOMAIN chain : chain'[e] = chain[e]
                            /\ chain'[d].step = "queued"
    BY <1>0, <1>10, RetryChain
  <2>3. \A e \in DOMAIN chain' : chain'[e].step = "creating" => e \in DOMAIN chain /\ chain'[e] = chain[e]
    BY <2>2 DEF NewChain
  <2> QED
    BY <1>3, <2>1, <2>3
<1>11. ASSUME NEW c \in Chains, MarkBatchProcessed(c) PROVE Same
  <2>1. UNCHANGED creations /\ \A d \in DOMAIN chain' : d \in DOMAIN chain /\ chain'[d] = chain[d]
    BY <1>11 DEF MarkBatchProcessed, Drop, corsa
  <2> QED
    BY <1>3, <2>1
<1>12. ASSUME NEW c \in Chains,
              \/ RefuseJob(c) \/ HandleFails(c) \/ Release(c) \/ MarkProcessed(c)
              \/ MarkBatchFails(c) \/ CatchFailure(c) \/ RecordFailure(c) \/ StoreFailedJob(c)
       PROVE  Same
  <2>1. /\ UNCHANGED creations /\ c \in DOMAIN chain
        /\ \E step \in {"failing", "caught", "recorded", "failed", "queued", "done"} : GoTo(c, step)
    BY <1>12 DEF RefuseJob, FailJob, HandleFails, Release, MarkProcessed, MarkBatchFails, CatchFailure,
       RecordFailure, StoreFailedJob, corsa
  <2>2. OnlyChain(c) /\ chain'[c].step # "creating"
    BY <1>0, <2>1, GoToChain
  <2> QED
    BY <1>4, <2>1, <2>2
<1>13. ASSUME NEW c \in Chains, StartHandle(c) \/ DispatchNextJob(c) PROVE Same
  <2>1. UNCHANGED creations
    BY <1>13 DEF StartHandle, DispatchNextJob, corsa
  <2>2. OnlyChain(c) /\ chain'[c].step # "creating"
    BY <1>0, <1>13, StartChain, NextChain
  <2> QED
    BY <1>4, <2>1, <2>2
<1> HIDE DEF Same, Made
<1>14. ASSUME NEW c \in Chains, JobStep(c) PROVE Same \/ Made
  BY <1>6, <1>7, <1>11, <1>12, <1>13, <1>14 DEF JobStep
<1> QED
  BY <1>5, <1>8, <1>9, <1>10, <1>14, <1>16 DEF Next, IngestStep, BatchStep, ReadOpenBatch, AddNotificationToBatch,
     CommitIngest, AbortIngest, TimerExpires, FlushExpiredBatches, DispatchBatch, DispatchCrash, corsa

\* A creation uses up one of a chain that found no zaak; once there is one, no chain joins these.
LEMMA StepCreateInv == CreateInv /\ [Next]_vars => CreateInv'
<1> SUFFICES ASSUME CreateInv, [Next]_vars PROVE CreateInv'
  OBVIOUS
<1>1. CASE UNCHANGED vars
  <2>1. PromiseInv' /\ UNCHANGED <<batches, chain, building, creations, faults, retries>>
    BY <1>1, StepPromiseInv DEF CreateInv, vars, tables, queue, corsa, luck
  <2>i. ChainCountInv' /\ IsFiniteSet(DOMAIN batches')
    BY <2>1, StepChainCount DEF CreateInv
  <2>2. \A z \in Zaken : Room(z)' = Room(z) /\ ZaakChains(z)' = ZaakChains(z) /\ Creating(z)' = Creating(z)
    BY <2>1 DEF Room, Dispatched, ZaakChains, Creating
  <2>3. \A z \in Zaken : /\ Cardinality(ZaakChains(z))' = Cardinality(ZaakChains(z))
                         /\ Cardinality(Creating(z))' = Cardinality(Creating(z))
    BY <2>2
  <2> QED
    BY <2>1, <2>i, <2>2, <2>3 DEF CreateInv
<1>2. CASE Next
  <2>1. /\ PromiseInv /\ PromiseInv' /\ ChainCountInv' /\ IsFiniteSet(DOMAIN batches')
        /\ IsFiniteSet(DOMAIN chain) /\ IsFiniteSet(DOMAIN chain')
    BY <1>2, StepPromiseInv, StepChainCount, BatchesFinite DEF CreateInv, ChainCountInv
  <2> SUFFICES ASSUME NEW z \in Zaken
               PROVE  /\ Cardinality(ZaakChains(z))' <= Room(z)'
                      /\ ~MayFail /\ creations'[z] > 0 /\ creations'[z] + Cardinality(Creating(z))' > 1 =>
                           creations'[z] + Cardinality(Creating(z))' <= Room(z)'
    BY <2>1 DEF CreateInv
  <2>2. /\ Room(z) \in Nat /\ Room(z)' \in Nat /\ Room(z) <= Room(z)'
        /\ Cardinality(ZaakChains(z))' <= Room(z)'
    BY <1>2, StepChainsOfZaak
  <2> DEFINE C == Creating(z)
             D == Creating(z)'
  <2>3. IsFiniteSet(C) /\ IsFiniteSet(D) /\ Cardinality(C) <= Cardinality(ZaakChains(z))
        /\ Cardinality(C) \in Nat /\ Cardinality(D) \in Nat /\ Cardinality(ZaakChains(z)) \in Nat
    <3>1. C \subseteq ZaakChains(z) /\ ZaakChains(z) \subseteq DOMAIN chain /\ D \subseteq DOMAIN chain'
      BY DEF Creating, ZaakChains
    <3>2. IsFiniteSet(ZaakChains(z)) /\ Cardinality(ZaakChains(z)) \in Nat
      BY <2>1, <3>1, NoMore
    <3> QED
      BY <2>1, <3>1, <3>2, NoMore
  <2>4. Cardinality(ZaakChains(z)) <= Room(z)
        /\ (~MayFail /\ creations[z] > 0 /\ creations[z] + Cardinality(C) > 1 =>
              creations[z] + Cardinality(C) <= Room(z))
    BY DEF CreateInv
  <2>5. creations[z] \in Nat /\ creations'[z] \in Nat
    BY <2>1 DEF PromiseInv, BatchInv, TypeOK
  <2>6. Cardinality(Creating(z))' = Cardinality(D)
    OBVIOUS
  <2>7. ASSUME ~MayFail
        PROVE  \/ creations'[z] = creations[z] /\ (creations[z] = 0 \/ Cardinality(D) <= Cardinality(C))
               \/ creations'[z] = creations[z] + 1 /\ Cardinality(D) + 1 <= Cardinality(C)
    BY <1>2, <2>1, <2>3, <2>7, CreatingSteps, NoMore, OneLess
  <2> HIDE DEF C, D
  <2> QED
    BY <2>2, <2>3, <2>4, <2>5, <2>6, <2>7
<1> QED
  BY <1>1, <1>2

\* However often a create:zaak is delivered and however the chains of its batches interleave, a
\* zaak is created once for each batch, and once more for each job that broke off and each retry.
THEOREM CreatedOnce == Spec => []CreatedOncePerBatch
<1>1. Init => CreateInv
  <2> SUFFICES ASSUME Init PROVE CreateInv
    OBVIOUS
  <2>1. /\ DOMAIN chain = {} /\ DOMAIN batches = {} /\ faults = 0 /\ retries = 0
        /\ \A z \in Zaken : creations[z] \in {0, 1}
    BY DEF Init, Empty
  <2>2. \A z \in Zaken : ZaakChains(z) = {} /\ Creating(z) = {} /\ Dispatched(z) = {}
    BY <2>1 DEF ZaakChains, Creating, Dispatched
  <2>3. Cardinality({}) = 0 /\ IsFiniteSet({})
    BY FS_EmptySet
  <2>4. ASSUME NEW z \in Zaken
        PROVE  Room(z) = 0 /\ Cardinality(ZaakChains(z)) = 0 /\ Cardinality(Creating(z)) = 0
    <3>1. /\ Cardinality(ZaakChains(z)) = 0 /\ Cardinality(Creating(z)) = 0
          /\ Cardinality(Dispatched(z)) = 0
      BY <2>2, <2>3
    <3> QED
      BY <2>1, <3>1 DEF Room
  <2> QED
    BY <2>1, <2>3, <2>4, InitPromiseInv, InitChainCount DEF CreateInv
<1>2. CreateInv => CreatedOncePerBatch
  <2> SUFFICES ASSUME CreateInv, ~MayFail, NEW z \in Zaken, creations[z] > 1
               PROVE  creations[z] <= Cardinality({b \in DOMAIN batches : batches[b].zaak = z}) + faults + retries
    BY ConstantsAssumption DEF CreatedOncePerBatch
  <2> DEFINE B == {b \in DOMAIN batches : batches[b].zaak = z}
  <2>1. Dispatched(z) \subseteq B /\ B \subseteq DOMAIN batches /\ Creating(z) \subseteq DOMAIN chain
    BY DEF Dispatched, Creating, ZaakChains
  <2>2. IsFiniteSet(B) /\ Cardinality(Creating(z)) \in Nat
    BY <2>1, NoMore DEF CreateInv, ChainCountInv
  <2>3. Cardinality(Dispatched(z)) <= Cardinality(B) /\ Cardinality(B) \in Nat
        /\ Cardinality(Dispatched(z)) \in Nat
    BY <2>1, <2>2, NoMore
  <2>4. creations[z] \in Nat /\ faults \in Nat /\ retries \in Nat
    BY DEF CreateInv, PromiseInv, BatchInv, TypeOK
  <2>5. creations[z] + Cardinality(Creating(z)) <= Cardinality(Dispatched(z)) + faults + retries
    BY <2>2, <2>4 DEF CreateInv, Room
  <2> QED
    BY <2>2, <2>3, <2>4, <2>5
<1> QED
  BY <1>1, <1>2, StepCreateInv, PTL DEF Spec

-----------------------------------------------------------------------------
(* The order in which notifications reach Corsa. *)

\* The order of two notifications in a batch is strict.
LEMMA PrecedesIsStrict ==
  ASSUME TypeOK, NEW m \in DOMAIN notif, NEW n \in DOMAIN notif, Precedes(notif, m, n)
  PROVE  ~Precedes(notif, n, m) /\ m # n
<1>1. m \in Nat /\ n \in Nat
  BY ConstantsAssumption DEF TypeOK, IsTable, Ids
<1>2. \A k : ProcessingGroup(k) \in 0..3
  BY DEF ProcessingGroup
<1> QED
  BY <1>1, <1>2 DEF Precedes

\* What a chain has passed comes before everything that it has left.
PassedFirst ==
  \A c \in DOMAIN chain : \A m \in Jobs(chain[c].batch) \ chain[c].todo, n \in chain[c].todo :
    Precedes(notif, m, n)

\* As long as no worker dies and nothing is retried, only a first job, or one that its chain has
\* passed, has changed Corsa.
SentFirst ==
  faults = 0 /\ retries = 0 =>
    \A m \in Ids : sent[m] > 0 =>
      /\ m \in DOMAIN notif /\ notif[m].batch \in DOMAIN batches /\ batches[notif[m].batch].locked
      /\ notif[m].batch \notin building
      /\ \A c \in ChainsOf(notif[m].batch) : m \in chain[c].todo => IsHead(c, m)

OrderInv == ChainCountInv /\ PassedFirst /\ SentFirst

\* A chain only passes its first job.
LEMMA StepPassedFirst ==
  ASSUME BatchInv, PassedFirst, Next
  PROVE  PassedFirst'
<1> SUFFICES ASSUME NEW d \in DOMAIN chain', NEW b, b = chain'[d].batch,
                    NEW m \in Jobs(b)' \ chain'[d].todo, NEW n \in chain'[d].todo
             PROVE  Precedes(notif, m, n)'
  BY DEF PassedFirst
<1>1. ASSUME NEW c \in DOMAIN chain, b = chain[c].batch,
             n \in chain[c].todo, m \notin chain[c].todo \/ (IsHead(c, m) /\ m # n)
      PROVE  Precedes(notif, m, n)'
  <2>0. b \in DOMAIN batches /\ batches[b].locked
    BY <1>1 DEF BatchInv, LockedWhenWorkedOn
  <2>1. Jobs(b)' = Jobs(b)
    BY <2>0, JobsStay
  <2>2. Precedes(notif, m, n)
    BY <1>1, <2>1 DEF PassedFirst, IsHead
  <2>3. m \in DOMAIN notif /\ n \in DOMAIN notif
    BY <1>1, <2>1 DEF Jobs, Linked, BatchInv, ChainsPassHandled
  <2>4. notif'[m].kind = notif[m].kind /\ notif'[n].kind = notif[n].kind
    BY <2>3, NotificationsStay
  <2> QED
    BY <2>2, <2>4 DEF Precedes
<1>2. CASE \E c \in DOMAIN chain : chain'[d].batch = chain[c].batch /\ chain'[d].todo = chain[c].todo
  BY <1>1, <1>2
<1>3. ASSUME NEW c \in DOMAIN chain, NEW k \in Ids, IsHead(c, k), chain'[d] = Remainder(c, k)
      PROVE  Precedes(notif, m, n)'
  <2>1. chain'[d].batch = chain[c].batch /\ chain'[d].todo = chain[c].todo \ {k}
    BY <1>3 DEF Remainder
  <2>2. m \notin chain[c].todo \/ (IsHead(c, m) /\ m # n)
    BY <1>3, <2>1
  <2> QED
    BY <1>1, <2>1, <2>2
<1>4. ASSUME b \in building, chain'[d].todo = Jobs(b)
      PROVE  FALSE
  <2>0. b \in DOMAIN batches /\ batches[b].locked
    BY <1>4 DEF BatchInv, LockedWhenWorkedOn
  <2>1. Jobs(b)' = Jobs(b)
    BY <2>0, JobsStay
  <2> QED
    BY <1>4, <2>1
<1> QED
  <2>1. ASSUME \E c \in DOMAIN chain, k \in Ids :
                 chain[c].step = "done" /\ IsHead(c, k) /\ chain'[d] = Remainder(c, k)
        PROVE  Precedes(notif, m, n)'
    BY <1>3, <2>1
  <2>2. ASSUME \E a \in building :
                 chain'[d].batch = a /\ chain'[d].todo = Jobs(a) /\ chain'[d].step = "queued"
        PROVE  FALSE
    BY <1>4, <2>2
  <2> QED
    BY <1>2, <2>1, <2>2, ChainSteps

\* Corsa is changed for the first job of a chain, by the job itself.
LEMMA SentByHead ==
  ASSUME BatchInv, Next, NEW n \in Ids, sent'[n] # sent[n]
  PROVE  \E c \in DOMAIN chain :
           /\ IsHead(c, n) /\ OnlyChain(c) /\ chain'[c].todo = chain[c].todo
           /\ UNCHANGED <<notif, batches, building>>
<1>t. TypeOK /\ sent \in [Ids -> Nat]
  BY DEF BatchInv, TypeOK
<1>1. PICK c \in Chains : CallCorsa(c) \/ CreateZaak(c)
  BY DEF Next, IngestStep, BatchStep, ReadOpenBatch, AddNotificationToBatch, CommitIngest,
     AbortIngest, TimerExpires, FlushExpiredBatches, DispatchBatch, BuildChain, DispatchCrash,
     JobStep, RefuseJob, HandleFails, StartHandle, MarkProcessed, Release, DispatchNextJob,
     MarkBatchProcessed, MarkBatchFails, CatchFailure, RecordFailure, StoreFailedJob, FailureBreaks,
     WorkerCrash, RetryFailedJob, corsa
<1>2. c \in DOMAIN chain /\ UNCHANGED <<notif, batches, building>>
  BY <1>1 DEF CallCorsa, CreateZaak, tables, queue
<1>3. IsHead(c, n)
  BY <1>t, <1>1 DEF CallCorsa, CreateZaak
<1>4. \E step : GoTo(c, step)
  BY <1>1 DEF CallCorsa, CreateZaak
<1> QED
  BY <1>t, <1>2, <1>3, <1>4, GoToChain

\* Without a job that broke off or a retry, a batch has one chain.
LEMMA SingleChain ==
  ASSUME ChainCountInv, faults = 0, retries = 0, NEW c \in DOMAIN chain, NEW d \in DOMAIN chain,
         chain[c].batch = chain[d].batch
  PROVE  c = d
<1> DEFINE b == chain[c].batch
<1>1. b \in Batches
  BY DEF ChainCountInv, BatchInv, TypeOK, IsTable, ChainRow
<1>2. IsFiniteSet(ChainsOf(b)) /\ Cardinality(ChainsOf(b)) \in Nat
  BY FS_Subset, FS_CardinalityType DEF ChainCountInv, ChainsOf
<1>3. Cardinality(ChainsOf(b)) <= 1
  BY <1>1, <1>2 DEF ChainCountInv, OneChainPerBatch
<1>4. {c, d} \subseteq ChainsOf(b)
  BY DEF ChainsOf
<1>5. Cardinality(ChainsOf(b)) = 1
  BY <1>2, <1>3, <1>4, FS_EmptySet
<1>6. \E x : ChainsOf(b) = {x}
  BY <1>2, <1>5, FS_Singleton
<1> QED
  BY <1>4, <1>6

\* What Corsa was changed for stays a first job, or passed, and the next one is a first job.
LEMMA StepSentFirst ==
  ASSUME ChainCountInv, SentFirst, Next
  PROVE  SentFirst'
<1>t. /\ BatchInv /\ LockedWhenWorkedOn /\ NotBuilt /\ TypeOK
      /\ faults \in Nat /\ retries \in Nat /\ sent \in [Ids -> Nat]
  BY DEF ChainCountInv, BatchInv, TypeOK
<1> SUFFICES ASSUME faults' = 0, retries' = 0, NEW m \in Ids, sent'[m] > 0
             PROVE  /\ m \in DOMAIN notif' /\ notif'[m].batch \in DOMAIN batches'
                    /\ batches'[notif'[m].batch].locked /\ notif'[m].batch \notin building'
                    /\ \A c \in DOMAIN chain' :
                         chain'[c].batch = notif'[m].batch /\ m \in chain'[c].todo => IsHead(c, m)'
  BY DEF SentFirst, ChainsOf
<1>f. faults = 0 /\ retries = 0
  BY <1>t, ChainSets
<1>1. CASE sent'[m] = sent[m]
  <2> DEFINE b == notif[m].batch
  <2>1. /\ m \in DOMAIN notif /\ b \in DOMAIN batches /\ batches[b].locked /\ b \notin building
        /\ \A c \in ChainsOf(b) : m \in chain[c].todo => IsHead(c, m)
    BY <1>1, <1>f DEF SentFirst
  <2>2. m \in DOMAIN notif' /\ notif'[m].batch = b
    BY <1>t, <2>1, NotificationsStay
  <2>3. b \in DOMAIN batches' /\ batches'[b].locked
    BY <1>t, <2>1, BatchesStay
  <2>4. b \notin building'
    BY <1>t, <2>1, ChainSets
  <2>5. ASSUME NEW d \in DOMAIN chain', chain'[d].batch = b, m \in chain'[d].todo
        PROVE  IsHead(d, m)'
    <3>1. ASSUME NEW c \in DOMAIN chain, chain'[d].batch = chain[c].batch,
                 chain'[d].todo = chain[c].todo
          PROVE  IsHead(d, m)'
      <4>1. IsHead(c, m)
        BY <2>1, <2>5, <3>1 DEF ChainsOf
      <4>2. ASSUME NEW k \in chain[c].todo
            PROVE  k \in DOMAIN notif /\ notif'[k].kind = notif[k].kind
        BY <1>t, <4>2, NotificationsStay DEF BatchInv, ChainsPassHandled, Jobs, Linked
      <4>3. ASSUME NEW k \in chain[c].todo \ {m} PROVE Precedes(notif, m, k)'
        BY <2>5, <3>1, <4>1, <4>2, <4>3 DEF IsHead, Precedes
      <4> QED
        BY <2>5, <3>1, <4>3 DEF IsHead
    <3>2. ASSUME NEW c \in DOMAIN chain, NEW n \in Ids, IsHead(c, n), chain'[d] = Remainder(c, n)
          PROVE  FALSE
      <4>1. chain[c].batch = b /\ m \in chain[c].todo /\ m # n
        BY <2>5, <3>2 DEF Remainder
      <4>2. IsHead(c, m)
        BY <2>1, <4>1 DEF ChainsOf
      <4> QED
        BY <1>t, <3>2, <4>1, <4>2, OneHead
    <3>3. ASSUME NEW a \in building, chain'[d].batch = a PROVE FALSE
      BY <2>1, <2>5, <3>3
    <3> QED
      BY <1>t, <3>1, <3>2, <3>3, ChainSteps
  <2> QED
    BY <2>2, <2>3, <2>4, <2>5
<1>2. CASE sent'[m] # sent[m]
  <2>1. PICK c \in DOMAIN chain :
          /\ IsHead(c, m) /\ OnlyChain(c) /\ chain'[c].todo = chain[c].todo
          /\ UNCHANGED <<notif, batches, building>>
    BY <1>t, <1>2, SentByHead
  <2>2. m \in DOMAIN notif /\ notif[m].batch = chain[c].batch
    BY <1>t, <2>1 DEF IsHead, BatchInv, ChainsPassHandled, Jobs, Linked
  <2>3. chain[c].batch \in DOMAIN batches /\ batches[chain[c].batch].locked /\ chain[c].batch \notin building
    BY <1>t DEF LockedWhenWorkedOn, NotBuilt
  <2>4. ASSUME NEW d \in DOMAIN chain', chain'[d].batch = chain[c].batch PROVE d = c
    <3>1. d \in DOMAIN chain /\ chain[d].batch = chain[c].batch
      BY <2>1, <2>4 DEF OnlyChain
    <3> QED
      BY <1>f, <3>1, SingleChain
  <2>5. IsHead(c, m)'
    BY <2>1 DEF IsHead, Precedes
  <2> QED
    BY <2>1, <2>2, <2>3, <2>4, <2>5
<1> QED
  BY <1>1, <1>2

\* Every step keeps the order in which Corsa is changed.
LEMMA StepOrderInv == OrderInv /\ [Next]_vars => OrderInv'
<1> SUFFICES ASSUME OrderInv, [Next]_vars PROVE OrderInv'
  OBVIOUS
<1>1. CASE Next
  BY <1>1, StepChainCount, StepPassedFirst, StepSentFirst DEF OrderInv, ChainCountInv
<1>2. CASE UNCHANGED vars
  <2>1. ChainCountInv'
    BY StepChainCount DEF OrderInv
  <2>2. UNCHANGED <<chain, notif, batches, building, sent, faults, retries>>
    BY <1>2 DEF vars, tables, queue, corsa, luck
  <2>3. PassedFirst'
    BY <2>2 DEF OrderInv, PassedFirst, Jobs, Linked, IsRepeatedZaak, Precedes
  <2>4. SentFirst'
    BY <2>2 DEF OrderInv, SentFirst, ChainsOf, IsHead, Precedes
  <2> QED
    BY <2>1, <2>3, <2>4 DEF OrderInv
<1> QED
  BY <1>1, <1>2

\* At first nothing was sent by the batch route.
LEMMA InitOrderInv == Init => OrderInv
<1> SUFFICES ASSUME Init PROVE OrderInv
  OBVIOUS
<1>1. DOMAIN chain = {} /\ \A n \in Ids : sent[n] = 0
  BY DEF Init, Empty
<1> QED
  BY <1>1, InitChainCount DEF OrderInv, PassedFirst, SentFirst

\* Chains are built once, and go on only behind a job that is done: without a job that broke off
\* and without retries, a notification never reaches Corsa after a later one of its batch.
THEOREM OvertakingNeedsFaultsHolds == Spec => OvertakingNeedsFaults
<1>1. ASSUME OrderInv, Next, faults = 0, retries = 0, NEW n \in DOMAIN notif, sent'[n] > sent[n],
             NEW m \in Jobs(notif[n].batch), Precedes(notif, n, m)
      PROVE  sent[m] = 0
  <2>t. BatchInv /\ TypeOK /\ sent \in [Ids -> Nat]
    BY <1>1 DEF OrderInv, ChainCountInv, BatchInv, TypeOK
  <2>1. m \in DOMAIN notif /\ notif[m].batch = notif[n].batch /\ m \in Ids /\ n \in Ids
    BY <1>1, <2>t DEF Jobs, Linked, TypeOK, IsTable
  <2>2. PICK c \in DOMAIN chain : IsHead(c, n)
    BY <1>1, <2>t, <2>1, SentByHead
  <2>3. n \in chain[c].todo /\ chain[c].batch = notif[n].batch
    BY <2>t, <2>2 DEF IsHead, BatchInv, ChainsPassHandled, Jobs, Linked
  <2>4. ~Precedes(notif, m, n) /\ m # n
    BY <1>1, <2>t, <2>1, PrecedesIsStrict
  <2>5. m \in chain[c].todo
    BY <1>1, <2>3, <2>4 DEF OrderInv, PassedFirst
  <2>6. ~IsHead(c, m)
    BY <2>t, <2>2, <2>4, OneHead
  <2>7. ~(sent[m] > 0)
    BY <1>1, <2>1, <2>3, <2>5, <2>6 DEF OrderInv, SentFirst, ChainsOf
  <2> QED
    BY <2>t, <2>1, <2>7
<1>2. OrderInv /\ [Next]_vars => [faults = 0 /\ retries = 0 => NothingOvertaken]_vars
  BY <1>1 DEF NothingOvertaken
<1> QED
  BY <1>2, InitOrderInv, StepOrderInv, PTL DEF Spec, OvertakingNeedsFaults

-----------------------------------------------------------------------------
(* Chains come to an end. *)

\* No job has used more tries than it has.
TriesBounded == \A c \in DOMAIN chain : chain[c].attempts <= MaxTries

MoveInv == BatchInv /\ TriesBounded

\* What a chain has left is a natural number of steps.
LEMMA StepsLeftType ==
  ASSUME NEW r \in ChainRow, r.attempts <= MaxTries
  PROVE  /\ MaxTries \in Nat /\ r.attempts \in 0..MaxTries /\ Rank[r.step] \in 1..9
         /\ IsFiniteSet(r.todo) /\ Cardinality(r.todo) \in Nat
         /\ StepsLeft(r) \in Nat
<1>1. MaxTries \in Nat
  BY ConstantsAssumption
<1>2. r.attempts \in 0..MaxTries
  BY <1>1 DEF ChainRow
<1>3. Rank[r.step] \in 1..9
  BY DEF Rank, ChainRow
<1>4. r.todo \subseteq 1..MaxNotifications /\ MaxNotifications \in Int
  BY ConstantsAssumption DEF ChainRow, Ids
<1>5. IsFiniteSet(r.todo) /\ Cardinality(r.todo) \in Nat
  <2>1. IsFiniteSet(1..MaxNotifications)
    BY <1>4, FS_Interval
  <2>2. IsFiniteSet(r.todo)
    BY <1>4, <2>1, FS_Subset
  <2> QED
    BY <2>2, FS_CardinalityType
<1>6. (MaxTries + 1) * Cardinality(r.todo) \in Nat
  BY <1>1, <1>5
<1> HIDE DEF Rank
<1> QED
  BY <1>1, <1>2, <1>3, <1>5, <1>6 DEF StepsLeft

\* It gets smaller with a job less, with a try more, and with a step further in a try.
LEMMA StepsGetLess ==
  ASSUME NEW r \in ChainRow, r.attempts <= MaxTries, NEW s \in ChainRow, s.attempts <= MaxTries,
         \/ \E n \in r.todo : s.todo = r.todo \ {n} /\ s.attempts = 0
         \/ s.todo = r.todo /\ s.attempts = r.attempts + 1
         \/ s.todo = r.todo /\ s.attempts = r.attempts /\ Rank[r.step] < Rank[s.step]
  PROVE  StepsLeft(s) \in 0..(StepsLeft(r) - 1)
<1> DEFINE k == Cardinality(r.todo)
           l == Cardinality(s.todo)
           a == r.attempts
           e == s.attempts
           p == Rank[r.step]
           q == Rank[s.step]
<1>1. /\ MaxTries \in Nat /\ a \in 0..MaxTries /\ p \in 1..9 /\ k \in Nat /\ IsFiniteSet(r.todo)
      /\ StepsLeft(r) \in Nat
  BY StepsLeftType
<1>2. e \in 0..MaxTries /\ q \in 1..9 /\ l \in Nat /\ StepsLeft(s) \in Nat
  BY StepsLeftType
<1>3. \/ l = k - 1 /\ e = 0
      \/ l = k /\ e = a + 1
      \/ l = k /\ e = a /\ p < q
  BY <1>1, FS_RemoveElement
<1>4. /\ StepsLeft(r) = 9 * ((MaxTries + 1) * k + MaxTries - a) + 9 - p
      /\ StepsLeft(s) = 9 * ((MaxTries + 1) * l + MaxTries - e) + 9 - q
  BY DEF StepsLeft
<1> HIDE DEF k, l, a, e, p, q
<1>5. CASE l = k - 1 /\ e = 0
  <2>1. (MaxTries + 1) * (k - 1) = (MaxTries + 1) * k - (MaxTries + 1)
    BY <1>1
  <2>2. (MaxTries + 1) * k \in Nat
    BY <1>1
  <2> DEFINE x == (MaxTries + 1) * k
  <2>3. /\ StepsLeft(r) = 9 * (x + MaxTries - a) + 9 - p
        /\ StepsLeft(s) = 9 * ((x - (MaxTries + 1)) + MaxTries) + 9 - q
    BY <1>1, <1>4, <1>5, <2>1
  <2> HIDE DEF x
  <2>4. x \in Nat
    BY <2>2 DEF x
  <2> QED
    BY <1>1, <1>2, <2>3, <2>4
<1>6. CASE l = k
  <2> DEFINE x == (MaxTries + 1) * k
  <2>1. x \in Nat
    BY <1>1
  <2>2. /\ StepsLeft(r) = 9 * (x + MaxTries - a) + 9 - p
        /\ StepsLeft(s) = 9 * (x + MaxTries - e) + 9 - q
    BY <1>4, <1>6
  <2> HIDE DEF x
  <2>3. (e = a + 1) \/ (e = a /\ p < q)
    BY <1>1, <1>3, <1>6
  <2> QED
    BY <1>1, <1>2, <2>1, <2>2, <2>3
<1> QED
  BY <1>3, <1>5, <1>6

\* A try is counted when the job starts.
LEMMA StartCounts ==
  ASSUME TypeOK, NEW c \in Chains, StartHandle(c)
  PROVE  chain'[c].attempts = chain[c].attempts + 1 /\ chain[c].attempts < MaxTries
<1>1. c \in DOMAIN chain /\ chain \in [DOMAIN chain -> ChainRow] /\ chain[c].attempts < Tries(c)
  BY DEF StartHandle, TypeOK, IsTable
<1>2. PICK n \in Ids :
        /\ IsHead(c, n)
        /\ LET skip   == Handled(n)
               ignore == ~skip /\ notif[n].kind = Unsupported
               next   == IF skip \/ ignore THEN "done" ELSE "running"
           IN  chain' = [chain EXCEPT ![c] = [@ EXCEPT !.attempts = chain[c].attempts + 1, !.step = next]]
  BY DEF StartHandle
<1>3. Tries(c) = MaxTries
  BY <1>2 DEF Tries, IsHead
<1>4. PICK step : chain' = [chain EXCEPT ![c] = [chain[c] EXCEPT !.attempts = chain[c].attempts + 1, !.step = step]]
  BY <1>2
<1>5. [chain[c] EXCEPT !.attempts = chain[c].attempts + 1, !.step = step].attempts = chain[c].attempts + 1
  BY <1>1 DEF ChainRow
<1> QED
  BY <1>1, <1>3, <1>4, <1>5

\* What a step of a job does to its chain.
LEMMA JobMoves ==
  ASSUME BatchInv, NEW c \in Chains, JobStep(c), c \in DOMAIN chain'
  PROVE  /\ c \in DOMAIN chain
         /\ \A d \in DOMAIN chain' \ {c} : d \in DOMAIN chain /\ chain'[d] = chain[d]
         /\ \/ /\ chain'[c].todo = chain[c].todo /\ chain'[c].attempts = chain[c].attempts
               /\ \/ chain'[c].step = "failing" /\ chain[c].step \notin Ended
                  \/ chain'[c].step = "caught" /\ chain[c].step = "failing"
                  \/ chain'[c].step = "recorded" /\ chain[c].step = "caught"
                  \/ chain'[c].step = "failed" /\ chain[c].step = "recorded"
                  \/ chain'[c].step = "done" /\ chain[c].step = "sent"
                  \/ chain'[c].step \in {"creating", "sent", "queued"} /\ chain[c].step = "running"
                  \/ chain'[c].step = "sent" /\ chain[c].step = "creating"
            \/ /\ chain'[c].todo = chain[c].todo /\ chain'[c].attempts = chain[c].attempts + 1
               /\ chain[c].attempts < MaxTries
            \/ /\ chain'[c].attempts = 0
               /\ \E n \in chain[c].todo : chain'[c].todo = chain[c].todo \ {n}
<1>t. TypeOK
  BY DEF BatchInv
<1>1. CASE RefuseJob(c) \/ HandleFails(c) \/ MarkBatchFails(c)
  BY <1>t, <1>1, GoToChain DEF RefuseJob, HandleFails, MarkBatchFails, FailJob, OnlyChain, Ended
<1>9. CASE CatchFailure(c) \/ RecordFailure(c) \/ StoreFailedJob(c)
  BY <1>t, <1>9, GoToChain DEF CatchFailure, RecordFailure, StoreFailedJob, OnlyChain
<1>2. CASE StartHandle(c)
  BY <1>t, <1>2, StartChain, StartCounts DEF OnlyChain
<1>3. CASE CallCorsa(c)
  BY <1>t, <1>3, GoToChain DEF CallCorsa, OnlyChain
<1>4. CASE CreateZaak(c)
  BY <1>t, <1>4, GoToChain DEF CreateZaak, OnlyChain
<1>5. CASE Release(c)
  BY <1>t, <1>5, GoToChain DEF Release, OnlyChain
<1>6. CASE MarkProcessed(c)
  BY <1>t, <1>6, GoToChain DEF MarkProcessed, OnlyChain
<1>7. CASE DispatchNextJob(c)
  BY <1>t, <1>7, NextChain DEF OnlyChain, IsHead
<1>8. CASE MarkBatchProcessed(c)
  BY <1>8 DEF MarkBatchProcessed, Drop
<1> QED
  BY <1>1, <1>2, <1>3, <1>4, <1>5, <1>6, <1>7, <1>8, <1>9 DEF JobStep

\* No step takes a try too many.
LEMMA StepMoveInv == MoveInv /\ [Next]_vars => MoveInv'
<1> SUFFICES ASSUME MoveInv, [Next]_vars PROVE TriesBounded'
  BY StepBatchInv DEF MoveInv
<1>t. TypeOK /\ BatchInv /\ MaxTries \in Nat /\ MaxTries # 0
  BY ConstantsAssumption DEF MoveInv, BatchInv
<1>a. \A c \in DOMAIN chain : chain[c].attempts \in 0..MaxTries /\ chain[c] \in ChainRow
  BY <1>t DEF MoveInv, TriesBounded, TypeOK, IsTable, ChainRow
<1>1. ASSUME UNCHANGED chain PROVE TriesBounded'
  BY <1>1 DEF MoveInv, TriesBounded
<1>2. ASSUME NEW c \in Chains, JobStep(c) PROVE TriesBounded'
  <2>1. CASE c \in DOMAIN chain'
    <3>1. /\ c \in DOMAIN chain
          /\ chain'[c].attempts \in {chain[c].attempts, 0}
             \/ (chain'[c].attempts = chain[c].attempts + 1 /\ chain[c].attempts < MaxTries)
      BY <1>t, <1>2, <2>1, JobMoves
    <3>2. chain'[c].attempts <= MaxTries
      BY <1>t, <1>a, <3>1
    <3>3. \A d \in DOMAIN chain' \ {c} : d \in DOMAIN chain /\ chain'[d] = chain[d]
      BY <1>t, <1>2, <2>1, JobMoves
    <3>4. \A d \in DOMAIN chain' : chain'[d].attempts <= MaxTries
      BY <1>t, <1>a, <3>2, <3>3
    <3> QED
      BY <3>4 DEF TriesBounded
  <2>2. CASE c \notin DOMAIN chain'
    <3>1. \A d \in DOMAIN chain' : d \in DOMAIN chain /\ chain'[d] = chain[d]
      BY <1>t, <1>2, <2>2, JobChain DEF OnlyChain
    <3> QED
      BY <3>1 DEF MoveInv, TriesBounded
  <2> QED
    BY <2>1, <2>2
<1>3. ASSUME NEW c \in Chains, RetryFailedJob(c) PROVE TriesBounded'
  <2>1. PICK d \in Chains \ DOMAIN chain :
          chain' = Put(chain, d, [chain[c] EXCEPT !.step = "queued", !.attempts = 0])
    BY <1>3 DEF RetryFailedJob
  <2>2. c \in DOMAIN chain
    BY <1>3 DEF RetryFailedJob
  <2>3. [chain[c] EXCEPT !.step = "queued", !.attempts = 0].attempts = 0
    BY <1>a, <2>2 DEF ChainRow
  <2> QED
    BY <1>t, <1>a, <2>1, <2>3 DEF Put, TriesBounded
<1>4. ASSUME NEW c \in Chains, WorkerCrash(c) PROVE TriesBounded'
  <2>1. \A e \in DOMAIN chain' : \/ e \in DOMAIN chain /\ chain'[e].attempts = chain[e].attempts
                                 \/ chain'[e].attempts \in {0, 1}
    BY <1>t, <1>4, CrashChain DEF OnlyChain, NewChain
  <2> QED
    BY <1>t, <1>a, <2>1 DEF TriesBounded
<1>8. ASSUME NEW c \in Chains, FailureBreaks(c) PROVE TriesBounded'
  <2>1. c \in DOMAIN chain /\ (GoTo(c, "failed") \/ chain' = Drop(chain, c))
    BY <1>8 DEF FailureBreaks
  <2>2. \A e \in DOMAIN chain' : e \in DOMAIN chain /\ chain'[e].attempts = chain[e].attempts
    BY <1>t, <2>1, GoToChain DEF OnlyChain, Drop
  <2> QED
    BY <1>t, <1>a, <2>2 DEF TriesBounded
<1>5. ASSUME NEW b \in Batches, BuildChain(b) PROVE TriesBounded'
  <2>1. UNCHANGED chain \/ \E d \in Chains \ DOMAIN chain :
          chain' = Put(chain, d, [batch |-> b, todo |-> Jobs(b), attempts |-> 0, step |-> "queued"])
    BY <1>5 DEF BuildChain
  <2>2. \A e \in DOMAIN chain' : \/ e \in DOMAIN chain /\ chain'[e] = chain[e]
                                 \/ chain'[e].attempts = 0
    <3>1. ASSUME NEW d \in Chains \ DOMAIN chain, NEW row, row.attempts = 0, chain' = Put(chain, d, row)
          PROVE  \A e \in DOMAIN chain' : \/ e \in DOMAIN chain /\ chain'[e] = chain[e]
                                          \/ chain'[e].attempts = 0
      BY <3>1 DEF Put
    <3> QED
      BY <2>1, <3>1
  <2>3. \A e \in DOMAIN chain' : chain'[e].attempts <= MaxTries
    BY <1>t, <1>a, <2>2
  <2> QED
    BY <2>3 DEF TriesBounded
<1>6. CASE UNCHANGED vars
  BY <1>1, <1>6 DEF vars
<1>7. CASE Next
  <2>1. ASSUME NEW w \in Workers,
               IngestStep(w) \/ AbortIngest(w) \/ \E z \in Zaken, k \in Delivered : ReadOpenBatch(w, z, k)
        PROVE  UNCHANGED chain
    BY <2>1 DEF IngestStep, AddNotificationToBatch, CommitIngest, AbortIngest, ReadOpenBatch
  <2>2. ASSUME NEW b \in Batches, TimerExpires(b) \/ DispatchBatch(b) \/ DispatchCrash(b)
        PROVE  UNCHANGED chain
    BY <2>2 DEF TimerExpires, DispatchBatch, DispatchCrash
  <2>3. FlushExpiredBatches => UNCHANGED chain
    BY DEF FlushExpiredBatches
  <2> QED
    BY <1>1, <1>2, <1>3, <1>4, <1>5, <1>7, <1>8, <2>1, <2>2, <2>3 DEF Next, BatchStep
<1> QED
  BY <1>6, <1>7

\* Whatever a chain does, unless a job of it breaks off, brings it to its end; and it leaves the
\* queue only with its batch processed.
THEOREM ChainsMoveOnHolds == Spec => ChainsMoveOn
<1> DEFINE Moves(c) == \/ chain'[c] = chain[c] \/ faults' > faults
                       \/ StepsLeft(chain'[c]) \in 0..(StepsLeft(chain[c]) - 1)
<1>1. ASSUME MoveInv, MoveInv', Next, NEW c \in DOMAIN chain \cap DOMAIN chain'
      PROVE  Moves(c)
  <2>t. BatchInv /\ TypeOK /\ faults \in Nat
    BY <1>1 DEF MoveInv, BatchInv, TypeOK
  <2>1. chain[c] \in ChainRow /\ chain[c].attempts <= MaxTries
    BY <1>1, <2>t DEF MoveInv, TriesBounded, TypeOK, IsTable
  <2>2. chain'[c] \in ChainRow /\ chain'[c].attempts <= MaxTries
    BY <1>1 DEF MoveInv, BatchInv, TriesBounded, TypeOK, IsTable
  <2>3. ASSUME NEW d \in Chains, JobStep(d) PROVE Moves(c)
    <3>1. CASE c = d
      <4>1. \/ chain'[c].todo = chain[c].todo /\ chain'[c].attempts = chain[c].attempts
               /\ Rank[chain[c].step] < Rank[chain'[c].step]
            \/ chain'[c].todo = chain[c].todo /\ chain'[c].attempts = chain[c].attempts + 1
            \/ chain'[c].attempts = 0 /\ \E n \in chain[c].todo : chain'[c].todo = chain[c].todo \ {n}
        BY <1>1, <2>t, <2>1, <2>3, <3>1, JobMoves DEF Rank, ChainRow, Ended
      <4> QED
        BY <2>1, <2>2, <4>1, StepsGetLess
    <3>2. CASE c # d
      BY <1>1, <2>t, <2>3, <3>2, JobChain DEF OnlyChain
    <3> QED
      BY <3>1, <3>2
  <2>4. ASSUME NEW d \in Chains, WorkerCrash(d) \/ FailureBreaks(d) PROVE Moves(c)
    BY <2>t, <2>4 DEF WorkerCrash, FailureBreaks
  <2>5. ASSUME NEW d \in Chains, RetryFailedJob(d) PROVE Moves(c)
    BY <1>1, <2>t, <2>5, RetryChain
  <2>6. ASSUME NEW b \in Batches, BuildChain(b) PROVE Moves(c)
    BY <1>1, <2>6 DEF BuildChain, Put
  <2>7. ASSUME UNCHANGED chain PROVE Moves(c)
    BY <2>7
  <2> QED
    BY <1>1, <2>3, <2>4, <2>5, <2>6, <2>7 DEF Next, IngestStep, BatchStep, ReadOpenBatch,
       AddNotificationToBatch, CommitIngest, AbortIngest, TimerExpires, FlushExpiredBatches,
       DispatchBatch, DispatchCrash
<1> DEFINE Ends(c) == faults' > faults \/ batches'[chain[c].batch].status = "processed"
<1>2. ASSUME MoveInv, Next, NEW c \in DOMAIN chain \ DOMAIN chain'
      PROVE  Ends(c)
  <2>1. BatchInv /\ faults \in Nat
    BY <1>2 DEF MoveInv, BatchInv, TypeOK
  <2> QED
    BY <1>2, <2>1, ChainLeaves DEF FailureBreaks
<1>3. MoveInv /\ MoveInv' /\ [Next]_vars =>
        [/\ \A c \in DOMAIN chain \cap DOMAIN chain' : Moves(c)
         /\ \A c \in DOMAIN chain \ DOMAIN chain' : Ends(c)]_vars
  BY <1>1, <1>2
<1>4. Init => MoveInv
  BY InitBatchInv DEF MoveInv, TriesBounded, Init, Empty
<1> QED
  BY <1>3, <1>4, StepMoveInv, PTL DEF Spec, ChainsMoveOn, Moves, Ends
=============================================================================
