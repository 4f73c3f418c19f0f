---------------------------- MODULE DirectPromise ----------------------------
(* What the direct route promises, without jobs, waits, attempts or timers:   *)
(* a notification is processed, fails, or moves to a batch of its zaak that    *)
(* is not closed yet; and a batch that closed takes on all that moved to it.  *)
(* As long as no job broke off and nothing was retried, each of these happens *)
(* once, and a batch does not lose what it took on.                           *)
EXTENDS Integers

CONSTANTS Notifications, Batches, NoBatch

VARIABLES
  place,      \* the notifications that were accepted: id -> its batch, or NoBatch
  processed,  \* the notifications that are processed
  failed,     \* the notifications that are shown as failed
  stage,      \* the batches: batch -> none, open, closed or working
  owed,       \* what each working batch has left to do
  trouble     \* jobs that broke off and failed jobs that were retried

vars == <<place, processed, failed, stage, owed, trouble>>

Init ==
  /\ place = [n \in {} |-> NoBatch] /\ processed = {} /\ failed = {}
  /\ stage \in [Batches -> {"none", "open"}] /\ owed = [b \in Batches |-> {}]
  /\ trouble = 0

Accept(n) ==
  /\ n \notin DOMAIN place
  /\ place' = [m \in DOMAIN place \cup {n} |-> IF m = n THEN NoBatch ELSE place[m]]
  /\ UNCHANGED <<processed, failed, stage, owed, trouble>>

\* Nothing is done twice, unless there was trouble.
Fresh(n) == trouble = 0 => n \notin processed \cup failed
OnDirectRoute(n) == n \in DOMAIN place /\ Fresh(n) /\ (trouble = 0 => place[n] = NoBatch)

\* What is processed is no longer failed, unless it fails at the same time.
Clears(n) == failed' \in {failed, failed \ {n}}

Process(n) ==
  /\ OnDirectRoute(n)
  /\ processed' = processed \cup {n} /\ Clears(n)
  /\ UNCHANGED <<place, stage, owed, trouble>>

Fail(n) ==
  /\ OnDirectRoute(n)
  /\ failed' = failed \cup {n}
  /\ UNCHANGED <<place, processed, stage, owed, trouble>>

\* A batch that is open, or a new one; never one that is closed.
Move(n, b) ==
  /\ OnDirectRoute(n)
  /\ stage[b] \in {"open", "none"}
  /\ place' = [place EXCEPT ![n] = b] /\ Clears(n)
  /\ stage' = [stage EXCEPT ![b] = "open"]
  /\ UNCHANGED <<processed, owed, trouble>>

\* From here on nothing moves to the batch.
Close(b) ==
  /\ stage[b] = "open"
  /\ stage' = [stage EXCEPT ![b] = "closed"]
  /\ UNCHANGED <<place, processed, failed, owed, trouble>>

MovedTo(b) == {n \in DOMAIN place : place[n] = b}

\* The batch takes on all that moved to it.
TakeOn(b) ==
  /\ stage[b] = "closed"
  /\ stage' = [stage EXCEPT ![b] = "working"]
  /\ owed' = [owed EXCEPT ![b] = MovedTo(b)]
  /\ UNCHANGED <<place, processed, failed, trouble>>

Handle(b, n) ==
  /\ n \in owed[b] /\ Fresh(n)
  /\ owed' = [owed EXCEPT ![b] = @ \ {n}]
  /\ processed' = processed \cup {n} /\ Clears(n)
  /\ UNCHANGED <<place, stage, trouble>>

\* What fails stays with the batch, which may get another chance at it.
HandleFails(b, n) ==
  /\ n \in owed[b] /\ Fresh(n)
  /\ failed' = failed \cup {n}
  /\ UNCHANGED <<place, processed, stage, owed, trouble>>

\* A closed batch may lose what it took on, or would take on, or do some of it again.
Trouble ==
  /\ trouble' = trouble + 1
  /\ \/ UNCHANGED <<stage, owed>>
     \/ \E b \in Batches :
          /\ stage[b] \in {"closed", "working"}
          /\ stage' = [stage EXCEPT ![b] = "working"]
          /\ \E left \in SUBSET (owed[b] \cup MovedTo(b)) : owed' = [owed EXCEPT ![b] = left]
  /\ UNCHANGED <<place, processed, failed>>

Next ==
  \/ \E n \in Notifications :
       \/ Accept(n) \/ Process(n) \/ Fail(n)
       \/ \E b \in Batches : Move(n, b) \/ Handle(b, n) \/ HandleFails(b, n)
  \/ \E b \in Batches : Close(b) \/ TakeOn(b)
  \/ Trouble

Spec == Init /\ [][Next]_vars
=============================================================================
