---------------------------- MODULE BatchPromise ----------------------------
(* What the batch route promises, without timers, row locks, queues, chains, *)
(* crashes or retries: a batch collects notifications of one zaak until it   *)
(* is closed, handles each of them after the ones that come before it, and   *)
(* is processed when there is nothing left to handle.                        *)
EXTENDS Notifications

CONSTANTS Batches, Zaken, Ids

VARIABLES
  content,  \* the notifications that were accepted: id -> zaak, kind and batch
  stage,    \* the batches: batch -> pending, processing, failed or processed
  handled   \* the notifications that were processed or ignored

vars == <<content, stage, handled>>

Init == content = [n \in {} |-> 0] /\ stage = [b \in {} |-> 0] /\ handled = {}

Members(b) == {n \in DOMAIN content : content[n].batch = b}

\* A batch handles one create:zaak, the first; the others it leaves alone.
Owed(b) ==
  {n \in Members(b) : content[n].kind = "create:zaak" =>
     \A m \in Members(b) : content[m].kind = "create:zaak" => n <= m}

\* A notification joins a pending batch of its zaak, or starts a batch.
Accept(n, b, z, k) ==
  /\ n \notin DOMAIN content
  /\ b \in DOMAIN stage => stage[b] = "pending"
  /\ \A m \in Members(b) : content[m].zaak = z
  /\ content' = [m \in DOMAIN content \cup {n} |->
                   IF m = n THEN [zaak |-> z, kind |-> k, batch |-> b] ELSE content[m]]
  /\ stage' = [a \in DOMAIN stage \cup {b} |-> IF a = b THEN "pending" ELSE stage[a]]
  /\ UNCHANGED handled

\* From here on nothing joins the batch.
Close(b) ==
  /\ b \in DOMAIN stage /\ stage[b] = "pending"
  /\ stage' = [stage EXCEPT ![b] = "processing"]
  /\ UNCHANGED <<content, handled>>

\* The notifications of a batch are handled in processing order.
Handle(n) ==
  /\ n \in DOMAIN content \ handled
  /\ LET b == content[n].batch IN
       /\ stage[b] \in {"processing", "failed"}
       /\ n \in Owed(b)
       /\ {m \in Owed(b) : Precedes(content, m, n)} \subseteq handled
  /\ handled' = handled \cup {n}
  /\ UNCHANGED <<content, stage>>

\* A job failed for good.  The batch may still be processed, by a retry.
Fail(b) ==
  /\ b \in DOMAIN stage /\ stage[b] = "processing"
  /\ stage' = [stage EXCEPT ![b] = "failed"]
  /\ UNCHANGED <<content, handled>>

Finish(b) ==
  /\ b \in DOMAIN stage /\ stage[b] \in {"processing", "failed"}
  /\ Owed(b) \subseteq handled
  /\ stage' = [stage EXCEPT ![b] = "processed"]
  /\ UNCHANGED <<content, handled>>

Next ==
  \/ \E n \in Ids, b \in Batches, z \in Zaken, k \in Kinds : Accept(n, b, z, k)
  \/ \E b \in Batches : Close(b) \/ Fail(b) \/ Finish(b)
  \/ \E n \in Ids : Handle(n)

Spec == Init /\ [][Next]_vars
=============================================================================
