-------------------------- MODULE DirectImplements --------------------------
(* DirectRoute implements DirectPromise: the rows of the tables are the       *)
(* promise's notifications and batches, a chain is what a batch owes.  Jobs   *)
(* and timers are how the promise is kept.                                    *)
EXTENDS DirectRoute

\* A batch that is locked is closed; from its chain on, or from the loss of it, it is working.
PromiseStage(s) ==
  CASE s \in {"none", "open"} -> s
    [] s = "locked"           -> "closed"
    [] OTHER                  -> "working"

Promise == INSTANCE DirectPromise WITH
  place     <- [n \in DOMAIN notif |-> notif[n].batch],
  processed <- {n \in DOMAIN notif : notif[n].processed},
  failed    <- {n \in DOMAIN notif : notif[n].failed},
  stage     <- [b \in Batches |-> PromiseStage(stage[b])],
  owed      <- chained,
  trouble   <- faults + retries

\* Every step of the direct route is a step of the promise, or changes nothing it is about:
\* a document is sent, given up or moved once, however often its job waits, is released or is
\* tried again, unless a job broke off or was retried; it moves to a batch that is not locked
\* yet, and the chain of that batch has a job for all that moved to it.
KeepsPromise == Promise!Spec
=============================================================================
