------------------------- MODULE BatchingImplements -------------------------
(* Batching implements BatchPromise: the rows of the tables are the promise's *)
(* notifications and batches; everything else is how it is kept.              *)
EXTENDS Batching

Promise == INSTANCE BatchPromise WITH
  content <- [n \in DOMAIN notif |->
                [zaak |-> notif[n].zaak, kind |-> notif[n].kind, batch |-> notif[n].batch]],
  stage   <- [b \in DOMAIN batches |-> batches[b].status],
  handled <- {n \in DOMAIN notif : Handled(n)}

\* Every step of the batch route is a step of the promise, or changes nothing it is about:
\* what joins a batch and when, the order of handling, and when a batch says it is done.
KeepsPromise == Promise!Spec
=============================================================================
