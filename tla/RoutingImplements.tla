------------------------- MODULE RoutingImplements -------------------------
(* IngestRouting implements DocumentPromise, like DocumentSync: the changes   *)
(* that are due are those that were published and of which no row is          *)
(* processed.  Every version of this document comes with content.             *)
EXTENDS IngestRouting

ChangeDone(v) ==
  \E n \in DOMAIN notif :
    notif[n].event = Notice("change", NoZaak, 0, v) /\ notif[n].status = "processed"

Promise == INSTANCE DocumentPromise WITH
  NoZaak <- NoEntry,
  newest <- document,
  since  <- 1,
  due    <- {v \in 2..document : ~ChangeDone(v)},
  home   <- IF register = NoEntry THEN NoEntry ELSE register.zaak

\* Every step of an ingest, of a job and of the ZGW APIs is a step of the promise, or changes
\* nothing it is about: whichever route a notification takes, however often it is delivered
\* and whatever is linked, unlinked or mapped meanwhile, Corsa only gets newer versions, the
\* document keeps its zaak, and a change that was received several times counts as done only
\* when that zaak shows it.
KeepsPromise == Promise!Spec
=============================================================================
