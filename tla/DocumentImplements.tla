------------------------- MODULE DocumentImplements -------------------------
(* DocumentSync implements DocumentPromise: the register says which zaak is   *)
(* the home of the document.                                                  *)
EXTENDS DocumentSync

Promise == INSTANCE DocumentPromise WITH
  NoZaak <- NoEntry,
  newest <- document.versie,
  home   <- IF register = NoEntry THEN NoEntry ELSE register.zaak

\* Every step of a job, of the lock and of a worker that dies is a step of the promise, or
\* changes nothing it is about: Corsa only gets newer versions, the document keeps its zaak,
\* and no notification of a change is done before that zaak shows the change.
KeepsPromise == Promise!Spec
=============================================================================
