------------------------- MODULE CatalogiImplements -------------------------
(* CatalogiSync implements CatalogiPromise: the rows with a url stand for the *)
(* entry of that url.                                                         *)
EXTENDS CatalogiSync

Entry(table, url) ==
  LET rows == {i \in DOMAIN table : table[i].url = url}
  IN  IF rows = {} THEN "none" ELSE IF \E i \in rows : table[i].active THEN "active" ELSE "inactive"

Promise == INSTANCE CatalogiPromise WITH
  gone     <- absent,
  copy     <- [c \in Catalogi |-> Entry(catalogi, c)],
  settings <- [z \in Zaaktypen |-> Entry(mappings, z)]

\* Every step of the syncs and the admin is a step of the promise, or changes nothing it is
\* about: whatever was read before the admin, or another sync, changed a row, a sync only adds
\* what is not there, as inactive, and only deactivates what was gone; what the admin chose or
\* deleted stays so, and the zaaktypen of a catalogus go with it.
KeepsPromise == Promise!Spec
=============================================================================
