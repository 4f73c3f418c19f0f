--------------------------- MODULE DocumentPromise ---------------------------
(* What sending a document promises, without locks, jobs or a register: Corsa *)
(* shows versions that only get newer, the document gets one zaak in which it *)
(* is kept up to date, and the notification of a change is only done when     *)
(* that zaak shows the change, or when there was nothing to show.             *)
EXTENDS Integers

CONSTANTS Zaken, NoZaak

VARIABLES
  newest,  \* the newest version of the document
  since,   \* the first version that came with content, or 0
  due,     \* the changes that are not done
  shown,   \* the version each zaak shows, 0 for none
  home     \* the zaak in which the document is kept up to date, or NoZaak

vars == <<newest, since, due, shown, home>>

Init ==
  /\ newest = 1 /\ since \in {0, 1} /\ due = {}
  /\ shown = [z \in Zaken |-> 0] /\ home = NoZaak

Edit ==
  /\ newest' = newest + 1
  /\ since' \in IF since = 0 THEN {0, newest + 1} ELSE {since}
  /\ due' = due \cup {newest + 1}
  /\ UNCHANGED <<shown, home>>

\* Some zaak gets a version that is not older; nothing is shown of the versions before the
\* first content.
Shows ==
  /\ since # 0
  /\ \E z \in Zaken, v \in since..newest : v >= shown[z] /\ shown' = [shown EXCEPT ![z] = v]

\* The document may get its home, once.
KeepsHome == home' = home \/ (home = NoZaak /\ home' \in Zaken)

\* A change that came with nothing to show, or that the home shows.
Arrived(v) == since = 0 \/ v < since \/ (home \in Zaken /\ shown[home] >= v)
Ends == \E v \in due : due' = due \ {v} /\ Arrived(v)'

\* A job does these one by one, or several at once.
Deliver ==
  /\ Shows \/ UNCHANGED shown
  /\ KeepsHome
  /\ Ends \/ UNCHANGED due
  /\ UNCHANGED <<newest, since>>

Next == Edit \/ Deliver

Spec == Init /\ [][Next]_vars
=============================================================================
