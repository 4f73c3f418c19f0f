--------------------------- MODULE CatalogiPromise ---------------------------
(* What the copy of the catalogi promises the admin, without jobs, rows or    *)
(* keys: there is one entry for a catalogus and one for a zaaktype, syncs add *)
(* what is not there and deactivate what is gone, and everything else is up   *)
(* to the admin.                                                              *)
EXTENDS Integers

CONSTANTS Catalogi, Zaaktypen, CatalogusOf

VARIABLES
  gone,      \* the catalogi that a sync did not find in the API
  copy,      \* the catalogi: none, inactive or active
  settings,  \* the zaaktypen: none, inactive or active
  edits      \* how often the admin did something

vars == <<gone, copy, settings, edits>>

Values == {"none", "inactive", "active"}

Init ==
  /\ gone = {} /\ edits = 0
  /\ copy = [c \in Catalogi |-> "none"] /\ settings = [z \in Zaaktypen |-> "none"]

Look == gone \subseteq gone' /\ UNCHANGED <<copy, settings, edits>>

\* A sync leaves what it adds inactive, and adds no zaaktype without its catalogus.
Add(c) == copy[c] = "none" /\ copy' = [copy EXCEPT ![c] = "inactive"] /\ UNCHANGED settings
Deactivate(c) ==
  c \in gone /\ copy[c] = "active" /\ copy' = [copy EXCEPT ![c] = "inactive"] /\ UNCHANGED settings
Map(z) ==
  /\ settings[z] = "none" /\ copy[CatalogusOf[z]] # "none"
  /\ settings' = [settings EXCEPT ![z] = "inactive"] /\ UNCHANGED copy

Sync ==
  /\ (\E c \in Catalogi : Add(c) \/ Deactivate(c)) \/ (\E z \in Zaaktypen : Map(z))
  /\ UNCHANGED <<gone, edits>>

\* The zaaktypen go along with their catalogus, and only a sync adds one.
Delete(c) ==
  /\ copy' = [copy EXCEPT ![c] = "none"]
  /\ settings' = [z \in Zaaktypen |-> IF CatalogusOf[z] = c THEN "none" ELSE settings[z]]
Choose(c) ==
  /\ \E value \in Values \ {"none"} : copy' = [copy EXCEPT ![c] = value]
  /\ UNCHANGED settings
Set(z) ==
  /\ settings[z] # "none"
  /\ \E value \in Values : settings' = [settings EXCEPT ![z] = value]
  /\ UNCHANGED copy

Admin ==
  /\ \/ \E c \in Catalogi : Delete(c) \/ Choose(c)
     \/ \E z \in Zaaktypen : Set(z)
     \/ UNCHANGED <<copy, settings>>
  /\ edits' = edits + 1 /\ UNCHANGED gone

Next == Look \/ Sync \/ Admin

Spec == Init /\ [][Next]_vars
=============================================================================
