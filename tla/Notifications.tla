--------------------------- MODULE Notifications ---------------------------
(* The kinds of notifications the application knows, and the order in which *)
(* a batch processes them.  A kind is the action and the resource of the    *)
(* payload, written the way HandleNotification::handle matches on them.     *)
EXTENDS Naturals

DocumentUpdates == {"update:enkelvoudiginformatieobject",
                    "partial_update:enkelvoudiginformatieobject"}

\* What the ingest lets through: OpenNotification::SUPPORTED_ACTIONS.
SupportedActions == {"create:zaak", "create:status", "create:zaakinformatieobject",
                     "create:resultaat"} \cup DocumentUpdates

\* Any other combination, which only a notification stored before the ingest
\* checked the action can carry into a batch.
Unsupported == "other"

Kinds == SupportedActions \cup {Unsupported}

\* The kinds whose handler works under the lock of a document, or waits for
\* the parts of its upload, and may therefore release its job.
DocumentKinds == DocumentUpdates \cup {"create:zaakinformatieobject"}

\* Notification::processingGroup: the zaak first, changes to documents after
\* the links that add them, the resultaat last.
ProcessingGroup(kind) ==
  CASE kind = "create:zaak"      -> 0
    [] kind \in DocumentUpdates  -> 2
    [] kind = "create:resultaat" -> 3
    [] OTHER                     -> 1

\* Notification::scopeInProcessingOrder: the group, then the order of receipt.
\* Identifiers in the table grow with created_at, and the id breaks its ties.
Precedes(table, m, n) ==
  LET gm == ProcessingGroup(table[m].kind)
      gn == ProcessingGroup(table[n].kind)
  IN  gm < gn \/ (gm = gn /\ m < n)
=============================================================================
