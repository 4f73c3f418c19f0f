---------------------------- MODULE IngestRouting ----------------------------
(* What an ingest job decides about a notification: ignore it, send it on    *)
(* the direct route, or put it in the batch of its zaak; and what becomes of *)
(* the versions of a document by those decisions.  An ingest reads the ZGW   *)
(* APIs and the mappings one after the other, and both change in between.    *)
(* The jobs that follow are coarse: they wait, send under the lock of the    *)
(* document, or fail (DirectRoute, Batching and DocumentSync are about how). *)
EXTENDS Tables, Integers, FiniteSets

CONSTANTS
  Zaken,            \* zaken, each with a zaaktype of its own
  Workers,          \* workers that run ingest jobs
  Notifications,    \* identifiers for the notifications that are stored
  NoZaak, NoEntry,  \* "no zaak", and "no row" in document_syncs
  MaxVersie,        \* bound on the versions of the document
  MaxLinks,         \* bound on the links that are made
  MaxDisruptions    \* bound on whatever else happens (see disruptions)

DocumentKinds == {"link", "change"}
AllKinds == DocumentKinds \cup {"status", "other"}

ASSUME ConstantsAssumption ==
  /\ NoZaak \notin Zaken
  /\ {MaxVersie, MaxLinks, MaxDisruptions} \subseteq Nat
  /\ MaxVersie # 0

VARIABLES
  document,   \* the newest version of the document in the Documenten API
  links,      \* the links of the document in the Zaken API: id -> zaak
  lastLink,   \* the newest link that was made
  published,  \* the notifications that were published; any may be delivered again
  mapping,    \* the mapping of the zaaktype of each zaak
  reading,    \* the ingest jobs that run: worker -> what they have read
  notif,      \* table notifications: id -> row
  lost,       \* the notifications of which an ingest failed
  sending,    \* the job with the lock of the document, if any: id -> version it fetched
  register,   \* the row of the document in document_syncs, or NoEntry
  shown,      \* the version Corsa shows in each zaak, 0 for none
  disruptions \* links deleted, mappings changed, notifications about something else, and
              \* ingests and calls to Corsa that failed so far

zgw   == <<document, links, lastLink, published>>
corsa == <<sending, register, shown>>
vars  == <<zgw, mapping, reading, notif, lost, corsa, disruptions>>

Event == [kind: AllKinds, zaak: Zaken \cup {NoZaak}, link: 0..MaxLinks, versie: 0..MaxVersie]
Ignored == {"unsupported_channel", "unsupported_action", "unknown_zaaktype",
            "inactive_zaaktype", "document_not_linked", "document_in_multiple_zaken"}
NotificationRow == [event: Event, zaak: Zaken \cup {NoZaak}, route: {"batch", "direct"},
                    status: {"pending", "processed", "failed"} \cup Ignored]
Ingest == [event: Event, step: {"received", "accepted", "linked"}, zaken: SUBSET Zaken]
Entry == [zaak: Zaken, versie: 1..MaxVersie]

ASSUME NoEntryAssumption == NoEntry \notin Entry

Notice(kind, z, l, v) == [kind |-> kind, zaak |-> z, link |-> l, versie |-> v]

Init ==
  /\ document = 1
  /\ links = Empty /\ lastLink = 0 /\ disruptions = 0
  /\ published = {}
  /\ mapping \in [Zaken -> {"none", "inactive", "active"}]
  /\ reading = Empty /\ notif = Empty /\ lost = {}
  /\ sending = Empty /\ register = NoEntry /\ shown = [z \in Zaken |-> 0]

-----------------------------------------------------------------------------
(* The ZGW APIs and the mappings.                                            *)

EditDocument ==
  /\ document < MaxVersie
  /\ document' = document + 1
  /\ published' = published \cup {Notice("change", NoZaak, 0, document + 1)}
  /\ UNCHANGED <<links, lastLink, mapping, reading, notif, lost, corsa, disruptions>>

LinkDocument(z) ==
  /\ lastLink < MaxLinks
  /\ \A l \in DOMAIN links : links[l] # z
  /\ lastLink' = lastLink + 1
  /\ links' = Put(links, lastLink + 1, z)
  /\ published' = published \cup {Notice("link", z, lastLink + 1, 0)}
  /\ UNCHANGED <<document, mapping, reading, notif, lost, corsa, disruptions>>

\* Its notification has an action that is not supported.
UnlinkDocument(l) ==
  /\ disruptions < MaxDisruptions
  /\ l \in DOMAIN links
  /\ links' = Drop(links, l)
  /\ disruptions' = disruptions + 1
  /\ UNCHANGED <<document, lastLink, published, mapping, reading, notif, lost, corsa>>

\* A notification about something else: a status of a zaak, or what is not supported.
PublishOther(kind, z) ==
  /\ disruptions < MaxDisruptions
  /\ published' = published \cup {Notice(kind, z, 0, 0)}
  /\ disruptions' = disruptions + 1
  /\ UNCHANGED <<document, links, lastLink, mapping, reading, notif, lost, corsa>>

\* The sync adds a mapping, which is inactive; in the admin panel it is activated,
\* deactivated, or deleted, also along with its catalogus.
ChangeMapping(z) ==
  /\ disruptions < MaxDisruptions
  /\ \E m \in {"none", "inactive", "active"} \ {mapping[z]} :
       /\ mapping[z] = "none" => m = "inactive"
       /\ mapping' = [mapping EXCEPT ![z] = m]
  /\ disruptions' = disruptions + 1
  /\ UNCHANGED <<zgw, reading, notif, lost, corsa>>

-----------------------------------------------------------------------------
(* IngestNotification::handle.                                               *)

\* Delivered and put on the queue by the endpoint, any number of times, in any order.
Receive(w, e) ==
  /\ w \notin DOMAIN reading
  /\ reading' = Put(reading, w, [event |-> e, step |-> "received", zaken |-> {}])
  /\ UNCHANGED <<zgw, mapping, notif, lost, corsa, disruptions>>

Is(w, kinds, step) ==
  w \in DOMAIN reading /\ reading[w].event.kind \in kinds /\ reading[w].step = step

\* The ingest ends with one row.
Store(w, z, route, status) ==
  /\ \E n \in Notifications \ DOMAIN notif :
       notif' = Put(notif, n, [event |-> reading[w].event, zaak |-> z,
                               route |-> route, status |-> status])
  /\ reading' = Drop(reading, w)
  /\ UNCHANGED <<zgw, mapping, lost, corsa, disruptions>>

\* Variant: a route of its own for what is ignored.
StoreIgnoredRoute(w, z, reason) == Store(w, z, "ignored", reason)
StoreIgnored(w, z, reason) == Store(w, z, "batch", reason)

IgnoreUnsupported(w) ==
  /\ Is(w, {"other"}, "received")
  /\ \E reason \in {"unsupported_channel", "unsupported_action"} : StoreIgnored(w, NoZaak, reason)

\* The zaak is fetched for its zaaktype, and the mapping read.
CheckMapping(w) ==
  /\ Is(w, {"link", "status"}, "received")
  /\ LET e == reading[w].event IN
       \/ mapping[e.zaak] = "none" /\ StoreIgnored(w, e.zaak, "unknown_zaaktype")
       \/ mapping[e.zaak] = "inactive" /\ StoreIgnored(w, e.zaak, "inactive_zaaktype")
       \/ /\ mapping[e.zaak] = "active" /\ e.kind = "status"
          /\ Store(w, e.zaak, "batch", "pending")
       \/ /\ mapping[e.zaak] = "active" /\ e.kind = "link"
          /\ reading' = [reading EXCEPT ![w].step = "accepted"]
          /\ UNCHANGED <<zgw, mapping, notif, lost, corsa, disruptions>>

\* resolveRoute: a document of which the status is "in bewerking" goes direct; another one,
\* or one of which the link or the status cannot be read, goes in the batch.  What the status
\* is, is left open.
ResolveRoute(w) ==
  /\ Is(w, {"link"}, "accepted")
  /\ LET e == reading[w].event IN
       \/ Store(w, e.zaak, "batch", "pending")
       \/ e.link \in DOMAIN links /\ Store(w, e.zaak, "direct", "pending")

\* ingestDocumentUpdate: the zaken of the document are read, and then the mappings.
ReadLinks(w) ==
  /\ Is(w, {"change"}, "received")
  /\ reading' = [reading EXCEPT ![w].step = "linked", ![w].zaken = {links[l] : l \in DOMAIN links}]
  /\ UNCHANGED <<zgw, mapping, notif, lost, corsa, disruptions>>

Active(w) == {z \in reading[w].zaken : mapping[z] = "active"}
\* The zaak of a document with one.
Single(w) == CHOOSE z \in Zaken \cup {NoZaak} :
  IF \E y \in Zaken : reading[w].zaken = {y} THEN reading[w].zaken = {z} ELSE z = NoZaak

\* Variant: a document without an active zaak counts as not linked.
IgnoreChangeAsUnlinked(w) ==
  \/ Active(w) = {} /\ StoreIgnored(w, Single(w), "document_not_linked")
  \/ (\E y, z \in Active(w) : y # z) /\ StoreIgnored(w, NoZaak, "document_in_multiple_zaken")
IgnoreChange(w) ==
  \/ reading[w].zaken = {} /\ StoreIgnored(w, NoZaak, "document_not_linked")
  \/ (\E y, z \in Active(w) : y # z) /\ StoreIgnored(w, NoZaak, "document_in_multiple_zaken")
  \/ /\ reading[w].zaken # {} /\ Active(w) = {}
     /\ StoreIgnored(w, Single(w), IF \E z \in reading[w].zaken : mapping[z] = "inactive"
                                   THEN "inactive_zaaktype" ELSE "unknown_zaaktype")

StoreChange(w) ==
  /\ Is(w, {"change"}, "linked")
  /\ IgnoreChange(w) \/ \E z \in Zaken : Active(w) = {z} /\ Store(w, z, "direct", "pending")

\* A URL on another host, an error of a ZGW API or a worker that died: one try, no row.
IngestFails(w) ==
  /\ w \in DOMAIN reading
  /\ disruptions < MaxDisruptions
  /\ reading' = Drop(reading, w)
  /\ lost' = lost \cup {reading[w].event}
  /\ disruptions' = disruptions + 1
  /\ UNCHANGED <<zgw, mapping, notif, corsa>>

-----------------------------------------------------------------------------
(* The jobs of both routes, on the document.                                 *)

Pending(n, kinds) ==
  n \in DOMAIN notif /\ notif[n].status = "pending" /\ notif[n].event.kind \in kinds

EndsAs(n, status) == notif' = [notif EXCEPT ![n].status = status]

\* Under the lock: a document that is registered for the zaak is not sent again; otherwise
\* its newest version is fetched.  The link is read first, and must be there.
AddDocument(n) ==
  /\ Pending(n, {"link"}) /\ sending = Empty
  /\ notif[n].event.link \in DOMAIN links
  /\ IF register # NoEntry /\ register.zaak = notif[n].zaak
     THEN EndsAs(n, "processed") /\ UNCHANGED sending
     ELSE sending' = Put(sending, n, document) /\ UNCHANGED notif
  /\ UNCHANGED <<zgw, mapping, reading, lost, register, shown, disruptions>>

\* Variant: the comparison is off by one.
UpToDateOffByOne == document <= register.versie + 1
UpToDate == document <= register.versie

\* A document without a row is looked up in the list of its zaak: the job that sent it may
\* have ended before it was registered.
Listed(z) == shown[z] # 0

\* A change waits for a document that is not there.
UpdateDocument(n) ==
  /\ Pending(n, {"change"}) /\ sending = Empty
  /\ register # NoEntry \/ Listed(notif[n].zaak)
  /\ IF register # NoEntry /\ UpToDate
     THEN EndsAs(n, "processed") /\ UNCHANGED sending
     ELSE sending' = Put(sending, n, document) /\ UNCHANGED notif
  /\ UNCHANGED <<zgw, mapping, reading, lost, register, shown, disruptions>>

\* A change is sent for the zaak that is registered, a link for its own.
Target(n) ==
  IF notif[n].event.kind = "change" /\ register # NoEntry THEN register.zaak ELSE notif[n].zaak
ReachesCorsa(n) == shown' = [shown EXCEPT ![Target(n)] = sending[n]]

\* It is registered, but a row of another zaak stays as it is for a link.
SendDocument(n) ==
  /\ n \in DOMAIN sending
  /\ ReachesCorsa(n)
  /\ register' = IF notif[n].event.kind = "change" \/ register = NoEntry
                 THEN [zaak |-> Target(n), versie |-> sending[n]] ELSE register
  /\ EndsAs(n, "processed")
  /\ sending' = Drop(sending, n)
  /\ UNCHANGED <<zgw, mapping, reading, lost, disruptions>>

\* The call times out or the worker dies after the document reached Corsa: it is not
\* registered, and the job is tried again or fails for good.
SendFails(n) ==
  /\ n \in DOMAIN sending
  /\ disruptions < MaxDisruptions
  /\ ReachesCorsa(n)
  /\ UNCHANGED notif \/ EndsAs(n, "failed")
  /\ sending' = Drop(sending, n)
  /\ disruptions' = disruptions + 1
  /\ UNCHANGED <<zgw, mapping, reading, lost, register>>

\* Any job may fail before it sends, to be tried again or for good; a change that waited long
\* enough does.
FailDocument(n) ==
  /\ Pending(n, DocumentKinds)
  /\ UNCHANGED notif \/ EndsAs(n, "failed")
  /\ sending' = Drop(sending, n)
  /\ UNCHANGED <<zgw, mapping, reading, lost, register, shown, disruptions>>

-----------------------------------------------------------------------------
IngestStep(w) ==
  \/ IgnoreUnsupported(w) \/ CheckMapping(w) \/ ResolveRoute(w) \/ ReadLinks(w)
  \/ StoreChange(w) \/ IngestFails(w)

JobStep(n) ==
  AddDocument(n) \/ UpdateDocument(n) \/ SendDocument(n) \/ SendFails(n) \/ FailDocument(n)

Next ==
  \/ EditDocument \/ PublishOther("other", NoZaak)
  \/ \E z \in Zaken : LinkDocument(z) \/ ChangeMapping(z) \/ PublishOther("status", z)
  \/ \E l \in 1..MaxLinks : UnlinkDocument(l)
  \/ \E w \in Workers : (\E e \in published : Receive(w, e)) \/ IngestStep(w)
  \/ \E n \in Notifications : JobStep(n)

Spec == Init /\ [][Next]_vars

-----------------------------------------------------------------------------
(* Properties. *)

\* Every variable holds values of its type: an ignored notification has one of the reasons
\* of NotificationIgnoreReason and is not on a route of its own.
TypeOK ==
  /\ document \in 1..MaxVersie
  /\ IsTable(links, 1..MaxLinks, Zaken)
  /\ lastLink \in 0..MaxLinks /\ disruptions \in Nat
  /\ published \subseteq Event /\ lost \subseteq Event
  /\ mapping \in [Zaken -> {"none", "inactive", "active"}]
  /\ IsTable(reading, Workers, Ingest)
  /\ IsTable(notif, Notifications, NotificationRow)
  /\ IsTable(sending, Notifications, 1..MaxVersie)
  /\ register \in Entry \cup {NoEntry}
  /\ shown \in [Zaken -> 0..MaxVersie]

\* A change that was ignored because its document was not linked is in Corsa once a link is
\* processed, for a zaak that was linked once: of the link and the change, one carries the
\* version, although neither sees what the other reads.
LinkedOnce(z) == Cardinality({e \in published : e.kind = "link" /\ e.zaak = z}) <= 1
Carries(link, change) ==
  /\ notif[change].status = "document_not_linked"
  /\ notif[link].event.link \in DOMAIN links /\ notif[link].status = "processed"
  => shown[notif[link].zaak] >= notif[change].event.versie
FirstLinkCarriesChange ==
  \A n, m \in DOMAIN notif : LinkedOnce(notif[m].zaak) => Carries(m, n)

\* When nothing is left to do and Corsa shows an old version of a linked document, a row says
\* why: a later change was ignored for the mappings of its zaken, or for being in more
\* zaken, or it failed, or its ingest did.  No change is missed in silence, in a zaak that
\* was linked once.
Quiet ==
  /\ reading = Empty /\ \A n \in Notifications : ~Pending(n, DocumentKinds)
  /\ \A e \in published : e.kind \in DocumentKinds =>
       e \in lost \/ \E n \in DOMAIN notif : notif[n].event = e
Missed(v) ==
  \/ Notice("change", NoZaak, 0, v) \in lost
  \/ \E n \in DOMAIN notif :
       /\ notif[n].event = Notice("change", NoZaak, 0, v)
       /\ notif[n].status \in {"failed", "unknown_zaaktype", "inactive_zaaktype",
                              "document_in_multiple_zaken"}
NoSilentMiss ==
  /\ Quiet
  /\ register # NoEntry /\ shown[register.zaak] < document
  /\ LinkedOnce(register.zaak) /\ \E l \in DOMAIN links : links[l] = register.zaak
  => \E v \in 1..MaxVersie : v > shown[register.zaak] /\ Missed(v)

\* The docblock of ingestDocumentUpdate, "A document without a link is ignored, because the
\* link sends the newest version once it is made", and README.md:83: the same for any link.
LinkCarriesChange == \A n, m \in DOMAIN notif : Carries(m, n)
=============================================================================
