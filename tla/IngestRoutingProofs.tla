------------------------ MODULE IngestRoutingProofs -------------------------
(* Theorems about IngestRouting, for every value of its constants. *)
EXTENDS RoutingImplements, TablesProofs, FiniteSetTheorems

IsChange(n) == notif[n].event.kind = "change"
IsLink(n) == notif[n].event.kind = "link"

\* What was published is about something that was there.
PublishedInv ==
  /\ IsFiniteSet(published)
  /\ \A e \in published :
       /\ e.kind \in {"link", "status"} => e.zaak \in Zaken
       /\ IF e.kind = "link" THEN e.link <= lastLink /\ (e.link \in DOMAIN links => links[e.link] = e.zaak)
          ELSE e.link = 0
       /\ e.kind = "change" => e.versie <= document
  /\ \A l \in DOMAIN links : l <= lastLink /\ Notice("link", links[l], l, 0) \in published
  /\ document > 1 => Notice("change", NoZaak, 0, document) \in published

\* A zaak that the document was linked to, by one of the notifications in S.
HasLink(S, z) == \E e \in S : e.kind = "link" /\ e.zaak = z

\* Ingests and rows are about what was published.
RowsInv ==
  /\ \A w \in DOMAIN reading :
       /\ reading[w].event \in published
       /\ \A z \in reading[w].zaken : HasLink(published, z)
       /\ reading[w].step = "linked" => reading[w].event.kind = "change"
  /\ \A n \in DOMAIN notif :
       /\ notif[n].event \in published
       /\ IsLink(n) => notif[n].zaak = notif[n].event.zaak
       /\ notif[n].status \in {"unsupported_channel", "unsupported_action"} => notif[n].event.kind = "other"
       /\ notif[n].status = "document_not_linked" => IsChange(n)
       /\ IsChange(n) /\ notif[n].status = "pending" => HasLink(published, notif[n].zaak)

\* The version that is being sent is as new as any that was sent, and the register knows no
\* newer version than Corsa shows.
SendingInv ==
  /\ \A z \in Zaken : shown[z] <= document
  /\ \A n \in DOMAIN sending :
       /\ n \in DOMAIN notif /\ notif[n].event.kind \in DocumentKinds
       /\ sending[n] <= document /\ \A z \in Zaken : shown[z] <= sending[n]
       /\ IsChange(n) => HasLink(published, notif[n].zaak) /\ notif[n].event.versie <= sending[n]
       /\ \A m \in DOMAIN sending : m = n
  /\ register # NoEntry => register.versie <= shown[register.zaak] /\ HasLink(published, register.zaak)
  /\ \A n \in DOMAIN notif : notif[n].status = "processed" /\ IsChange(n) =>
       register # NoEntry /\ notif[n].event.versie <= shown[register.zaak]

\* A job that sends has not ended.
PendingInv == \A n \in DOMAIN sending : notif[n].status = "pending"

\* The versions that an ingest found unlinked; whatever is sent for a link that is there now
\* was read later.
Unlinked ==
  {notif[n].event.versie : n \in {m \in DOMAIN notif : notif[m].status = "document_not_linked"}}
  \cup {reading[w].event.versie :
          w \in {v \in DOMAIN reading : reading[v].step = "linked" /\ reading[v].zaken = {}}}
SendsFor(n, l) == (IsLink(n) /\ notif[n].event.link = l) \/ (IsChange(n) /\ notif[n].zaak = links[l])
CarriedInv ==
  \A v \in Unlinked, l \in DOMAIN links : LinkedOnce(links[l]) =>
    /\ \A n \in DOMAIN sending : SendsFor(n, l) => v <= sending[n]
    /\ \A n \in DOMAIN notif :
         IsLink(n) /\ notif[n].event.link = l /\ notif[n].status = "processed" => v <= shown[links[l]]
    /\ register # NoEntry /\ register.zaak = links[l] => v <= shown[links[l]]

RouteInv == TypeOK /\ PublishedInv /\ RowsInv /\ SendingInv /\ PendingInv /\ CarriedInv

(* What the operators give. *)

Statuses == {"pending", "processed", "failed"} \cup Ignored

\* A row that gets a status is otherwise the same.
LEMMA EndsRow ==
  ASSUME TypeOK, NEW n \in DOMAIN notif, NEW status \in Statuses, EndsAs(n, status)
  PROVE  /\ IsTable(notif', Notifications, NotificationRow) /\ DOMAIN notif' = DOMAIN notif
         /\ notif'[n].event = notif[n].event /\ notif'[n].zaak = notif[n].zaak
         /\ notif'[n].status = status
         /\ \A m \in DOMAIN notif \ {n} : notif'[m] = notif[m]
<1>1. n \in Notifications /\ notif[n] \in NotificationRow /\ notif \in [DOMAIN notif -> NotificationRow]
  BY RowOfTable DEF TypeOK, IsTable
<1>2. LET row == [notif[n] EXCEPT !.status = status]
      IN  /\ row \in NotificationRow /\ row.status = status
          /\ row.event = notif[n].event /\ row.zaak = notif[n].zaak
  BY <1>1 DEF NotificationRow, Statuses
<1>3. notif' = [notif EXCEPT ![n] = [notif[n] EXCEPT !.status = status]]
  BY DEF EndsAs
<1> QED
  BY <1>1, <1>2, <1>3 DEF TypeOK, IsTable

\* The ingest ends with a row of its own.
LEMMA StoreRow ==
  ASSUME TypeOK, NEW w \in DOMAIN reading, NEW z \in Zaken \cup {NoZaak},
         NEW route \in {"batch", "direct"}, NEW status \in Statuses, Store(w, z, route, status)
  PROVE  /\ IsTable(notif', Notifications, NotificationRow) /\ IsTable(reading', Workers, Ingest)
         /\ UNCHANGED <<zgw, mapping, lost, corsa, disruptions>>
         /\ reading' = Drop(reading, w)
         /\ \E n \in Notifications \ DOMAIN notif :
              /\ DOMAIN notif' = DOMAIN notif \cup {n}
              /\ \A m \in DOMAIN notif : notif'[m] = notif[m]
              /\ notif'[n].event = reading[w].event /\ notif'[n].zaak = z /\ notif'[n].status = status
<1> DEFINE row == [event |-> reading[w].event, zaak |-> z, route |-> route, status |-> status]
<1>1. PICK n \in Notifications \ DOMAIN notif : notif' = Put(notif, n, row)
  BY DEF Store
<1>2. reading[w].event \in Event
  <2>1. reading[w] \in Ingest
    BY RowOfTable DEF TypeOK
  <2> QED
    BY <2>1 DEF Ingest
<1>3. row \in NotificationRow
  BY <1>2 DEF NotificationRow, Statuses
<1>4. row.event = reading[w].event /\ row.zaak = z /\ row.status = status
  OBVIOUS
<1> HIDE DEF row
<1>5. IsTable(notif', Notifications, NotificationRow)
  BY <1>1, <1>3, PutIsTable DEF TypeOK
<1>6. IsTable(reading', Workers, Ingest) /\ reading' = Drop(reading, w)
      /\ UNCHANGED <<zgw, mapping, lost, corsa, disruptions>>
  BY DropIsTable DEF Store, TypeOK
<1>7. /\ DOMAIN notif' = DOMAIN notif \cup {n} /\ notif'[n] = row
      /\ \A m \in DOMAIN notif : notif'[m] = notif[m]
  BY <1>1 DEF Put
<1> QED
  BY <1>1, <1>4, <1>5, <1>6, <1>7

\* The zaak of a document is a zaak, or none.
LEMMA SingleIsZaak ==
  ASSUME NEW w
  PROVE  Single(w) \in Zaken \cup {NoZaak}
<1>1. CASE \E y \in Zaken : reading[w].zaken = {y}
  BY <1>1 DEF Single
<1>2. CASE ~\E y \in Zaken : reading[w].zaken = {y}
  BY <1>2 DEF Single
<1> QED
  BY <1>1, <1>2

\* Every way in which an ingest stores its notification.
LEMMA StoreSteps ==
  ASSUME RouteInv, NEW w \in Workers, IngestStep(w)
  PROVE  \/ UNCHANGED notif
         \/ /\ w \in DOMAIN reading
            /\ \E z \in Zaken \cup {NoZaak}, route \in {"batch", "direct"}, status \in Statuses :
                 /\ Store(w, z, route, status)
                 /\ status # "processed"
                 /\ reading[w].event.kind = "link" => z = reading[w].event.zaak
                 /\ status \in {"unsupported_channel", "unsupported_action"} =>
                      reading[w].event.kind = "other"
                 /\ status = "document_not_linked" =>
                      reading[w].event.kind = "change" /\ reading[w].step = "linked"
                      /\ reading[w].zaken = {}
                 /\ status = "pending" /\ reading[w].event.kind = "change" => z \in reading[w].zaken
<1> DEFINE Stores(z, route, status) ==
      /\ w \in DOMAIN reading
      /\ Store(w, z, route, status)
      /\ status # "processed"
      /\ reading[w].event.kind = "link" => z = reading[w].event.zaak
      /\ status \in {"unsupported_channel", "unsupported_action"} => reading[w].event.kind = "other"
      /\ status = "document_not_linked" =>
           reading[w].event.kind = "change" /\ reading[w].step = "linked" /\ reading[w].zaken = {}
      /\ status = "pending" /\ reading[w].event.kind = "change" => z \in reading[w].zaken
<1> SUFFICES UNCHANGED notif \/ \E z \in Zaken \cup {NoZaak}, route \in {"batch", "direct"},
                                   status \in Statuses : Stores(z, route, status)
  OBVIOUS
<1>0. ASSUME w \in DOMAIN reading PROVE reading[w].event.zaak \in Zaken \cup {NoZaak}
  <2>1. reading[w] \in Ingest
    BY <1>0, RowOfTable DEF RouteInv, TypeOK
  <2> QED
    BY <2>1 DEF Ingest, Event
<1>1. CASE IgnoreUnsupported(w)
  <2>1. PICK reason \in {"unsupported_channel", "unsupported_action"} :
          /\ Store(w, NoZaak, "batch", reason)
          /\ w \in DOMAIN reading /\ reading[w].event.kind = "other"
    BY <1>1 DEF IgnoreUnsupported, Is, StoreIgnored
  <2>2. Stores(NoZaak, "batch", reason) /\ reason \in Statuses
    BY <2>1 DEF Statuses, Ignored
  <2> QED
    BY <2>2
<1>2. CASE CheckMapping(w) /\ ~UNCHANGED notif
  <2>1. PICK status \in {"unknown_zaaktype", "inactive_zaaktype", "pending"} :
          /\ w \in DOMAIN reading /\ Store(w, reading[w].event.zaak, "batch", status)
          /\ reading[w].event.kind # "change"
    BY <1>2 DEF CheckMapping, Is, StoreIgnored
  <2>2. Stores(reading[w].event.zaak, "batch", status) /\ status \in Statuses
    BY <2>1 DEF Statuses, Ignored
  <2> QED
    BY <1>0, <2>1, <2>2
<1>3. CASE ResolveRoute(w)
  <2>1. PICK route \in {"batch", "direct"} :
          /\ w \in DOMAIN reading /\ Store(w, reading[w].event.zaak, route, "pending")
          /\ reading[w].event.kind = "link"
    BY <1>3 DEF ResolveRoute, Is
  <2>2. Stores(reading[w].event.zaak, route, "pending") /\ "pending" \in Statuses
    BY <2>1 DEF Statuses
  <2> QED
    BY <1>0, <2>1, <2>2
<1>4. CASE StoreChange(w)
  <2>1. w \in DOMAIN reading /\ reading[w].event.kind = "change" /\ reading[w].step = "linked"
    BY <1>4 DEF StoreChange, Is
  <2>2. CASE \E z \in Zaken : Active(w) = {z} /\ Store(w, z, "direct", "pending")
    <3>1. PICK z \in Zaken : Active(w) = {z} /\ Store(w, z, "direct", "pending")
      BY <2>2
    <3>2. Stores(z, "direct", "pending") /\ "pending" \in Statuses
      BY <2>1, <3>1 DEF Statuses, Active
    <3> QED
      BY <3>2
  <2>3. CASE reading[w].zaken = {} /\ Store(w, NoZaak, "batch", "document_not_linked")
    <3>1. Stores(NoZaak, "batch", "document_not_linked") /\ "document_not_linked" \in Statuses
      BY <2>1, <2>3 DEF Statuses, Ignored
    <3> QED
      BY <3>1
  <2>4. ASSUME NEW z \in Zaken \cup {NoZaak},
               NEW status \in {"document_in_multiple_zaken", "inactive_zaaktype", "unknown_zaaktype"},
               Store(w, z, "batch", status)
        PROVE  Stores(z, "batch", status) /\ status \in Statuses
    BY <2>1, <2>4 DEF Statuses, Ignored
  <2>5. CASE IgnoreChange(w)
    BY <2>3, <2>4, <2>5, SingleIsZaak DEF IgnoreChange, StoreIgnored
  <2> QED
    BY <1>4, <2>2, <2>5 DEF StoreChange
<1>5. CASE ReadLinks(w) \/ IngestFails(w)
  BY <1>5 DEF ReadLinks, IngestFails
<1> QED
  BY <1>1, <1>2, <1>3, <1>4, <1>5 DEF IngestStep

(* Types. *)

\* What is published is an event.
LEMMA NoticeIsEvent ==
  ASSUME NEW kind \in AllKinds, NEW z \in Zaken \cup {NoZaak}, NEW l \in 0..MaxLinks, NEW v \in 0..MaxVersie
  PROVE  Notice(kind, z, l, v) \in Event
BY DEF Notice, Event

\* An ingest that goes on is an ingest still.
LEMMA IngestGoesOn ==
  ASSUME TypeOK, NEW w \in DOMAIN reading, NEW step \in {"accepted", "linked"}, NEW zaken \in SUBSET Zaken,
         reading' = [reading EXCEPT ![w] = [reading[w] EXCEPT !.step = step, !.zaken = zaken]]
  PROVE  /\ IsTable(reading', Workers, Ingest) /\ DOMAIN reading' = DOMAIN reading
         /\ \A v \in DOMAIN reading \ {w} : reading'[v] = reading[v]
         /\ reading'[w].event = reading[w].event /\ reading'[w].step = step /\ reading'[w].zaken = zaken
<1>1. reading[w] \in Ingest /\ reading \in [DOMAIN reading -> Ingest] /\ DOMAIN reading \subseteq Workers
  BY RowOfTable DEF TypeOK, IsTable
<1>2. LET row == [reading[w] EXCEPT !.step = step, !.zaken = zaken]
      IN  row \in Ingest /\ row.event = reading[w].event /\ row.step = step /\ row.zaken = zaken
  BY <1>1 DEF Ingest
<1> QED
  BY <1>1, <1>2 DEF IsTable

\* What an ingest that does not end has read: the mapping of its zaak, or the links.
LEMMA ReadSteps ==
  ASSUME RouteInv, NEW w \in Workers, CheckMapping(w) \/ ReadLinks(w), UNCHANGED notif
  PROVE  /\ w \in DOMAIN reading /\ UNCHANGED <<zgw, mapping, lost, corsa, disruptions>>
         /\ \/ reading' = [reading EXCEPT ![w] = [reading[w] EXCEPT !.step = "accepted",
                                                                   !.zaken = reading[w].zaken]]
            \/ /\ reading[w].event.kind = "change"
               /\ reading' = [reading EXCEPT ![w] = [reading[w] EXCEPT !.step = "linked",
                                                       !.zaken = {links[l] : l \in DOMAIN links}]]
<1>t. TypeOK
  BY DEF RouteInv
<1>1. CASE ReadLinks(w)
  BY <1>1 DEF ReadLinks, Is
<1>2. CASE CheckMapping(w)
  <2>1. ASSUME NEW z, NEW status, Store(w, z, "batch", status) PROVE FALSE
    <3>1. PICK n \in Notifications \ DOMAIN notif : \E row : notif' = Put(notif, n, row)
      BY <2>1 DEF Store
    <3> QED
      BY <3>1 DEF Put
  <2>2. /\ w \in DOMAIN reading /\ UNCHANGED <<zgw, mapping, lost, corsa, disruptions>>
        /\ reading' = [reading EXCEPT ![w].step = "accepted"]
    BY <1>2, <2>1 DEF CheckMapping, Is, StoreIgnored
  <2>3. [reading[w] EXCEPT !.step = "accepted"]
        = [reading[w] EXCEPT !.step = "accepted", !.zaken = reading[w].zaken]
    <3>1. reading[w] \in Ingest
      BY <1>t, <2>2, RowOfTable DEF TypeOK
    <3> QED
      BY <3>1 DEF Ingest
  <2> QED
    BY <2>2, <2>3
<1> QED
  BY <1>1, <1>2

\* The steps of an ingest keep the types.
LEMMA IngestTypeOK ==
  ASSUME RouteInv, NEW w \in Workers, IngestStep(w)
  PROVE  TypeOK'
<1>t. TypeOK
  BY DEF RouteInv
<1>1. CASE ~UNCHANGED notif
  <2>1. PICK z \in Zaken \cup {NoZaak}, route \in {"batch", "direct"}, status \in Statuses :
          w \in DOMAIN reading /\ Store(w, z, route, status)
    BY <1>1, StoreSteps
  <2>2. /\ IsTable(notif', Notifications, NotificationRow) /\ IsTable(reading', Workers, Ingest)
        /\ UNCHANGED <<zgw, mapping, lost, corsa, disruptions>>
    BY <1>t, <2>1, StoreRow
  <2> QED
    BY <1>t, <2>2 DEF TypeOK, zgw, corsa
<1>2. CASE (CheckMapping(w) \/ ReadLinks(w)) /\ UNCHANGED notif
  <2>1. w \in DOMAIN reading /\ UNCHANGED <<zgw, mapping, lost, corsa, disruptions>>
    BY <1>2, ReadSteps
  <2>2. reading[w].zaken \in SUBSET Zaken
    <3>1. reading[w] \in Ingest
      BY <1>t, <2>1, RowOfTable DEF TypeOK
    <3> QED
      BY <3>1 DEF Ingest
  <2>3. {links[l] : l \in DOMAIN links} \in SUBSET Zaken
    BY <1>t DEF TypeOK, IsTable
  <2>4. IsTable(reading', Workers, Ingest)
    BY <1>t, <1>2, <2>1, <2>2, <2>3, ReadSteps, IngestGoesOn
  <2> QED
    BY <1>t, <1>2, <2>1, <2>4 DEF TypeOK, zgw, corsa
<1>3. CASE IngestFails(w)
  <2>1. /\ w \in DOMAIN reading /\ reading' = Drop(reading, w) /\ lost' = lost \cup {reading[w].event}
        /\ disruptions' = disruptions + 1 /\ UNCHANGED <<zgw, mapping, notif, corsa>>
    BY <1>3 DEF IngestFails
  <2>2. reading[w] \in Ingest /\ IsTable(reading', Workers, Ingest)
    BY <1>t, <2>1, RowOfTable, DropIsTable DEF TypeOK
  <2>3. lost' \subseteq Event
    BY <1>t, <2>1, <2>2 DEF TypeOK, Ingest
  <2> QED
    BY <1>t, <2>1, <2>2, <2>3 DEF TypeOK, zgw, corsa
<1>4. CASE (IgnoreUnsupported(w) \/ ResolveRoute(w) \/ StoreChange(w)) /\ UNCHANGED notif
  <2>1. \E z, route, status : Store(w, z, route, status)
    BY <1>4 DEF IgnoreUnsupported, ResolveRoute, StoreChange, IgnoreChange, StoreIgnored
  <2>2. \E n \in Notifications \ DOMAIN notif : \E row : notif' = Put(notif, n, row)
    BY <2>1 DEF Store
  <2> QED
    BY <1>4, <2>2 DEF Put
<1> QED
  BY <1>1, <1>2, <1>3, <1>4 DEF IngestStep

\* What happens in the ZGW APIs, and what is received, keeps the types.
LEMMA ZgwTypeOK ==
  ASSUME RouteInv, \/ EditDocument \/ PublishOther("other", NoZaak)
                   \/ \E z \in Zaken : LinkDocument(z) \/ ChangeMapping(z) \/ PublishOther("status", z)
                   \/ \E l \in 1..MaxLinks : UnlinkDocument(l)
                   \/ \E w \in Workers, e \in published : Receive(w, e)
  PROVE  TypeOK'
<1>t. TypeOK /\ MaxVersie \in Nat /\ MaxLinks \in Nat
  BY ConstantsAssumption DEF RouteInv
<1>1. CASE EditDocument
  <2>1. document' \in 1..MaxVersie
    BY <1>t, <1>1 DEF EditDocument, TypeOK
  <2>2. Notice("change", NoZaak, 0, document + 1) \in Event
    BY <1>t, <1>1, <2>1, NoticeIsEvent DEF EditDocument, AllKinds, DocumentKinds
  <2> QED
    BY <1>t, <1>1, <2>1, <2>2 DEF EditDocument, TypeOK, corsa
<1>2. ASSUME NEW z \in Zaken, LinkDocument(z) PROVE TypeOK'
  <2>1. lastLink + 1 \in 1..MaxLinks /\ lastLink' \in 0..MaxLinks
    BY <1>t, <1>2 DEF LinkDocument, TypeOK
  <2>2. Notice("link", z, lastLink + 1, 0) \in Event
    BY <1>t, <2>1, NoticeIsEvent DEF AllKinds, DocumentKinds
  <2>3. IsTable(links', 1..MaxLinks, Zaken)
    BY <1>t, <1>2, <2>1, PutIsTable DEF LinkDocument, TypeOK
  <2> QED
    BY <1>t, <1>2, <2>1, <2>2, <2>3 DEF LinkDocument, TypeOK, corsa
<1>3. ASSUME NEW l, UnlinkDocument(l) PROVE TypeOK'
  <2>1. IsTable(links', 1..MaxLinks, Zaken)
    BY <1>t, <1>3, DropIsTable DEF UnlinkDocument, TypeOK
  <2> QED
    BY <1>t, <1>3, <2>1 DEF UnlinkDocument, TypeOK, corsa
<1>4. ASSUME NEW kind \in {"other", "status"}, NEW z \in Zaken \cup {NoZaak}, PublishOther(kind, z)
      PROVE  TypeOK'
  <2>1. Notice(kind, z, 0, 0) \in Event
    BY <1>t, NoticeIsEvent DEF AllKinds
  <2> QED
    BY <1>t, <1>4, <2>1 DEF PublishOther, TypeOK, corsa
<1>5. ASSUME NEW z \in Zaken, ChangeMapping(z) PROVE TypeOK'
  BY <1>t, <1>5 DEF ChangeMapping, TypeOK, zgw, corsa
<1>6. ASSUME NEW w \in Workers, NEW e \in published, Receive(w, e) PROVE TypeOK'
  <2>1. [event |-> e, step |-> "received", zaken |-> {}] \in Ingest
    BY <1>t DEF TypeOK, Ingest
  <2>2. IsTable(reading', Workers, Ingest)
    BY <1>t, <1>6, <2>1, PutIsTable DEF Receive, TypeOK
  <2> QED
    BY <1>t, <1>6, <2>2 DEF Receive, TypeOK, zgw, corsa
<1> QED
  BY <1>1, <1>2, <1>3, <1>4, <1>5, <1>6

\* What is sent goes to a zaak that the document was linked to.
LEMMA SendTarget ==
  ASSUME RouteInv, NEW n \in DOMAIN sending
  PROVE  /\ n \in DOMAIN notif /\ n \in Notifications /\ DOMAIN sending = {n}
         /\ sending[n] \in 1..MaxVersie
         /\ Target(n) \in Zaken /\ HasLink(published, Target(n))
         /\ IsChange(n) \/ IsLink(n)
         /\ IsLink(n) => Target(n) = notif[n].zaak
<1>1. sending[n] \in 1..MaxVersie
  BY RowOfTable DEF RouteInv, TypeOK
<1>2. /\ n \in DOMAIN notif /\ DOMAIN sending = {n} /\ notif[n].event.kind \in DocumentKinds
      /\ IsChange(n) => HasLink(published, notif[n].zaak)
  BY DEF RouteInv, SendingInv
<1>3. n \in Notifications
  BY <1>2, RowOfTable DEF RouteInv, TypeOK
<1>4. IsLink(n) => HasLink(published, notif[n].zaak) /\ Target(n) = notif[n].zaak
  BY <1>2 DEF RouteInv, RowsInv, HasLink, IsLink, Target
<1>5. HasLink(published, Target(n))
  <2>1. CASE IsChange(n) /\ register # NoEntry
    BY <2>1 DEF RouteInv, SendingInv, Target, IsChange
  <2>2. CASE ~(IsChange(n) /\ register # NoEntry)
    BY <1>2, <1>4, <2>2 DEF Target, IsChange, IsLink, DocumentKinds
  <2> QED
    BY <2>1, <2>2
<1>6. Target(n) \in Zaken
  BY <1>5 DEF HasLink, RouteInv, PublishedInv
<1> QED
  BY <1>1, <1>2, <1>3, <1>4, <1>5, <1>6 DEF IsChange, IsLink, DocumentKinds

\* The jobs of a document keep the types.
LEMMA JobTypeOK ==
  ASSUME RouteInv, NEW n \in Notifications, JobStep(n)
  PROVE  TypeOK'
<1>t. TypeOK
  BY DEF RouteInv
<1>s. {"processed", "failed"} \subseteq Statuses
  BY DEF Statuses
<1>1. CASE AddDocument(n) \/ UpdateDocument(n)
  <2>1. /\ n \in DOMAIN notif /\ UNCHANGED <<zgw, mapping, reading, lost, register, shown, disruptions>>
        /\ \/ EndsAs(n, "processed") /\ UNCHANGED sending
           \/ sending' = Put(sending, n, document) /\ UNCHANGED notif
    BY <1>1 DEF AddDocument, UpdateDocument, Pending
  <2>2. IsTable(notif', Notifications, NotificationRow)
    BY <1>t, <1>s, <2>1, EndsRow DEF TypeOK
  <2>3. IsTable(sending', Notifications, 1..MaxVersie)
    BY <1>t, <2>1, PutIsTable DEF TypeOK
  <2> QED
    BY <1>t, <2>1, <2>2, <2>3 DEF TypeOK, zgw
<1>2. CASE FailDocument(n)
  <2>1. /\ n \in DOMAIN notif /\ UNCHANGED <<zgw, mapping, reading, lost, register, shown, disruptions>>
        /\ UNCHANGED notif \/ EndsAs(n, "failed")
        /\ sending' = Drop(sending, n)
    BY <1>2 DEF FailDocument, Pending
  <2>2. IsTable(notif', Notifications, NotificationRow) /\ IsTable(sending', Notifications, 1..MaxVersie)
    BY <1>t, <1>s, <2>1, EndsRow, DropIsTable DEF TypeOK
  <2> QED
    BY <1>t, <2>1, <2>2 DEF TypeOK, zgw
<1>3. ASSUME SendDocument(n) \/ SendFails(n)
      PROVE  /\ shown' \in [Zaken -> 0..MaxVersie] /\ n \in DOMAIN notif
             /\ [zaak |-> Target(n), versie |-> sending[n]] \in Entry
             /\ IsTable(sending', Notifications, 1..MaxVersie)
  <2>1. n \in DOMAIN sending /\ sending' = Drop(sending, n) /\ shown' = [shown EXCEPT ![Target(n)] = sending[n]]
    BY <1>3 DEF SendDocument, SendFails, ReachesCorsa
  <2>2. n \in DOMAIN notif /\ sending[n] \in 1..MaxVersie /\ Target(n) \in Zaken
    BY <2>1, SendTarget
  <2> QED
    BY <1>t, <2>1, <2>2, DropIsTable DEF TypeOK, Entry
<1>4. CASE SendDocument(n)
  <2>1. IsTable(notif', Notifications, NotificationRow)
    BY <1>t, <1>s, <1>3, <1>4, EndsRow DEF SendDocument
  <2> QED
    BY <1>t, <1>3, <1>4, <2>1 DEF SendDocument, TypeOK, zgw
<1>5. CASE SendFails(n)
  <2>1. IsTable(notif', Notifications, NotificationRow)
    BY <1>t, <1>s, <1>3, <1>5, EndsRow DEF SendFails, TypeOK
  <2>2. disruptions' \in Nat
    BY <1>t, <1>5 DEF SendFails, TypeOK
  <2> QED
    BY <1>t, <1>3, <1>5, <2>1, <2>2 DEF SendFails, TypeOK, zgw
<1> QED
  BY <1>1, <1>2, <1>4, <1>5 DEF JobStep

\* Types are kept by every step.
LEMMA StepTypeOK == RouteInv /\ [Next]_vars => TypeOK'
<1> SUFFICES ASSUME RouteInv, [Next]_vars PROVE TypeOK'
  OBVIOUS
<1>1. CASE UNCHANGED vars
  BY <1>1 DEF RouteInv, TypeOK, vars, zgw, corsa
<1>2. CASE Next
  BY <1>2, IngestTypeOK, ZgwTypeOK, JobTypeOK DEF Next
<1> QED
  BY <1>1, <1>2

(* What the steps of the ZGW APIs keep. *)

\* The zgw variables change only by a step of the ZGW APIs.
ZgwStep == EditDocument \/ PublishOther("other", NoZaak)
           \/ (\E z \in Zaken : LinkDocument(z) \/ PublishOther("status", z))
           \/ (\E l \in 1..MaxLinks : UnlinkDocument(l))

\* What happens in the ZGW APIs happens there only.
LEMMA ZgwSteps ==
  ASSUME RouteInv, Next
  PROVE  UNCHANGED zgw \/ (ZgwStep /\ UNCHANGED <<reading, notif, corsa>>)
<1>1. ASSUME ZgwStep PROVE UNCHANGED <<reading, notif, corsa>>
  BY <1>1 DEF ZgwStep, EditDocument, PublishOther, LinkDocument, UnlinkDocument
<1>2. ASSUME NEW z \in Zaken, ChangeMapping(z) PROVE UNCHANGED zgw
  BY <1>2 DEF ChangeMapping
<1>3. ASSUME NEW w \in Workers, NEW e, Receive(w, e) PROVE UNCHANGED zgw
  BY <1>3 DEF Receive
<1>4. ASSUME NEW w \in Workers, IngestStep(w) PROVE UNCHANGED zgw
  BY <1>4 DEF IngestStep, IgnoreUnsupported, CheckMapping, ResolveRoute, ReadLinks, StoreChange,
     IgnoreChange, IngestFails, StoreIgnored, Store
<1>5. ASSUME NEW n \in Notifications, JobStep(n) PROVE UNCHANGED zgw
  BY <1>5 DEF JobStep, AddDocument, UpdateDocument, SendDocument, SendFails, FailDocument
<1> QED
  BY <1>1, <1>2, <1>3, <1>4, <1>5 DEF Next, ZgwStep

\* Nothing that was published is taken back, and the document gets no older.
LEMMA PublishedGrows ==
  ASSUME RouteInv, Next
  PROVE  published \subseteq published' /\ document <= document' /\ document \in Nat /\ document' \in Nat
<1>t. document \in Nat
  BY ConstantsAssumption DEF RouteInv, TypeOK
<1>1. CASE UNCHANGED zgw
  BY <1>t, <1>1 DEF zgw
<1>2. CASE ZgwStep
  BY <1>t, <1>2 DEF ZgwStep, EditDocument, PublishOther, LinkDocument, UnlinkDocument
<1> QED
  BY <1>1, <1>2, ZgwSteps

\* Every step publishes what is there.
LEMMA StepPublishedInv ==
  ASSUME RouteInv, Next
  PROVE  PublishedInv'
<1>t. /\ PublishedInv /\ links \in [DOMAIN links -> Zaken] /\ document \in Nat /\ lastLink \in Nat
      /\ published \subseteq Event
  BY ConstantsAssumption DEF RouteInv, TypeOK, IsTable
<1>f. ASSUME NEW e, published' = published \cup {e} PROVE IsFiniteSet(published')
  BY <1>t, <1>f, FS_AddElement DEF PublishedInv
<1>n. \A e \in published : e.link \in Nat /\ e.versie \in Nat
  BY <1>t, ConstantsAssumption DEF Event
<1>0. CASE UNCHANGED zgw
  BY <1>t, <1>0 DEF PublishedInv, zgw
<1>1. CASE EditDocument
  <2> DEFINE new == Notice("change", NoZaak, 0, document + 1)
  <2>1. new.kind = "change" /\ new.link = 0 /\ new.versie = document + 1
    BY DEF Notice
  <2>2. /\ document' = document + 1 /\ published' = published \cup {new}
        /\ UNCHANGED <<links, lastLink>>
    BY <1>1 DEF EditDocument
  <2>3. Notice("change", NoZaak, 0, document') \in published'
    BY <2>2
  <2> HIDE DEF new
  <2>4. \A e \in published' :
          /\ e.kind \in {"link", "status"} => e.zaak \in Zaken
          /\ IF e.kind = "link" THEN e.link <= lastLink /\ (e.link \in DOMAIN links => links[e.link] = e.zaak)
             ELSE e.link = 0
          /\ e.kind = "change" => e.versie <= document'
    BY <1>t, <1>n, <2>1, <2>2 DEF PublishedInv
  <2> QED
    BY <1>t, <1>f, <2>2, <2>3, <2>4 DEF PublishedInv
<1>2. ASSUME NEW z \in Zaken, LinkDocument(z) PROVE PublishedInv'
  <2> DEFINE new == Notice("link", z, lastLink + 1, 0)
  <2>1. new.kind = "link" /\ new.link = lastLink + 1 /\ new.zaak = z
    BY DEF Notice
  <2>2. /\ document' = document /\ published' = published \cup {new} /\ lastLink' = lastLink + 1
        /\ links' = Put(links, lastLink + 1, z)
    BY <1>2 DEF LinkDocument
  <2>3. /\ DOMAIN links' = DOMAIN links \cup {lastLink + 1} /\ links'[lastLink + 1] = z
        /\ \A l \in DOMAIN links : l # lastLink + 1 => links'[l] = links[l]
        /\ \A l \in DOMAIN links : l \in Nat /\ l <= lastLink
    <3>1. \A l \in DOMAIN links : l <= lastLink /\ l \in Nat
      BY <1>t, ConstantsAssumption DEF PublishedInv, RouteInv, TypeOK, IsTable
    <3> QED
      BY <2>2, <3>1 DEF Put
  <2> HIDE DEF new
  <2>4. ASSUME NEW e \in published'
        PROVE  /\ e.kind \in {"link", "status"} => e.zaak \in Zaken
               /\ IF e.kind = "link" THEN e.link <= lastLink' /\ (e.link \in DOMAIN links' => links'[e.link] = e.zaak)
                  ELSE e.link = 0
               /\ e.kind = "change" => e.versie <= document'
    <3>1. CASE e = new
      BY <1>t, <2>1, <2>2, <2>3, <3>1
    <3>2. CASE e \in published
      <4>1. e.kind = "link" => e.link <= lastLink /\ e.link # lastLink + 1
        BY <1>t, <1>n, <3>2 DEF PublishedInv
      <4> QED
        BY <1>t, <1>n, <2>2, <2>3, <3>2, <4>1 DEF PublishedInv
    <3> QED
      BY <2>2, <2>4, <3>1, <3>2
  <2>5. ASSUME NEW l \in DOMAIN links'
        PROVE  l <= lastLink' /\ Notice("link", links'[l], l, 0) \in published'
    <3>1. CASE l = lastLink + 1
      BY <1>t, <2>2, <2>3, <3>1 DEF new
    <3>2. CASE l # lastLink + 1
      BY <1>t, <2>2, <2>3, <2>5, <3>2 DEF PublishedInv
    <3> QED
      BY <3>1, <3>2
  <2>6. document' > 1 => Notice("change", NoZaak, 0, document') \in published'
    BY <1>t, <2>2 DEF PublishedInv
  <2> QED
    BY <1>f, <2>2, <2>4, <2>5, <2>6 DEF PublishedInv
<1>3. ASSUME NEW l, UnlinkDocument(l) PROVE PublishedInv'
  <2>1. links' = Drop(links, l) /\ UNCHANGED <<document, published, lastLink>>
    BY <1>3 DEF UnlinkDocument
  <2>2. DOMAIN links' \subseteq DOMAIN links /\ \A k \in DOMAIN links' : links'[k] = links[k]
    BY <2>1 DEF Drop
  <2> QED
    BY <1>t, <2>1, <2>2 DEF PublishedInv
<1>4. ASSUME NEW kind \in {"other", "status"}, NEW z, kind = "status" => z \in Zaken, PublishOther(kind, z)
      PROVE  PublishedInv'
  <2> DEFINE new == Notice(kind, z, 0, 0)
  <2>1. new.kind = kind /\ new.zaak = z /\ new.link = 0 /\ kind # "link" /\ kind # "change"
    BY DEF Notice
  <2>2. published' = published \cup {new} /\ UNCHANGED <<document, links, lastLink>>
    BY <1>4 DEF PublishOther
  <2> HIDE DEF new
  <2> QED
    BY <1>t, <1>f, <1>4, <2>1, <2>2 DEF PublishedInv
<1> QED
  BY <1>0, <1>1, <1>2, <1>3, <1>4, ZgwSteps DEF ZgwStep

(* What the steps do to the ingests and to the rows. *)

\* A row is an old one, of which a job may have set the status, or what an ingest stored.
LEMMA NotifSteps ==
  ASSUME RouteInv, Next, NEW n \in DOMAIN notif'
  PROVE  \/ /\ n \in DOMAIN notif /\ notif'[n].event = notif[n].event /\ notif'[n].zaak = notif[n].zaak
            /\ notif'[n].status = notif[n].status
               \/ (notif'[n].status = "processed" /\ (AddDocument(n) \/ UpdateDocument(n) \/ SendDocument(n)))
               \/ notif'[n].status = "failed"
         \/ /\ n \notin DOMAIN notif /\ UNCHANGED <<zgw, corsa>>
            /\ \E w \in DOMAIN reading :
                 /\ notif'[n].event = reading[w].event
                 /\ reading[w].event.kind = "link" => notif'[n].zaak = reading[w].event.zaak
                 /\ notif'[n].status # "processed"
                 /\ notif'[n].status \in {"unsupported_channel", "unsupported_action"} =>
                      reading[w].event.kind = "other"
                 /\ notif'[n].status = "document_not_linked" =>
                      reading[w].event.kind = "change" /\ reading[w].step = "linked"
                      /\ reading[w].zaken = {}
                 /\ notif'[n].status = "pending" /\ reading[w].event.kind = "change" =>
                      notif'[n].zaak \in reading[w].zaken
<1> DEFINE Old == /\ n \in DOMAIN notif /\ notif'[n].event = notif[n].event
                  /\ notif'[n].zaak = notif[n].zaak
                  /\ notif'[n].status = notif[n].status
                     \/ (notif'[n].status = "processed"
                         /\ (AddDocument(n) \/ UpdateDocument(n) \/ SendDocument(n)))
                     \/ notif'[n].status = "failed"
           New == /\ n \notin DOMAIN notif /\ UNCHANGED <<zgw, corsa>>
                  /\ \E w \in DOMAIN reading :
                       /\ notif'[n].event = reading[w].event
                       /\ reading[w].event.kind = "link" => notif'[n].zaak = reading[w].event.zaak
                       /\ notif'[n].status # "processed"
                       /\ notif'[n].status \in {"unsupported_channel", "unsupported_action"} =>
                            reading[w].event.kind = "other"
                       /\ notif'[n].status = "document_not_linked" =>
                            reading[w].event.kind = "change" /\ reading[w].step = "linked"
                            /\ reading[w].zaken = {}
                       /\ notif'[n].status = "pending" /\ reading[w].event.kind = "change" =>
                            notif'[n].zaak \in reading[w].zaken
<1> SUFFICES Old \/ New
  OBVIOUS
<1>t. TypeOK
  BY DEF RouteInv
<1>0. ASSUME UNCHANGED notif PROVE Old
  BY <1>0
<1>1. ASSUME NEW w \in Workers, IngestStep(w) PROVE Old \/ New
  <2>1. CASE UNCHANGED notif
    BY <1>0, <2>1
  <2>2. CASE ~UNCHANGED notif
    <3>1. PICK z \in Zaken \cup {NoZaak}, route \in {"batch", "direct"}, status \in Statuses :
            /\ w \in DOMAIN reading
            /\ Store(w, z, route, status)
            /\ status # "processed"
            /\ reading[w].event.kind = "link" => z = reading[w].event.zaak
            /\ status \in {"unsupported_channel", "unsupported_action"} => reading[w].event.kind = "other"
            /\ status = "document_not_linked" =>
                 reading[w].event.kind = "change" /\ reading[w].step = "linked" /\ reading[w].zaken = {}
            /\ status = "pending" /\ reading[w].event.kind = "change" => z \in reading[w].zaken
      BY <1>1, <2>2, StoreSteps
    <3>2. PICK k \in Notifications \ DOMAIN notif :
            /\ DOMAIN notif' = DOMAIN notif \cup {k}
            /\ \A m \in DOMAIN notif : notif'[m] = notif[m]
            /\ notif'[k].event = reading[w].event /\ notif'[k].zaak = z /\ notif'[k].status = status
      <4>1. PICK k \in Notifications \ DOMAIN notif :
              notif' = Put(notif, k, [event |-> reading[w].event, zaak |-> z,
                                      route |-> route, status |-> status])
        BY <3>1 DEF Store
      <4> QED
        BY <4>1 DEF Put
    <3>3. UNCHANGED <<zgw, corsa>>
      BY <3>1 DEF Store
    <3>4. CASE n = k
      BY <3>1, <3>2, <3>3, <3>4
    <3>5. CASE n # k
      BY <3>2, <3>5
    <3> QED
      BY <3>4, <3>5
  <2> QED
    BY <2>1, <2>2
<1>2. ASSUME NEW k \in Notifications, JobStep(k) PROVE Old
  <2>1. CASE UNCHANGED notif
    BY <1>0, <2>1
  <2>2. CASE ~UNCHANGED notif
    <3>1. PICK status \in {"processed", "failed"} :
            /\ k \in DOMAIN notif /\ EndsAs(k, status)
            /\ status = "processed" => AddDocument(k) \/ UpdateDocument(k) \/ SendDocument(k)
      BY <1>2, <2>2, SendTarget DEF JobStep, AddDocument, UpdateDocument, SendDocument, SendFails, FailDocument, Pending
    <3>2. /\ DOMAIN notif' = DOMAIN notif
          /\ notif'[k].event = notif[k].event /\ notif'[k].zaak = notif[k].zaak
          /\ notif'[k].status = status
          /\ \A m \in DOMAIN notif \ {k} : notif'[m] = notif[m]
      BY <1>t, <3>1, EndsRow DEF Statuses
    <3>3. CASE n = k
      BY <3>1, <3>2, <3>3
    <3>4. CASE n # k
      BY <3>2, <3>4
    <3> QED
      BY <3>3, <3>4
  <2> QED
    BY <2>1, <2>2
<1>3. ASSUME NEW w \in Workers, NEW e, Receive(w, e) PROVE Old
  BY <1>0, <1>3 DEF Receive
<1>4. ASSUME NEW z \in Zaken, ChangeMapping(z) PROVE Old
  BY <1>0, <1>4 DEF ChangeMapping
<1>5. ASSUME ZgwStep PROVE Old
  BY <1>0, <1>5 DEF ZgwStep, EditDocument, PublishOther, LinkDocument, UnlinkDocument
<1> HIDE DEF Old, New
<1> QED
  BY <1>1, <1>2, <1>3, <1>4, <1>5 DEF Next, ZgwStep

\* An ingest is an old one, a new one, or has read a mapping or the links.
LEMMA ReadingSteps ==
  ASSUME RouteInv, Next, NEW w \in DOMAIN reading'
  PROVE  \/ w \in DOMAIN reading /\ reading'[w] = reading[w]
         \/ w \in DOMAIN reading /\ reading'[w].event = reading[w].event /\ reading'[w].step = "accepted"
            /\ reading'[w].zaken = reading[w].zaken
         \/ /\ w \in DOMAIN reading /\ reading'[w].event = reading[w].event
            /\ reading[w].event.kind = "change" /\ reading'[w].step = "linked"
            /\ reading'[w].zaken = {links[l] : l \in DOMAIN links} /\ UNCHANGED <<links, corsa, notif>>
         \/ reading'[w].event \in published /\ reading'[w].step = "received" /\ reading'[w].zaken = {}
<1> DEFINE Old == w \in DOMAIN reading /\ reading'[w] = reading[w]
           Accepted == /\ w \in DOMAIN reading /\ reading'[w].event = reading[w].event
                       /\ reading'[w].step = "accepted" /\ reading'[w].zaken = reading[w].zaken
           Links == /\ w \in DOMAIN reading /\ reading'[w].event = reading[w].event
                    /\ reading[w].event.kind = "change" /\ reading'[w].step = "linked"
                    /\ reading'[w].zaken = {links[l] : l \in DOMAIN links}
                    /\ UNCHANGED <<links, corsa, notif>>
           Received == /\ reading'[w].event \in published /\ reading'[w].step = "received"
                       /\ reading'[w].zaken = {}
<1> SUFFICES Old \/ Accepted \/ Links \/ Received
  OBVIOUS
<1>t. TypeOK
  BY DEF RouteInv
<1>0. ASSUME UNCHANGED reading PROVE Old
  BY <1>0
<1>1. ASSUME NEW v \in Workers, IngestStep(v) PROVE Old \/ Accepted \/ Links
  <2>1. CASE ~UNCHANGED notif \/ IngestFails(v)
    <3>1. reading' = Drop(reading, v)
      BY <1>1, <2>1, StoreSteps DEF Store, IngestFails
    <3> QED
      BY <3>1 DEF Drop
  <2>2. CASE (CheckMapping(v) \/ ReadLinks(v)) /\ UNCHANGED notif
    <3>1. v \in DOMAIN reading /\ UNCHANGED <<zgw, mapping, lost, corsa, disruptions>>
      BY <2>2, ReadSteps
    <3>2. reading[v].zaken \in SUBSET Zaken
      <4>1. reading[v] \in Ingest
        BY <1>t, <3>1, RowOfTable DEF TypeOK
      <4> QED
        BY <4>1 DEF Ingest
    <3>3. {links[l] : l \in DOMAIN links} \in SUBSET Zaken
      BY <1>t DEF TypeOK, IsTable
    <3>4. /\ \A u \in DOMAIN reading \ {v} : reading'[u] = reading[u]
          /\ DOMAIN reading' = DOMAIN reading
          /\ reading'[v].event = reading[v].event
          /\ \/ reading'[v].step = "accepted" /\ reading'[v].zaken = reading[v].zaken
             \/ /\ reading[v].event.kind = "change" /\ reading'[v].step = "linked"
                /\ reading'[v].zaken = {links[l] : l \in DOMAIN links}
      BY <1>t, <2>2, <3>1, <3>2, <3>3, ReadSteps, IngestGoesOn
    <3> QED
      BY <2>2, <3>1, <3>4 DEF zgw
  <2>3. CASE (IgnoreUnsupported(v) \/ ResolveRoute(v) \/ StoreChange(v)) /\ UNCHANGED notif
    <3>1. \E z, route, status : Store(v, z, route, status)
      BY <2>3 DEF IgnoreUnsupported, ResolveRoute, StoreChange, IgnoreChange, StoreIgnored
    <3>2. reading' = Drop(reading, v)
      BY <3>1 DEF Store
    <3> QED
      BY <3>2 DEF Drop
  <2> QED
    BY <1>1, <2>1, <2>2, <2>3 DEF IngestStep
<1>2. ASSUME NEW n \in Notifications, JobStep(n) PROVE Old
  BY <1>0, <1>2 DEF JobStep, AddDocument, UpdateDocument, SendDocument, SendFails, FailDocument
<1>3. ASSUME NEW v \in Workers, NEW e \in published, Receive(v, e) PROVE Old \/ Received
  <2>1. reading' = Put(reading, v, [event |-> e, step |-> "received", zaken |-> {}])
    BY <1>3 DEF Receive
  <2> QED
    BY <2>1 DEF Put
<1>4. ASSUME NEW z \in Zaken, ChangeMapping(z) PROVE Old
  BY <1>0, <1>4 DEF ChangeMapping
<1>5. ASSUME ZgwStep PROVE Old
  BY <1>0, <1>5 DEF ZgwStep, EditDocument, PublishOther, LinkDocument, UnlinkDocument
<1> HIDE DEF Old, Accepted, Links, Received
<1> QED
  BY <1>1, <1>2, <1>3, <1>4, <1>5 DEF Next, ZgwStep

\* A zaak that had a link has had it ever since.
LEMMA LinkStays ==
  ASSUME RouteInv, Next, NEW z, HasLink(published, z)
  PROVE  HasLink(published', z)
BY PublishedGrows DEF HasLink

\* The links that are there were made for their zaken.
LEMMA LinksWereMade ==
  ASSUME RouteInv, NEW z \in {links[l] : l \in DOMAIN links}
  PROVE  HasLink(published, z)
<1>1. PICK l \in DOMAIN links : z = links[l]
  OBVIOUS
<1>2. Notice("link", links[l], l, 0) \in published
  BY DEF RouteInv, PublishedInv
<1>3. Notice("link", links[l], l, 0).kind = "link" /\ Notice("link", links[l], l, 0).zaak = links[l]
  BY DEF Notice
<1> QED
  BY <1>1, <1>2, <1>3 DEF HasLink

\* Every row that is stored is about what was published.
LEMMA StepRowsInv ==
  ASSUME RouteInv, Next
  PROVE  RowsInv'
<1>t. RowsInv
  BY DEF RouteInv
<1>1. ASSUME NEW w \in DOMAIN reading'
      PROVE  /\ reading'[w].event \in published'
             /\ \A z \in reading'[w].zaken : HasLink(published', z)
             /\ reading'[w].step = "linked" => reading'[w].event.kind = "change"
  <2>1. /\ reading'[w].event \in published'
        /\ reading'[w].step = "linked" => reading'[w].event.kind = "change"
    BY <1>t, ReadingSteps, PublishedGrows DEF RowsInv
  <2>2. \/ w \in DOMAIN reading /\ reading'[w].zaken = reading[w].zaken
        \/ reading'[w].zaken = {links[l] : l \in DOMAIN links}
        \/ reading'[w].zaken = {}
    BY ReadingSteps
  <2>3. \A z \in reading'[w].zaken : HasLink(published, z)
    BY <1>t, <2>2, LinksWereMade DEF RowsInv
  <2> QED
    BY <2>1, <2>3, LinkStays
<1>2. ASSUME NEW n \in DOMAIN notif'
      PROVE  /\ notif'[n].event \in published'
             /\ IsLink(n)' => notif'[n].zaak = notif'[n].event.zaak
             /\ notif'[n].status \in {"unsupported_channel", "unsupported_action"} =>
                  notif'[n].event.kind = "other"
             /\ notif'[n].status = "document_not_linked" => IsChange(n)'
  BY <1>t, NotifSteps, PublishedGrows DEF RowsInv, IsLink, IsChange
<1>3. ASSUME NEW n \in DOMAIN notif', IsChange(n)', notif'[n].status = "pending"
      PROVE  HasLink(published', notif'[n].zaak)
  <2>1. HasLink(published, notif'[n].zaak)
    <3>1. CASE /\ n \in DOMAIN notif /\ notif'[n].event = notif[n].event /\ notif'[n].zaak = notif[n].zaak
               /\ notif'[n].status = notif[n].status
      BY <1>t, <1>3, <3>1 DEF RowsInv, IsChange
    <3>2. CASE \E w \in DOMAIN reading : /\ notif'[n].event = reading[w].event
                                         /\ reading[w].event.kind = "change" => notif'[n].zaak \in reading[w].zaken
      BY <1>t, <1>3, <3>2 DEF RowsInv, IsChange
    <3> QED
      BY <1>3, <3>1, <3>2, NotifSteps
  <2> QED
    BY <2>1, LinkStays
<1> QED
  BY <1>1, <1>2, <1>3 DEF RowsInv

\* No step deletes a row.
LEMMA RowsRemain ==
  ASSUME RouteInv, Next
  PROVE  DOMAIN notif \subseteq DOMAIN notif'
<1>t. TypeOK
  BY DEF RouteInv
<1>1. ASSUME NEW w \in Workers, IngestStep(w) PROVE DOMAIN notif \subseteq DOMAIN notif'
  <2>1. CASE ~UNCHANGED notif
    <3>1. PICK z \in Zaken \cup {NoZaak}, route \in {"batch", "direct"}, status \in Statuses :
            w \in DOMAIN reading /\ Store(w, z, route, status)
      BY <1>1, <2>1, StoreSteps
    <3> QED
      BY <3>1 DEF Store, Put
  <2> QED
    BY <2>1
<1>2. ASSUME NEW n \in Notifications, JobStep(n) PROVE DOMAIN notif' = DOMAIN notif
  BY <1>2 DEF JobStep, AddDocument, UpdateDocument, SendDocument, SendFails, FailDocument, EndsAs
<1>3. ASSUME UNCHANGED notif PROVE DOMAIN notif \subseteq DOMAIN notif'
  BY <1>3
<1> QED
  BY <1>1, <1>2, <1>3 DEF Next, EditDocument, PublishOther, LinkDocument, ChangeMapping, UnlinkDocument,
     Receive

(* What the jobs do to the document. *)

\* The register, the lock and what Corsa shows change only by a job on the document.
LEMMA CorsaSteps ==
  ASSUME RouteInv, Next
  PROVE  UNCHANGED corsa \/ \E n \in Notifications : JobStep(n)
<1>1. ASSUME NEW w \in Workers, IngestStep(w) PROVE UNCHANGED corsa
  BY <1>1 DEF corsa, IngestStep, IgnoreUnsupported, CheckMapping, ResolveRoute, ReadLinks, StoreChange,
     IgnoreChange, IngestFails, StoreIgnored, Store
<1>2. ASSUME NEW w \in Workers, NEW e \in published, Receive(w, e) PROVE UNCHANGED corsa
  BY <1>2 DEF corsa, Receive
<1>3. ASSUME \/ EditDocument \/ PublishOther("other", NoZaak)
             \/ \E z \in Zaken : LinkDocument(z) \/ ChangeMapping(z) \/ PublishOther("status", z)
             \/ \E l \in 1..MaxLinks : UnlinkDocument(l)
      PROVE  UNCHANGED corsa
  BY <1>3 DEF corsa, EditDocument, PublishOther, LinkDocument, ChangeMapping, UnlinkDocument
<1> QED
  BY <1>1, <1>2, <1>3 DEF Next

\* What reaches Corsa makes one zaak show the version that was fetched.
LEMMA ReachSteps ==
  ASSUME RouteInv, NEW n \in DOMAIN sending, ReachesCorsa(n)
  PROVE  /\ sending[n] \in Nat /\ shown'[Target(n)] = sending[n]
         /\ \A z \in Zaken : shown'[z] \in Nat /\ shown[z] \in Nat /\ shown[z] <= shown'[z]
                             /\ shown'[z] <= document
<1>t. /\ SendingInv /\ MaxVersie \in Nat /\ shown \in [Zaken -> 0..MaxVersie] /\ document \in Nat
  BY ConstantsAssumption DEF RouteInv, TypeOK
<1>1. shown' = [shown EXCEPT ![Target(n)] = sending[n]]
  BY DEF ReachesCorsa
<1>2. sending[n] \in 1..MaxVersie /\ Target(n) \in Zaken
  BY SendTarget
<1>3. sending[n] <= document /\ \A z \in Zaken : shown[z] <= sending[n] /\ shown[z] <= document
  BY <1>t DEF SendingInv
<1>4. /\ shown'[Target(n)] = sending[n] /\ sending[n] \in Nat
      /\ \A z \in Zaken : shown'[z] = IF z = Target(n) THEN sending[n] ELSE shown[z]
  BY <1>t, <1>1, <1>2
<1> QED
  BY <1>t, <1>2, <1>3, <1>4

\* What a job that sends does: one zaak shows the version it fetched, which is registered when
\* the job is a change or the first.
LEMMA SendSteps ==
  ASSUME RouteInv, NEW n \in Notifications, SendDocument(n)
  PROVE  /\ n \in DOMAIN sending /\ DOMAIN sending' = {} /\ UNCHANGED document /\ ReachesCorsa(n)
         /\ register' # NoEntry /\ register'.versie <= shown'[register'.zaak]
         /\ IF IsChange(n) \/ register = NoEntry THEN register'.zaak = Target(n) ELSE register' = register
         /\ register # NoEntry => register'.zaak = register.zaak
<1>t. TypeOK /\ SendingInv /\ MaxVersie \in Nat
  BY ConstantsAssumption DEF RouteInv
<1>1. /\ n \in DOMAIN sending /\ sending' = Drop(sending, n) /\ ReachesCorsa(n)
      /\ register' = IF IsChange(n) \/ register = NoEntry
                     THEN [zaak |-> Target(n), versie |-> sending[n]] ELSE register
      /\ UNCHANGED document
  BY DEF SendDocument, IsChange, zgw
<1>2. DOMAIN sending = {n} /\ sending[n] \in 1..MaxVersie /\ Target(n) \in Zaken
  BY <1>1, SendTarget
<1>3. DOMAIN sending' = {}
  BY <1>1, <1>2 DEF Drop
<1>4. /\ sending[n] \in Nat /\ shown'[Target(n)] = sending[n]
      /\ \A z \in Zaken : shown'[z] \in Nat /\ shown[z] \in Nat /\ shown[z] <= shown'[z]
  BY <1>1, ReachSteps
<1>5. register' # NoEntry /\ register'.versie <= shown'[register'.zaak]
  <2>1. CASE IsChange(n) \/ register = NoEntry
    <3>1. [zaak |-> Target(n), versie |-> sending[n]] \in Entry
      BY <1>2 DEF Entry
    <3> QED
      BY <1>1, <1>4, <2>1, <3>1, NoEntryAssumption
  <2>2. CASE ~IsChange(n) /\ register # NoEntry
    <3>1. register \in Entry /\ register.versie <= shown[register.zaak]
      BY <1>t, <2>2 DEF SendingInv, TypeOK
    <3>2. register.zaak \in Zaken /\ register.versie \in Nat
      BY <1>t, <3>1 DEF Entry
    <3> QED
      BY <1>1, <1>4, <2>2, <3>1, <3>2
  <2> QED
    BY <2>1, <2>2
<1>6. IsChange(n) /\ register # NoEntry => Target(n) = register.zaak
  BY DEF Target, IsChange
<1> QED
  BY <1>1, <1>3, <1>5, <1>6

\* What a job that fails after it reached Corsa does: the register and the rows that are
\* processed stay as they are.
LEMMA FailSteps ==
  ASSUME RouteInv, NEW n \in Notifications, SendFails(n)
  PROVE  /\ n \in DOMAIN sending /\ DOMAIN sending' = {} /\ ReachesCorsa(n)
         /\ UNCHANGED <<zgw, register>>
         /\ \A m \in DOMAIN notif : notif'[m].status = "processed" => notif[m].status = "processed"
<1>1. /\ n \in DOMAIN sending /\ sending' = Drop(sending, n) /\ ReachesCorsa(n)
      /\ UNCHANGED <<zgw, register>> /\ (UNCHANGED notif \/ EndsAs(n, "failed"))
  BY DEF SendFails
<1>2. DOMAIN sending = {n} /\ n \in DOMAIN notif
  BY <1>1, SendTarget
<1>3. DOMAIN sending' = {}
  BY <1>1, <1>2 DEF Drop
<1>4. TypeOK /\ "failed" \in Statuses
  BY DEF RouteInv, Statuses
<1>5. \A m \in DOMAIN notif : notif'[m].status = "processed" => notif[m].status = "processed"
  <2>1. CASE UNCHANGED notif
    BY <2>1
  <2>2. CASE EndsAs(n, "failed")
    <3>1. notif'[n].status = "failed" /\ \A m \in DOMAIN notif \ {n} : notif'[m] = notif[m]
      BY <1>2, <1>4, <2>2, EndsRow
    <3> QED
      BY <3>1
  <2> QED
    BY <1>1, <2>1, <2>2
<1> QED
  BY <1>1, <1>3, <1>5

\* Every version that is sent is as new as any that was.
LEMMA StepSendingInv ==
  ASSUME RouteInv, Next
  PROVE  SendingInv'
<1>t. /\ TypeOK /\ SendingInv /\ RowsInv /\ MaxVersie \in Nat /\ document \in Nat /\ document' \in Nat
      /\ published \subseteq published' /\ document <= document'
  BY ConstantsAssumption, PublishedGrows DEF RouteInv
<1>v. \A n \in DOMAIN notif : notif[n].event.versie \in Nat
  <2>1. \A n \in DOMAIN notif : notif[n].event \in Event
    BY <1>t DEF RowsInv, TypeOK
  <2> QED
    BY <1>t, <2>1 DEF Event
<1>z. \A z \in Zaken : shown[z] \in Nat
  BY <1>t DEF TypeOK
<1>e. register # NoEntry => register.zaak \in Zaken /\ register.versie \in Nat
  BY <1>t DEF TypeOK, Entry
<1>n. \A n \in DOMAIN notif : /\ n \in DOMAIN notif' /\ notif'[n].event = notif[n].event
                              /\ IsChange(n)' <=> IsChange(n)
  <2>1. DOMAIN notif \subseteq DOMAIN notif'
    BY RowsRemain
  <2> QED
    BY <2>1, NotifSteps DEF IsChange
\* The row of a change that is new among the processed ones was just handled.
<1>p. ASSUME NEW n \in DOMAIN notif', notif'[n].status = "processed", IsChange(n)'
      PROVE  /\ n \in DOMAIN notif /\ IsChange(n) /\ notif'[n].event = notif[n].event
             /\ notif[n].status = "processed" \/ UpdateDocument(n) \/ SendDocument(n)
  <2>1. n \in DOMAIN notif /\ IsChange(n) /\ notif'[n].event = notif[n].event
    BY <1>p, NotifSteps DEF IsChange
  <2>2. ~AddDocument(n)
    BY <2>1 DEF AddDocument, Pending, IsChange
  <2> QED
    BY <1>p, <2>1, <2>2, NotifSteps
\* The zaak of a change that is sent has its link still.
<1>h. \A n \in DOMAIN notif : IsChange(n) /\ HasLink(published, notif[n].zaak) => notif'[n].zaak = notif[n].zaak /\ HasLink(published', notif[n].zaak)
  <2>1. \A n \in DOMAIN notif : n \in DOMAIN notif' => notif'[n].zaak = notif[n].zaak
    BY NotifSteps
  <2> QED
    BY <1>n, <2>1, LinkStays
<1>l. register # NoEntry => HasLink(published', register.zaak)
  BY <1>t, LinkStays DEF SendingInv
<1>1. CASE UNCHANGED corsa
  <2>1. ASSUME NEW n \in DOMAIN notif', notif'[n].status = "processed", IsChange(n)'
        PROVE  register # NoEntry /\ notif'[n].event.versie <= shown[register.zaak]
    <3>1. CASE notif[n].status = "processed"
      BY <1>t, <1>p, <2>1, <3>1 DEF SendingInv
    <3>2. CASE UpdateDocument(n)
      <4>1. /\ notif[n].event \in published /\ notif[n].event.kind = "change"
            /\ (register # NoEntry /\ document <= register.versie) \/ sending' = Put(sending, n, document)
        BY <1>t, <1>p, <2>1, <3>2 DEF UpdateDocument, UpToDate, RowsInv, IsChange
      <4>2. notif[n].event.versie <= document
        BY <4>1 DEF RouteInv, PublishedInv
      <4>3. ~(sending' = Put(sending, n, document))
        <5>1. sending = Empty
          BY <3>2 DEF UpdateDocument
        <5>2. DOMAIN sending = {} /\ n \in DOMAIN Put(sending, n, document)
          BY <5>1 DEF Empty, Put
        <5> QED
          BY <1>1, <5>2 DEF corsa
      <4>4. register # NoEntry /\ register.versie <= shown[register.zaak]
        BY <1>t, <4>1, <4>3 DEF SendingInv
      <4> QED
        BY <1>t, <1>v, <1>z, <1>e, <1>p, <2>1, <4>1, <4>2, <4>3, <4>4
    <3>3. CASE SendDocument(n)
      <4>1. n \in DOMAIN sending /\ DOMAIN sending' = {}
        BY <1>t, <1>p, <2>1, <3>3, SendSteps DEF TypeOK, IsTable
      <4> QED
        BY <1>1, <4>1 DEF corsa
    <3> QED
      BY <1>p, <2>1, <3>1, <3>2, <3>3
  <2>2. \A z \in Zaken : shown[z] <= document'
    BY <1>t, <1>z DEF SendingInv
  <2>3. \A n \in DOMAIN sending : sending[n] \in Nat /\ sending[n] <= document'
    <3>1. \A n \in DOMAIN sending : sending[n] \in Nat
      BY <1>t DEF TypeOK, IsTable
    <3> QED
      BY <1>t, <3>1 DEF SendingInv
  <2>4. shown' = shown /\ sending' = sending /\ register' = register
    BY <1>1 DEF corsa
  <2>5. ASSUME NEW n \in DOMAIN sending
        PROVE  /\ n \in DOMAIN notif' /\ notif'[n].event.kind \in DocumentKinds
               /\ sending[n] <= document' /\ \A z \in Zaken : shown[z] <= sending[n]
               /\ IsChange(n)' => HasLink(published', notif'[n].zaak) /\ notif'[n].event.versie <= sending[n]
               /\ \A m \in DOMAIN sending : m = n
    BY <1>t, <1>n, <1>h, <2>3 DEF SendingInv
  <2> QED
    BY <1>t, <1>l, <2>1, <2>2, <2>4, <2>5 DEF SendingInv
<1>2. ASSUME NEW n \in Notifications, SendDocument(n) PROVE SendingInv'
  <2>1. /\ n \in DOMAIN sending /\ DOMAIN sending' = {} /\ UNCHANGED document
        /\ \A z \in Zaken : shown'[z] \in Nat /\ shown[z] <= shown'[z] /\ shown'[z] <= document
        /\ register' # NoEntry /\ register'.versie <= shown'[register'.zaak]
        /\ register # NoEntry => register'.zaak = register.zaak
    BY <1>2, SendSteps, ReachSteps
  <2>2. HasLink(published', register'.zaak)
    <3>1. CASE register # NoEntry
      BY <1>l, <2>1, <3>1
    <3>2. CASE register = NoEntry
      BY <1>2, <2>1, <3>2, SendSteps, SendTarget, LinkStays
    <3> QED
      BY <3>1, <3>2
  <2>3. ASSUME NEW m \in DOMAIN notif', notif'[m].status = "processed", IsChange(m)'
        PROVE  notif'[m].event.versie <= shown'[register'.zaak]
    <3>1. CASE notif[m].status = "processed"
      <4>1. /\ register # NoEntry /\ notif'[m].event.versie <= shown[register.zaak]
            /\ notif'[m].event.versie \in Nat
        BY <1>t, <1>v, <1>p, <2>3, <3>1 DEF SendingInv
      <4>2. register'.zaak = register.zaak
        BY <2>1, <4>1
      <4> QED
        BY <1>z, <1>e, <2>1, <4>1, <4>2
    <3>2. CASE UpdateDocument(m)
      <4>1. sending = Empty
        BY <3>2 DEF UpdateDocument
      <4> QED
        BY <2>1, <4>1 DEF Empty
    <3>3. CASE SendDocument(m)
      <4>1. m \in DOMAIN sending
        BY <3>3 DEF SendDocument
      <4>2. m = n
        BY <1>t, <2>1, <4>1 DEF SendingInv
      <4>3. shown'[register'.zaak] = sending[n]
        BY <1>2, <1>p, <2>1, <2>3, <4>2, SendSteps, ReachSteps
      <4> QED
        BY <1>t, <1>p, <2>1, <2>3, <4>2, <4>3 DEF SendingInv
    <3> QED
      BY <1>p, <2>3, <3>1, <3>2, <3>3
  <2> QED
    BY <2>1, <2>2, <2>3 DEF SendingInv
<1>3. ASSUME NEW n \in Notifications, AddDocument(n) \/ UpdateDocument(n) \/ FailDocument(n)
      PROVE  SendingInv'
  <2>1. UNCHANGED <<document, shown, register>>
    BY <1>3 DEF AddDocument, UpdateDocument, FailDocument, zgw
  <2>2. \/ DOMAIN sending' \subseteq DOMAIN sending /\ \A m \in DOMAIN sending' : sending'[m] = sending[m]
        \/ /\ sending' = Put(sending, n, document) /\ sending = Empty
           /\ n \in DOMAIN notif /\ notif[n].event.kind \in DocumentKinds
           /\ IsChange(n) => HasLink(published, notif[n].zaak)
    BY <1>3, <1>t DEF AddDocument, UpdateDocument, FailDocument, Drop, Pending, IsChange, DocumentKinds, RowsInv
  <2>3. ASSUME NEW m \in DOMAIN sending'
        PROVE  /\ m \in DOMAIN notif /\ notif[m].event.kind \in DocumentKinds
               /\ sending'[m] <= document /\ \A z \in Zaken : shown[z] <= sending'[m]
               /\ IsChange(m) => HasLink(published, notif[m].zaak) /\ notif[m].event.versie <= sending'[m]
               /\ \A k \in DOMAIN sending' : k = m
    <3>1. CASE DOMAIN sending' \subseteq DOMAIN sending /\ \A k \in DOMAIN sending' : sending'[k] = sending[k]
      BY <1>t, <2>3, <3>1 DEF SendingInv
    <3>2. CASE /\ sending' = Put(sending, n, document) /\ sending = Empty
               /\ n \in DOMAIN notif /\ notif[n].event.kind \in DocumentKinds
               /\ IsChange(n) => HasLink(published, notif[n].zaak)
      <4>1. DOMAIN sending' = {n} /\ sending'[n] = document
        BY <3>2 DEF Empty, Put
      <4>2. IsChange(n) => notif[n].event.versie <= document
        BY <1>t, <3>2 DEF RouteInv, RowsInv, PublishedInv, IsChange
      <4> QED
        BY <1>t, <2>3, <3>2, <4>1, <4>2 DEF SendingInv
    <3> QED
      BY <2>2, <3>1, <3>2
  <2>4. ASSUME NEW m \in DOMAIN notif', notif'[m].status = "processed", IsChange(m)'
        PROVE  register # NoEntry /\ notif'[m].event.versie <= shown[register.zaak]
    <3>1. CASE notif[m].status = "processed"
      BY <1>t, <1>p, <2>4, <3>1 DEF SendingInv
    <3>2. CASE UpdateDocument(m) /\ notif[m].status # "processed"
      <4>1. notif[m].event \in published /\ notif[m].event.kind = "change"
        BY <1>t, <1>p, <2>4, <3>2 DEF RowsInv, IsChange
      <4>2. notif'[m] # notif[m]
        BY <2>4, <3>2
      <4>3. register # NoEntry /\ document <= register.versie
        BY <3>2, <4>2 DEF UpdateDocument, UpToDate
      <4>4. notif[m].event.versie <= document
        BY <4>1 DEF RouteInv, PublishedInv
      <4>5. register.versie <= shown[register.zaak]
        BY <1>t, <4>3 DEF SendingInv
      <4> QED
        BY <1>t, <1>v, <1>z, <1>e, <1>p, <2>4, <4>1, <4>3, <4>4, <4>5
    <3>3. CASE SendDocument(m)
      <4>1. /\ m \in DOMAIN sending /\ register' # NoEntry /\ register'.zaak = Target(m)
            /\ shown'[Target(m)] = sending[m]
        BY <1>t, <1>p, <2>4, <3>3, SendSteps, ReachSteps DEF TypeOK, IsTable
      <4> QED
        BY <1>t, <1>p, <2>1, <2>4, <4>1 DEF SendingInv
    <3> QED
      BY <1>p, <2>4, <3>1, <3>2, <3>3
  <2>5. \A z \in Zaken : shown[z] <= document
    BY <1>t DEF SendingInv
  <2>6. ASSUME NEW m \in DOMAIN sending'
        PROVE  /\ m \in DOMAIN notif' /\ notif'[m].event.kind \in DocumentKinds
               /\ IsChange(m)' => HasLink(published', notif'[m].zaak) /\ notif'[m].event.versie <= sending'[m]
    BY <1>n, <1>h, <2>3
  <2> QED
    BY <1>t, <1>l, <2>1, <2>3, <2>4, <2>5, <2>6 DEF SendingInv
<1>4. ASSUME NEW n \in Notifications, SendFails(n) PROVE SendingInv'
  <2>1. /\ n \in DOMAIN sending /\ DOMAIN sending' = {} /\ UNCHANGED <<document, register>>
        /\ \A z \in Zaken : shown'[z] \in Nat /\ shown[z] <= shown'[z] /\ shown'[z] <= document
        /\ \A m \in DOMAIN notif : notif'[m].status = "processed" => notif[m].status = "processed"
    BY <1>4, FailSteps, ReachSteps DEF zgw
  <2>2. ASSUME register # NoEntry
        PROVE  register.versie <= shown'[register.zaak]
    BY <1>t, <1>z, <1>e, <2>1, <2>2 DEF SendingInv
  <2>3. ASSUME NEW m \in DOMAIN notif', notif'[m].status = "processed", IsChange(m)'
        PROVE  register # NoEntry /\ notif'[m].event.versie <= shown'[register.zaak]
    <3>1. /\ register # NoEntry /\ notif'[m].event.versie <= shown[register.zaak]
          /\ notif'[m].event.versie \in Nat
      BY <1>t, <1>v, <1>p, <2>1, <2>3 DEF SendingInv
    <3> QED
      BY <1>z, <1>e, <2>1, <3>1
  <2> QED
    BY <1>l, <2>1, <2>2, <2>3 DEF SendingInv
<1> QED
  BY <1>1, <1>2, <1>3, <1>4, CorsaSteps DEF JobStep

\* No row of a job that sends gets a status before the job is done with it.
LEMMA StepPendingInv ==
  ASSUME RouteInv, Next
  PROVE  PendingInv'
<1>t. TypeOK /\ PendingInv /\ \A n \in DOMAIN sending : n \in DOMAIN notif
  BY DEF RouteInv, SendingInv
<1>1. ASSUME UNCHANGED sending, \A m \in DOMAIN notif : notif'[m] = notif[m] PROVE PendingInv'
  BY <1>t, <1>1 DEF PendingInv
<1>2. ASSUME NEW w \in Workers, IngestStep(w) PROVE PendingInv'
  <2>1. CASE UNCHANGED notif
    <3>1. UNCHANGED sending
      BY <1>2 DEF IngestStep, IgnoreUnsupported, CheckMapping, ResolveRoute, ReadLinks, StoreChange,
         IgnoreChange, IngestFails, StoreIgnored, Store, corsa
    <3> QED
      BY <1>1, <2>1, <3>1
  <2>2. CASE ~UNCHANGED notif
    <3>1. PICK z \in Zaken \cup {NoZaak}, route \in {"batch", "direct"}, status \in Statuses :
            w \in DOMAIN reading /\ Store(w, z, route, status)
      BY <1>2, <2>2, StoreSteps
    <3>2. UNCHANGED sending /\ \A m \in DOMAIN notif : notif'[m] = notif[m]
      BY <1>t, <3>1, StoreRow DEF corsa
    <3> QED
      BY <1>1, <3>2
  <2> QED
    BY <2>1, <2>2
<1>3. ASSUME NEW n \in Notifications, JobStep(n) PROVE PendingInv'
  <2>1. CASE AddDocument(n) \/ UpdateDocument(n)
    <3>1. /\ DOMAIN sending = {} /\ notif[n].status = "pending"
          /\ UNCHANGED sending \/ (sending' = Put(sending, n, document) /\ UNCHANGED notif)
      BY <2>1 DEF AddDocument, UpdateDocument, Pending, Empty
    <3>2. DOMAIN sending' \subseteq {n} /\ (UNCHANGED sending \/ UNCHANGED notif)
      BY <3>1 DEF Put
    <3> QED
      BY <3>1, <3>2 DEF PendingInv
  <2>2. CASE SendDocument(n) \/ SendFails(n)
    <3>1. DOMAIN sending' = {}
      BY <2>2, SendSteps, FailSteps
    <3> QED
      BY <3>1 DEF PendingInv
  <2>3. CASE FailDocument(n)
    <3>1. /\ DOMAIN sending' = DOMAIN sending \ {n}
          /\ UNCHANGED notif \/ notif' = [notif EXCEPT ![n].status = "failed"]
      BY <2>3 DEF FailDocument, EndsAs, Drop
    <3>2. \A m \in DOMAIN notif \ {n} : notif'[m] = notif[m]
      BY <1>t, <3>1
    <3> QED
      BY <1>t, <3>1, <3>2 DEF PendingInv
  <2> QED
    BY <1>3, <2>1, <2>2, <2>3 DEF JobStep
<1>4. ASSUME \/ EditDocument \/ PublishOther("other", NoZaak)
             \/ \E z \in Zaken : LinkDocument(z) \/ ChangeMapping(z) \/ PublishOther("status", z)
             \/ \E l \in 1..MaxLinks : UnlinkDocument(l)
             \/ \E w \in Workers, e \in published : Receive(w, e)
      PROVE  PendingInv'
  <2>1. UNCHANGED <<sending, notif>>
    BY <1>4 DEF corsa, EditDocument, PublishOther, LinkDocument, ChangeMapping, UnlinkDocument, Receive
  <2> QED
    BY <1>1, <2>1
<1> QED
  BY <1>2, <1>3, <1>4 DEF Next

(* A link carries the changes that did not see it. *)

\* When an ingest finds that a document is not linked, no link is there.
LEMMA UnlinkedSteps ==
  ASSUME RouteInv, Next, NEW v \in Unlinked'
  PROVE  v \in Unlinked \/ (DOMAIN links = {} /\ UNCHANGED links)
<1>1. CASE \E n \in DOMAIN notif' : notif'[n].status = "document_not_linked" /\ v = notif'[n].event.versie
  <2>1. PICK n \in DOMAIN notif' : notif'[n].status = "document_not_linked" /\ v = notif'[n].event.versie
    BY <1>1
  <2>2. CASE n \in DOMAIN notif /\ notif'[n].event = notif[n].event /\ notif'[n].status = notif[n].status
    BY <2>1, <2>2 DEF Unlinked
  <2>3. CASE \E w \in DOMAIN reading : /\ notif'[n].event = reading[w].event
                                       /\ reading[w].step = "linked" /\ reading[w].zaken = {}
    BY <2>1, <2>3 DEF Unlinked
  <2> QED
    BY <2>1, <2>2, <2>3, NotifSteps
<1>2. CASE \E w \in DOMAIN reading' : /\ reading'[w].step = "linked" /\ reading'[w].zaken = {}
                                      /\ v = reading'[w].event.versie
  <2>1. PICK w \in DOMAIN reading' : /\ reading'[w].step = "linked" /\ reading'[w].zaken = {}
                                     /\ v = reading'[w].event.versie
    BY <1>2
  <2>2. CASE w \in DOMAIN reading /\ reading'[w] = reading[w]
    BY <2>1, <2>2 DEF Unlinked
  <2>3. CASE reading'[w].zaken = {links[l] : l \in DOMAIN links} /\ UNCHANGED links
    BY <2>1, <2>3
  <2> QED
    BY <2>1, <2>2, <2>3, ReadingSteps
<1> QED
  BY <1>1, <1>2 DEF Unlinked

\* It was published, so that it is no newer than the document.
LEMMA UnlinkedIsOld ==
  ASSUME RouteInv, NEW v \in Unlinked
  PROVE  v \in Nat /\ v <= document
<1>1. PICK e \in published : e.kind = "change" /\ v = e.versie
  BY DEF Unlinked, RouteInv, RowsInv, IsChange
<1>2. e.versie \in 0..MaxVersie
  BY DEF RouteInv, TypeOK, Event
<1> QED
  BY <1>1, <1>2, ConstantsAssumption DEF RouteInv, PublishedInv

\* The one link of a zaak that was linked once.
LEMMA OneLink ==
  ASSUME NEW S, IsFiniteSet(S), NEW z,
         Cardinality({e \in S : e.kind = "link" /\ e.zaak = z}) <= 1,
         NEW a \in S, NEW b \in S, a.kind = "link", b.kind = "link", a.zaak = z, b.zaak = z
  PROVE  a = b
<1> DEFINE T == {e \in S : e.kind = "link" /\ e.zaak = z}
<1>1. IsFiniteSet(T) /\ IsFiniteSet({a, b}) /\ {a, b} \subseteq T
  BY FS_Subset
<1>2. Cardinality({a, b}) <= Cardinality(T) /\ Cardinality(T) \in Nat /\ Cardinality({a, b}) \in Nat
  BY <1>1, FS_Subset, FS_CardinalityType
<1>3. ASSUME a # b PROVE Cardinality({a, b}) = 2
  <2>1. IsFiniteSet({a}) /\ Cardinality({a}) = 1
    BY FS_Singleton
  <2>2. {a, b} = {a} \cup {b} /\ b \notin {a}
    BY <1>3
  <2>3. Cardinality({a} \cup {b}) = IF b \in {a} THEN Cardinality({a}) ELSE Cardinality({a}) + 1
    BY <2>1, FS_AddElement
  <2>4. Cardinality({a} \cup {b}) = 2
    BY <2>1, <2>2, <2>3
  <2> QED
    BY <2>2, <2>4, Zenon
<1> QED
  BY <1>2, <1>3

\* A zaak that was linked once has been linked once all along.
LEMMA LinkedOnceBefore ==
  ASSUME RouteInv, Next, NEW z,
         Cardinality({e \in published' : e.kind = "link" /\ e.zaak = z}) <= 1
  PROVE  Cardinality({e \in published : e.kind = "link" /\ e.zaak = z}) <= 1
<1> DEFINE S == {e \in published : e.kind = "link" /\ e.zaak = z}
           T == {e \in published' : e.kind = "link" /\ e.zaak = z}
<1>1. IsFiniteSet(published') /\ S \subseteq T
  BY StepPublishedInv, PublishedGrows DEF PublishedInv
<1>2. IsFiniteSet(T)
  BY <1>1, FS_Subset
<1>3. Cardinality(S) <= Cardinality(T) /\ Cardinality(S) \in Nat /\ Cardinality(T) \in Nat
  BY <1>1, <1>2, FS_Subset, FS_CardinalityType
<1> QED
  BY <1>3

\* The heart of the proof: a link that is there was read after each change that was ignored
\* for lack of it.
LEMMA StepCarriedInv ==
  ASSUME RouteInv, Next
  PROVE  CarriedInv'
<1> SUFFICES ASSUME NEW v \in Unlinked', NEW l \in DOMAIN links',
                    Cardinality({e \in published' : e.kind = "link" /\ e.zaak = links'[l]}) <= 1
             PROVE  /\ \A n \in DOMAIN sending' :
                         \/ IsLink(n)' /\ notif'[n].event.link = l
                         \/ IsChange(n)' /\ notif'[n].zaak = links'[l]
                         => v <= sending'[n]
                    /\ \A n \in DOMAIN notif' :
                         IsLink(n)' /\ notif'[n].event.link = l /\ notif'[n].status = "processed" =>
                           v <= shown'[links'[l]]
                    /\ register' # NoEntry /\ register'.zaak = links'[l] => v <= shown'[links'[l]]
  BY DEF CarriedInv, SendsFor, LinkedOnce
<1>t. /\ TypeOK /\ PublishedInv /\ RowsInv /\ SendingInv /\ CarriedInv
      /\ PublishedInv' /\ published \subseteq published'
  BY StepPublishedInv, PublishedGrows DEF RouteInv
<1>v. v \in Unlinked /\ v \in Nat /\ v <= document
  BY UnlinkedSteps, UnlinkedIsOld
<1>o. LinkedOnce(links'[l])
  BY LinkedOnceBefore DEF LinkedOnce
\* The link of a row, as long as it is there, is a link with the zaak of the row.
<1>r. ASSUME NEW n \in DOMAIN notif, IsLink(n), notif[n].event.link = l, l \in DOMAIN links
      PROVE  notif[n].zaak = links[l]
  BY <1>t, <1>r DEF RowsInv, PublishedInv, IsLink
<1>1. CASE l \notin DOMAIN links
  <2>1. \E z \in Zaken : LinkDocument(z)
    <3>1. ZgwStep
      BY <1>1, ZgwSteps DEF zgw
    <3> QED
      BY <1>1, <3>1 DEF ZgwStep, EditDocument, PublishOther, UnlinkDocument, Drop
  <2>2. PICK z \in Zaken : LinkDocument(z)
    BY <2>1
  <2>3. /\ l = lastLink + 1 /\ links'[l] = z
        /\ UNCHANGED <<notif, sending, register>>
        /\ Notice("link", z, l, 0) \in published'
    BY <1>1, <2>2 DEF LinkDocument, Put, corsa
  <2>4. \A e \in published : e.kind = "link" => e.link # l
    <3>1. \A e \in published : e.link \in Nat /\ lastLink \in Nat
      BY <1>t, ConstantsAssumption DEF TypeOK, Event
    <3> QED
      BY <1>t, <2>3, <3>1 DEF PublishedInv
  <2>5. \A n \in DOMAIN notif : ~(IsLink(n) /\ notif[n].event.link = l)
    BY <1>t, <2>4 DEF RowsInv, IsLink
  <2>6. ~HasLink(published, z)
    <3>1. SUFFICES ASSUME NEW e \in published, e.kind = "link", e.zaak = z PROVE FALSE
      BY DEF HasLink
    <3> DEFINE new == Notice("link", z, l, 0)
    <3>2. new.kind = "link" /\ new.zaak = z /\ new.link = l /\ new \in published'
      BY <2>3 DEF Notice
    <3> HIDE DEF new
    <3>3. Cardinality({d \in published' : d.kind = "link" /\ d.zaak = z}) <= 1 /\ IsFiniteSet(published')
      BY <1>t, <2>3 DEF PublishedInv
    <3>4. e = new
      BY <1>t, <3>1, <3>2, <3>3, OneLink
    <3> QED
      BY <2>4, <3>1, <3>2, <3>4
  <2>7. ~(register # NoEntry /\ register.zaak = z)
    BY <1>t, <2>6 DEF SendingInv
  <2>8. \A n \in DOMAIN sending : n \in DOMAIN notif /\ ~(IsChange(n) /\ notif[n].zaak = z)
    BY <1>t, <2>6 DEF SendingInv
  <2> QED
    BY <2>3, <2>5, <2>7, <2>8 DEF IsLink, IsChange
<1>2. CASE l \in DOMAIN links
  <2>1. links'[l] = links[l] /\ links[l] \in Zaken /\ LinkedOnce(links[l])
    <3>1. links'[l] = links[l]
      <4>1. CASE UNCHANGED zgw
        BY <4>1 DEF zgw
      <4>2. CASE ZgwStep
        <5>1. l <= lastLink /\ l \in Nat /\ lastLink \in Nat
          BY <1>2, <1>t, ConstantsAssumption DEF PublishedInv, TypeOK, IsTable
        <5>2. CASE UNCHANGED links
          BY <5>2
        <5>3. ASSUME NEW z \in Zaken, LinkDocument(z) PROVE links'[l] = links[l]
          BY <1>2, <5>1, <5>3 DEF LinkDocument, Put
        <5>4. ASSUME NEW k, UnlinkDocument(k) PROVE links'[l] = links[l]
          BY <5>4 DEF UnlinkDocument, Drop
        <5> QED
          BY <4>2, <5>2, <5>3, <5>4 DEF ZgwStep, EditDocument, PublishOther
      <4> QED
        BY <4>1, <4>2, ZgwSteps
    <3> QED
      BY <1>2, <1>o, <1>t, <3>1 DEF TypeOK, IsTable
  <2>2. /\ \A n \in DOMAIN sending : SendsFor(n, l) => v <= sending[n]
        /\ \A n \in DOMAIN notif :
             IsLink(n) /\ notif[n].event.link = l /\ notif[n].status = "processed" => v <= shown[links[l]]
        /\ register # NoEntry /\ register.zaak = links[l] => v <= shown[links[l]]
    BY <1>2, <1>t, <1>v, <2>1 DEF CarriedInv
  \* A row that is processed was so before, or was just added or sent.
  <2>3. ASSUME NEW n \in DOMAIN notif', IsLink(n)', notif'[n].event.link = l, notif'[n].status = "processed"
        PROVE  /\ n \in DOMAIN notif /\ IsLink(n) /\ notif[n].event.link = l
               /\ notif[n].status = "processed" \/ AddDocument(n) \/ SendDocument(n)
    <3>1. n \in DOMAIN notif /\ IsLink(n) /\ notif[n].event.link = l
      BY <2>3, NotifSteps DEF IsLink
    <3>2. ~UpdateDocument(n)
      BY <3>1 DEF UpdateDocument, Pending, IsLink
    <3> QED
      BY <2>3, <3>1, <3>2, NotifSteps
  <2>4. \A n \in DOMAIN sending : /\ n \in DOMAIN notif /\ n \in DOMAIN notif'
                                  /\ notif'[n].event = notif[n].event /\ notif'[n].zaak = notif[n].zaak
    <3>1. \A n \in DOMAIN sending : n \in DOMAIN notif /\ n \in DOMAIN notif'
      BY <1>t, RowsRemain DEF SendingInv
    <3> QED
      BY <3>1, NotifSteps
  <2>5. CASE \A n \in Notifications : ~SendDocument(n) /\ ~SendFails(n)
    <3>1. UNCHANGED <<shown, register>>
      BY <2>5, CorsaSteps DEF JobStep, AddDocument, UpdateDocument, FailDocument, corsa
    <3>2. ASSUME NEW n \in DOMAIN sending', \/ IsLink(n)' /\ notif'[n].event.link = l
                                            \/ IsChange(n)' /\ notif'[n].zaak = links'[l]
          PROVE  v <= sending'[n]
      <4>1. CASE n \in DOMAIN sending /\ sending'[n] = sending[n]
        <5>1. SendsFor(n, l)
          BY <2>1, <2>4, <3>2, <4>1 DEF SendsFor, IsLink, IsChange
        <5> QED
          BY <2>2, <4>1, <5>1
      <4>2. CASE sending'[n] = document
        BY <1>v, <4>2
      <4>3. \/ UNCHANGED sending
            \/ \E m \in Notifications : \/ sending' = Put(sending, m, document)
                                        \/ sending' = Drop(sending, m)
        BY <2>5, CorsaSteps DEF JobStep, AddDocument, UpdateDocument, FailDocument, corsa
      <4>4. CASE UNCHANGED sending
        BY <3>2, <4>1, <4>4
      <4>5. ASSUME NEW m \in Notifications, sending' = Put(sending, m, document)
            PROVE  (n \in DOMAIN sending /\ sending'[n] = sending[n]) \/ sending'[n] = document
        BY <3>2, <4>5 DEF Put
      <4>6. ASSUME NEW m \in Notifications, sending' = Drop(sending, m)
            PROVE  n \in DOMAIN sending /\ sending'[n] = sending[n]
        BY <3>2, <4>6 DEF Drop
      <4> QED
        BY <4>1, <4>2, <4>3, <4>4, <4>5, <4>6
    <3>3. ASSUME NEW n \in DOMAIN notif', IsLink(n)', notif'[n].event.link = l, notif'[n].status = "processed"
          PROVE  v <= shown[links[l]]
      <4>1. n \in DOMAIN notif /\ IsLink(n) /\ notif[n].event.link = l
            /\ (notif[n].status = "processed" \/ AddDocument(n))
        <5>1. n \in DOMAIN notif => n \in Notifications
          BY <1>t DEF TypeOK, IsTable
        <5> QED
          BY <2>3, <2>5, <3>3, <5>1
      <4>2. CASE notif[n].status = "processed"
        BY <2>2, <4>1, <4>2
      <4>3. CASE AddDocument(n) /\ notif[n].status # "processed"
        <5>1. notif'[n] # notif[n]
          BY <3>3, <4>3
        <5>2. register # NoEntry /\ register.zaak = notif[n].zaak
          BY <4>3, <5>1 DEF AddDocument
        <5>3. notif[n].zaak = links[l]
          BY <1>2, <1>r, <4>1
        <5> QED
          BY <2>2, <5>2, <5>3
      <4> QED
        BY <4>1, <4>2, <4>3
    <3> QED
      BY <2>1, <2>2, <3>1, <3>2, <3>3
  <2>6. ASSUME NEW m \in Notifications, SendFails(m)
        PROVE  /\ DOMAIN sending' = {}
               /\ \A n \in DOMAIN notif' :
                    IsLink(n)' /\ notif'[n].event.link = l /\ notif'[n].status = "processed" =>
                      v <= shown'[links[l]]
               /\ register' # NoEntry /\ register'.zaak = links[l] => v <= shown'[links[l]]
    <3>1. /\ DOMAIN sending' = {} /\ register' = register
          /\ shown[links[l]] \in Nat /\ shown'[links[l]] \in Nat /\ shown[links[l]] <= shown'[links[l]]
          /\ \A n \in DOMAIN notif : notif'[n].status = "processed" => notif[n].status = "processed"
      BY <2>1, <2>6, FailSteps, ReachSteps
    <3>2. ASSUME NEW n \in DOMAIN notif', IsLink(n)', notif'[n].event.link = l, notif'[n].status = "processed"
          PROVE  v <= shown[links[l]]
      BY <2>2, <2>3, <3>1, <3>2
    <3>3. register # NoEntry /\ register.zaak = links[l] => v <= shown[links[l]]
      BY <2>2
    <3> QED
      BY <1>v, <3>1, <3>2, <3>3
  <2>7. ASSUME NEW m \in Notifications, SendDocument(m)
        PROVE  /\ DOMAIN sending' = {}
               /\ \A n \in DOMAIN notif' :
                    IsLink(n)' /\ notif'[n].event.link = l /\ notif'[n].status = "processed" =>
                      v <= shown'[links[l]]
               /\ register' # NoEntry /\ register'.zaak = links[l] => v <= shown'[links[l]]
    <3>1. /\ m \in DOMAIN sending /\ DOMAIN sending' = {} /\ DOMAIN sending = {m} /\ m \in DOMAIN notif
          /\ shown[links[l]] \in Nat /\ shown'[links[l]] \in Nat /\ shown[links[l]] <= shown'[links[l]]
      BY <2>1, <2>7, SendSteps, ReachSteps, SendTarget
    <3>2. ASSUME NEW n \in DOMAIN notif', IsLink(n)', notif'[n].event.link = l, notif'[n].status = "processed"
          PROVE  v <= shown'[links[l]]
      <4>1. n \in DOMAIN notif /\ IsLink(n) /\ notif[n].event.link = l
            /\ (notif[n].status = "processed" \/ AddDocument(n) \/ SendDocument(n))
        BY <2>3, <3>2
      <4>2. CASE notif[n].status = "processed"
        <5>1. v <= shown[links[l]]
          BY <2>2, <4>1, <4>2
        <5> QED
          BY <1>v, <3>1, <5>1
      <4>3. CASE AddDocument(n)
        <5>1. DOMAIN sending = {}
          BY <4>3 DEF AddDocument, Empty
        <5> QED
          BY <3>1, <5>1
      <4>4. CASE SendDocument(n)
        <5>1. n = m
          BY <3>1, <4>4 DEF SendDocument
        <5>2. Target(m) = links[l]
          BY <1>2, <1>r, <3>1, <4>1, <5>1, SendTarget
        <5>3. shown'[links[l]] = sending[m]
          BY <2>7, <5>2, SendSteps, ReachSteps
        <5>4. v <= sending[m]
          BY <2>2, <3>1, <4>1, <5>1 DEF SendsFor
        <5> QED
          BY <5>3, <5>4
      <4> QED
        BY <4>1, <4>2, <4>3, <4>4
    <3>3. ASSUME register'.zaak = links[l] PROVE v <= shown'[links[l]]
      <4>1. CASE register # NoEntry
        <5>1. register.zaak = links[l]
          BY <2>7, <3>3, <4>1, SendSteps
        <5>2. v <= shown[links[l]]
          BY <2>2, <4>1, <5>1
        <5> QED
          BY <1>v, <3>1, <5>2
      <4>2. CASE register = NoEntry
        <5>1. shown'[links[l]] = sending[m] /\ Target(m) = links[l] /\ notif[m].zaak = links[l]
          BY <2>7, <3>3, <4>2, SendSteps, ReachSteps DEF Target
        <5>2. CASE IsChange(m)
          BY <2>2, <3>1, <5>1, <5>2 DEF SendsFor
        <5>3. CASE IsLink(m)
          <6>1. notif[m].event \in published /\ notif[m].event.kind = "link" /\ notif[m].event.zaak = links[l]
            BY <1>t, <3>1, <5>1, <5>3 DEF RowsInv, IsLink
          <6> DEFINE new == Notice("link", links[l], l, 0)
          <6>2. new.kind = "link" /\ new.zaak = links[l] /\ new.link = l /\ new \in published
            BY <1>2, <1>t DEF PublishedInv, Notice
          <6> HIDE DEF new
          <6>3. Cardinality({d \in published : d.kind = "link" /\ d.zaak = links[l]}) <= 1
                /\ IsFiniteSet(published)
            BY <1>t, <2>1 DEF LinkedOnce, PublishedInv
          <6>4. notif[m].event = new
            BY <6>1, <6>2, <6>3, OneLink
          <6>5. v <= sending[m]
            BY <2>2, <3>1, <5>3, <6>2, <6>4 DEF SendsFor
          <6> QED
            BY <5>1, <6>5
        <5> QED
          BY <3>1, <5>2, <5>3, SendTarget
      <4> QED
        BY <4>1, <4>2
    <3> QED
      BY <3>1, <3>2, <3>3
  <2> QED
    BY <2>1, <2>5, <2>6, <2>7
<1> QED
  BY <1>1, <1>2

-----------------------------------------------------------------------------
\* At first nothing is published, read or stored.
LEMMA InitRouteInv == Init => RouteInv
<1> SUFFICES ASSUME Init PROVE RouteInv
  OBVIOUS
<1>1. /\ DOMAIN links = {} /\ DOMAIN reading = {} /\ DOMAIN notif = {} /\ DOMAIN sending = {}
      /\ document = 1 /\ published = {} /\ register = NoEntry /\ \A z \in Zaken : shown[z] = 0
  BY DEF Init, Empty
<1>2. TypeOK
  <2>1. 1 \in 1..MaxVersie /\ 0 \in 0..MaxLinks /\ 0 \in 0..MaxVersie
    BY ConstantsAssumption
  <2> QED
    BY <2>1, EmptyIsTable DEF Init, TypeOK
<1>3. PublishedInv
  BY <1>1, FS_EmptySet DEF PublishedInv
<1>4. RowsInv /\ SendingInv
  BY <1>1 DEF RowsInv, SendingInv
<1>5. CarriedInv
  BY <1>1 DEF CarriedInv
<1>6. PendingInv
  BY <1>1 DEF PendingInv
<1> QED
  BY <1>2, <1>3, <1>4, <1>5, <1>6 DEF RouteInv

\* The invariant is inductive.
LEMMA StepRouteInv == RouteInv /\ [Next]_vars => RouteInv'
<1> SUFFICES ASSUME RouteInv, [Next]_vars PROVE RouteInv'
  OBVIOUS
<1>1. CASE UNCHANGED vars
  <2>1. TypeOK' /\ PublishedInv' /\ RowsInv'
    BY <1>1, StepTypeOK DEF RouteInv, PublishedInv, RowsInv, IsLink, IsChange, vars, zgw, corsa
  <2>2. SendingInv' /\ PendingInv'
    BY <1>1 DEF RouteInv, SendingInv, PendingInv, IsLink, IsChange, vars, zgw, corsa
  <2>3. CarriedInv'
    <3>1. Unlinked' = Unlinked
      BY <1>1 DEF Unlinked, vars
    <3> QED
      BY <1>1, <3>1 DEF RouteInv, CarriedInv, SendsFor, LinkedOnce, IsLink, IsChange, vars, zgw, corsa
  <2> QED
    BY <2>1, <2>2, <2>3 DEF RouteInv
<1>2. CASE Next
  BY <1>2, StepTypeOK, StepPublishedInv, StepRowsInv, StepSendingInv, StepPendingInv, StepCarriedInv
     DEF RouteInv
<1> QED
  BY <1>1, <1>2

\* The invariant holds in every state.
THEOREM RouteInvHolds == Spec => []RouteInv
BY InitRouteInv, StepRouteInv, PTL DEF Spec

\* Types hold in every state: an ignored notification has a reason and the batch route, and
\* what is sent goes to a zaak.
THEOREM RouteTypesHold == Spec => []TypeOK
<1>1. RouteInv => TypeOK
  BY DEF RouteInv
<1> QED
  BY <1>1, RouteInvHolds, PTL

\* For any number of zaken, workers, links and versions: of the first link of a zaak and a
\* change that did not see it, the link carries the version of the change.
THEOREM FirstLinkCarries == Spec => []FirstLinkCarriesChange
<1>1. RouteInv => FirstLinkCarriesChange
  <2> SUFFICES ASSUME RouteInv, NEW n \in DOMAIN notif, NEW m \in DOMAIN notif,
                      LinkedOnce(notif[m].zaak), notif[n].status = "document_not_linked",
                      notif[m].event.link \in DOMAIN links, notif[m].status = "processed"
               PROVE  shown[notif[m].zaak] >= notif[n].event.versie
    BY DEF FirstLinkCarriesChange, Carries
  <2> DEFINE l == notif[m].event.link
             v == notif[n].event.versie
  <2>1. v \in Unlinked
    BY DEF Unlinked
  <2>2. IsLink(m)
    <3>1. notif[m].event \in published /\ l # 0
      BY ConstantsAssumption DEF RouteInv, RowsInv, TypeOK, IsTable
    <3> QED
      BY <3>1 DEF RouteInv, PublishedInv, IsLink
  <2>3. notif[m].zaak = links[l]
    BY <2>2 DEF RouteInv, RowsInv, PublishedInv, IsLink
  <2>4. v <= shown[links[l]]
    BY <2>1, <2>2, <2>3 DEF RouteInv, CarriedInv
  <2> QED
    BY <2>3, <2>4
<1> QED
  BY <1>1, RouteInvHolds, PTL

\* For any number of zaken, workers, links and versions: an old version of a linked document
\* in Corsa has a row, or a failed ingest, that says why.
THEOREM NoMissInSilence == Spec => []NoSilentMiss
<1>1. RouteInv => NoSilentMiss
  <2> SUFFICES ASSUME RouteInv, Quiet, register # NoEntry, shown[register.zaak] < document,
                      LinkedOnce(register.zaak), NEW l \in DOMAIN links, links[l] = register.zaak
               PROVE  \E v \in 1..MaxVersie : v > shown[register.zaak] /\ Missed(v)
    BY DEF NoSilentMiss
  <2>1. /\ document \in 1..MaxVersie /\ register \in Entry /\ register.zaak \in Zaken
        /\ shown[register.zaak] \in Nat /\ register.versie \in 1..MaxVersie
        /\ register.versie <= shown[register.zaak]
    BY ConstantsAssumption DEF RouteInv, TypeOK, Entry, SendingInv
  <2>2. document > 1
    BY <2>1, ConstantsAssumption
  <2> DEFINE change == Notice("change", NoZaak, 0, document)
  <2>3. change \in published /\ change.kind = "change" /\ change.versie = document
    BY <2>2 DEF RouteInv, PublishedInv, Notice
  <2>4. CASE change \in lost
    BY <2>1, <2>4 DEF Missed
  <2>5. ASSUME NEW n \in DOMAIN notif, notif[n].event = change PROVE Missed(document)
    <3>1. IsChange(n) /\ notif[n].event.versie = document
      BY <2>3, <2>5 DEF IsChange
    <3>2. notif[n] \in NotificationRow
      BY RowOfTable DEF RouteInv, TypeOK
    <3>3. n \in Notifications
      BY RowOfTable DEF RouteInv, TypeOK
    <3>4. notif[n].status # "pending"
      BY <3>1, <3>3 DEF Quiet, Pending, IsChange, DocumentKinds
    <3>5. notif[n].status # "processed"
      BY <2>1, <3>1, ConstantsAssumption DEF RouteInv, SendingInv
    <3>6. notif[n].status # "document_not_linked"
      <4>1. SUFFICES ASSUME notif[n].status = "document_not_linked" PROVE FALSE
        OBVIOUS
      <4>2. document \in Unlinked
        BY <3>1, <4>1 DEF Unlinked
      <4>3. document <= shown[register.zaak]
        BY <4>2 DEF RouteInv, CarriedInv
      <4> QED
        BY <2>1, <4>3, ConstantsAssumption
    <3>7. notif[n].status \notin {"unsupported_channel", "unsupported_action"}
      BY <3>1 DEF RouteInv, RowsInv, IsChange
    <3>8. notif[n].status \in {"failed", "unknown_zaaktype", "inactive_zaaktype", "document_in_multiple_zaken"}
      BY <3>2, <3>4, <3>5, <3>6, <3>7 DEF NotificationRow, Ignored
    <3> QED
      BY <2>5, <3>8 DEF Missed
  <2> HIDE DEF change
  <2>6. CASE change \notin lost
    <3>1. \E n \in DOMAIN notif : notif[n].event = change
      BY <2>3, <2>6 DEF Quiet, DocumentKinds
    <3> QED
      BY <2>1, <2>5, <3>1
  <2> QED
    BY <2>4, <2>6
<1> QED
  BY <1>1, RouteInvHolds, PTL
-----------------------------------------------------------------------------
(* The refinement. *)

Home == IF register = NoEntry THEN NoEntry ELSE register.zaak
Due == {v \in 2..document : ~ChangeDone(v)}
IsNoticeOf(e, v) == e = Notice("change", NoZaak, 0, v)

\* The notification of a change says which version it is about.
LEMMA NoticeOfOne ==
  ASSUME NEW e, NEW v, IsNoticeOf(e, v)
  PROVE  e.kind = "change" /\ e.versie = v
BY DEF IsNoticeOf, Notice

\* The first state is a first state of the promise.
LEMMA InitPromise == Init => Promise!Init
<1> SUFFICES ASSUME Init PROVE Promise!Init
  OBVIOUS
<1>1. /\ document = 1 /\ register = NoEntry /\ shown = [z \in Zaken |-> 0]
  BY DEF Init
<1>2. {v \in 2..document : ~ChangeDone(v)} = {}
  BY <1>1
<1> QED
  BY <1>1, <1>2 DEF Promise!Init

\* A step that changes nothing the promise is about.
LEMMA Stutters ==
  ASSUME UNCHANGED <<document, shown, register>>, \A v : ChangeDone(v)' <=> ChangeDone(v)
  PROVE  UNCHANGED Promise!vars
<1>1. UNCHANGED Due
  BY DEF Due
<1> QED
  BY <1>1 DEF Promise!vars, Due

\* An ingest makes no change done: the row that it stores is not processed.
LEMMA IngestEndsNothing ==
  ASSUME RouteInv, NEW w \in Workers, IngestStep(w)
  PROVE  \A v : ChangeDone(v)' <=> ChangeDone(v)
<1>1. CASE UNCHANGED notif
  BY <1>1 DEF ChangeDone
<1>2. CASE ~UNCHANGED notif
  <2>1. PICK z \in Zaken \cup {NoZaak}, route \in {"batch", "direct"}, status \in Statuses :
          w \in DOMAIN reading /\ Store(w, z, route, status) /\ status # "processed"
    BY <1>2, StoreSteps
  <2>2. PICK n \in Notifications \ DOMAIN notif :
          /\ DOMAIN notif' = DOMAIN notif \cup {n}
          /\ \A m \in DOMAIN notif : notif'[m] = notif[m]
          /\ notif'[n].status = status
    <3>1. PICK n \in Notifications \ DOMAIN notif :
            notif' = Put(notif, n, [event |-> reading[w].event, zaak |-> z,
                                    route |-> route, status |-> status])
      BY <2>1 DEF Store
    <3> QED
      BY <3>1 DEF Put
  <2> QED
    BY <2>1, <2>2 DEF ChangeDone
<1> QED
  BY <1>1, <1>2

\* A job changes at most the status of its own row, and does not take back that it was processed.
LEMMA JobEndsOne ==
  ASSUME RouteInv, NEW n \in Notifications, JobStep(n)
  PROVE  \/ UNCHANGED notif
         \/ /\ n \in DOMAIN notif /\ DOMAIN notif' = DOMAIN notif
            /\ notif'[n].event = notif[n].event
            /\ notif[n].status = "processed" => notif'[n].status = "processed"
            /\ \A m \in DOMAIN notif \ {n} : notif'[m] = notif[m]
<1>1. CASE ~UNCHANGED notif
  <2>0. \A m \in DOMAIN sending : m \in DOMAIN notif /\ notif[m].status = "pending"
    BY DEF RouteInv, SendingInv, PendingInv
  <2>1. PICK status \in {"processed", "failed"} :
          /\ n \in DOMAIN notif /\ EndsAs(n, status)
          /\ notif[n].status = "processed" => status = "processed"
    BY <1>1, <2>0 DEF JobStep, AddDocument, UpdateDocument, SendDocument, SendFails, FailDocument, Pending
  <2>2. TypeOK /\ status \in Statuses
    BY DEF RouteInv, Statuses
  <2> QED
    BY <2>1, <2>2, EndsRow
<1> QED
  BY <1>1

\* Only the change that a job is about can be done by it, and then its home shows it.
LEMMA JobEnds ==
  ASSUME RouteInv, SendingInv', NEW n \in Notifications, JobStep(n), UNCHANGED document,
         register' \in Entry \cup {NoEntry}, shown' \in [Zaken -> 0..MaxVersie]
  PROVE  Promise!Ends \/ Due' = Due
<1>1. CASE UNCHANGED notif
  BY <1>1 DEF Due, ChangeDone
<1>2. CASE ~UNCHANGED notif
  <2>0. PICK v : v = notif[n].event.versie
    OBVIOUS
  <2> DEFINE Ended == IsNoticeOf(notif[n].event, v) /\ notif'[n].status = "processed"
  <2>1. /\ n \in DOMAIN notif /\ DOMAIN notif' = DOMAIN notif
        /\ notif'[n].event = notif[n].event
        /\ notif[n].status = "processed" => notif'[n].status = "processed"
        /\ \A m \in DOMAIN notif \ {n} : notif'[m] = notif[m]
    BY <1>2, JobEndsOne
  <2>2. ASSUME NEW u PROVE ChangeDone(u)' <=> ChangeDone(u) \/ (u = v /\ Ended)
    <3>1. IsNoticeOf(notif[n].event, u) => u = v
      BY <2>0, NoticeOfOne
    <3>2. ASSUME ChangeDone(u)' PROVE ChangeDone(u) \/ (u = v /\ Ended)
      <4>1. PICK m \in DOMAIN notif' : IsNoticeOf(notif'[m].event, u) /\ notif'[m].status = "processed"
        BY <3>2 DEF ChangeDone, IsNoticeOf
      <4>2. CASE m = n
        BY <2>1, <3>1, <4>1, <4>2
      <4>3. CASE m # n
        BY <2>1, <4>1, <4>3 DEF ChangeDone, IsNoticeOf
      <4> QED
        BY <4>2, <4>3
    <3>3. ASSUME ChangeDone(u) PROVE ChangeDone(u)'
      <4>1. PICK m \in DOMAIN notif : notif[m].event = Notice("change", NoZaak, 0, u) /\ notif[m].status = "processed"
        BY <3>3 DEF ChangeDone
      <4>2. notif'[m].event = Notice("change", NoZaak, 0, u) /\ notif'[m].status = "processed" /\ m \in DOMAIN notif'
        BY <2>1, <4>1
      <4> QED
        BY <4>2 DEF ChangeDone
    <3>4. ASSUME u = v, Ended PROVE ChangeDone(u)'
      BY <2>1, <3>4 DEF ChangeDone, IsNoticeOf
    <3> QED
      BY <3>2, <3>3, <3>4
  <2>3. CASE ~Ended \/ v \notin Due
    <3>1. \A u \in 2..document : ChangeDone(u)' <=> ChangeDone(u)
      BY <2>2, <2>3 DEF Due
    <3> QED
      BY <3>1 DEF Due
  <2>4. CASE Ended /\ v \in Due
    <3>1. Due' = Due \ {v}
      <4> HIDE DEF Ended
      <4> QED
        BY <2>2, <2>4 DEF Due
    <3>2. IsChange(n)'
      BY <2>1, <2>4, NoticeOfOne DEF IsChange
    <3>3. register' # NoEntry /\ notif'[n].event.versie <= shown'[register'.zaak]
      BY <2>1, <2>4, <3>2 DEF SendingInv
    <3>4. notif'[n].event.versie = v
      BY <2>0, <2>1
    <3>5. Home' \in Zaken /\ Home' = register'.zaak
      BY <3>3 DEF Entry, Home
    <3>6. v \in Nat /\ shown'[Home'] \in Nat
      <4>1. document \in Nat /\ MaxVersie \in Nat
        BY ConstantsAssumption DEF RouteInv, TypeOK
      <4> QED
        BY <2>4, <3>5, <4>1 DEF Due
    <3>7. Home' \in Zaken /\ shown'[Home'] >= v
      BY <3>3, <3>4, <3>5, <3>6
    <3>8. Promise!Arrived(v)'
      BY <3>7 DEF Promise!Arrived, Home
    <3> QED
      BY <2>4, <3>1, <3>8 DEF Promise!Ends, Due
  <2> QED
    BY <2>3, <2>4
<1> QED
  BY <1>1, <1>2

\* The steps of a job.
LEMMA JobPromise ==
  ASSUME RouteInv, RouteInv', NEW n \in Notifications, JobStep(n)
  PROVE  [Promise!Next]_(Promise!vars)
<1>1. CASE SendDocument(n) \/ SendFails(n)
  <2>1. n \in DOMAIN sending /\ UNCHANGED document /\ ReachesCorsa(n)
    BY <1>1, SendSteps, FailSteps DEF zgw
  <2>2. /\ Target(n) \in Zaken /\ sending[n] \in 1..MaxVersie /\ shown'[Target(n)] = sending[n]
        /\ \A z \in Zaken : shown'[z] \in Nat /\ shown[z] \in Nat /\ shown[z] <= shown'[z]
                            /\ shown'[z] <= document
    BY <2>1, SendTarget, ReachSteps
  <2>3. Promise!Shows
    <3>1. document \in Nat /\ MaxVersie \in Nat
      BY ConstantsAssumption DEF RouteInv, TypeOK
    <3>2. sending[n] \in 1..document /\ sending[n] >= shown[Target(n)]
      BY <2>2, <3>1
    <3>3. \E v \in 1..document : v >= shown[Target(n)] /\ shown' = [shown EXCEPT ![Target(n)] = v]
      BY <2>1, <3>2 DEF ReachesCorsa
    <3>4. 1 # 0
      OBVIOUS
    <3> QED
      BY <2>2, <3>3, <3>4 DEF Promise!Shows
  <2>4. TypeOK /\ TypeOK'
    BY DEF RouteInv
  <2>5. Promise!KeepsHome
    <3>1. CASE SendFails(n)
      <4>1. register' = register
        BY <3>1, FailSteps
      <4> QED
        BY <4>1 DEF Promise!KeepsHome
    <3>2. CASE SendDocument(n)
      BY <2>4, <3>2, SendSteps DEF TypeOK, Promise!KeepsHome, Entry
    <3> QED
      BY <1>1, <3>1, <3>2
  <2>6. Promise!Ends \/ Due' = Due
    BY <2>1, <2>4, JobEnds DEF RouteInv, TypeOK
  <2> QED
    BY <2>1, <2>3, <2>5, <2>6 DEF Promise!Next, Promise!Deliver, Due
<1>2. CASE ~SendDocument(n) /\ ~SendFails(n)
  <2>1. UNCHANGED <<document, shown, register>>
    BY <1>2 DEF JobStep, AddDocument, UpdateDocument, FailDocument, zgw
  <2>2. Promise!Ends \/ Due' = Due
    BY <2>1, JobEnds DEF RouteInv, TypeOK
  <2> QED
    BY <2>1, <2>2 DEF Promise!Next, Promise!Deliver, Promise!KeepsHome, Due
<1> QED
  BY <1>1, <1>2

\* A change of the document is one of the promise: no row can be about it yet.
LEMMA EditPromise ==
  ASSUME RouteInv, EditDocument
  PROVE  [Promise!Next]_(Promise!vars)
<1>1. document' = document + 1 /\ UNCHANGED <<notif, shown, register>>
  BY DEF EditDocument, corsa
<1>2. document \in Nat /\ document >= 1
  BY ConstantsAssumption DEF RouteInv, TypeOK
<1>3. ~ChangeDone(document + 1)
  <2>1. SUFFICES ASSUME NEW n \in DOMAIN notif, IsNoticeOf(notif[n].event, document + 1) PROVE FALSE
    BY DEF ChangeDone, IsNoticeOf
  <2>2. notif[n].event \in published /\ notif[n].event.kind = "change" /\ notif[n].event.versie = document + 1
    BY <2>1, NoticeOfOne DEF RouteInv, RowsInv
  <2>3. document + 1 <= document
    BY <2>2 DEF RouteInv, PublishedInv
  <2> QED
    BY <1>2, <2>3
<1>4. Due' = Due \cup {document + 1}
  <2>1. \A v : ChangeDone(v)' <=> ChangeDone(v)
    BY <1>1 DEF ChangeDone
  <2>2. 2..(document + 1) = (2..document) \cup {document + 1}
    BY <1>2
  <2> QED
    BY <1>1, <1>3, <2>1, <2>2 DEF Due
<1> QED
  BY <1>1, <1>4 DEF Promise!Next, Promise!Edit, Due

\* Every step is one of the promise, or a stutter.
LEMMA StepPromise ==
  ASSUME RouteInv, RouteInv', [Next]_vars
  PROVE  [Promise!Next]_(Promise!vars)
<1>1. CASE EditDocument
  BY <1>1, EditPromise
<1>2. ASSUME UNCHANGED <<document, notif, shown, register>> PROVE [Promise!Next]_(Promise!vars)
  <2>1. \A v : ChangeDone(v)' <=> ChangeDone(v)
    BY <1>2 DEF ChangeDone
  <2> QED
    BY <1>2, <2>1, Stutters
<1>3. CASE \/ PublishOther("other", NoZaak) \/ UNCHANGED vars
           \/ \E z \in Zaken : LinkDocument(z) \/ ChangeMapping(z) \/ PublishOther("status", z)
           \/ \E l \in 1..MaxLinks : UnlinkDocument(l)
           \/ \E w \in Workers : \E e \in published : Receive(w, e)
  BY <1>2, <1>3 DEF PublishOther, LinkDocument, ChangeMapping, UnlinkDocument, Receive, vars, zgw, corsa
<1>4. ASSUME NEW w \in Workers, IngestStep(w) PROVE [Promise!Next]_(Promise!vars)
  <2>1. UNCHANGED <<document, shown, register>>
    BY <1>4 DEF zgw, corsa, IngestStep, IgnoreUnsupported, CheckMapping, ResolveRoute, ReadLinks, StoreChange,
       IgnoreChange, IngestFails, StoreIgnored, Store
  <2> QED
    BY <1>4, <2>1, IngestEndsNothing, Stutters
<1>5. ASSUME NEW n \in Notifications, JobStep(n) PROVE [Promise!Next]_(Promise!vars)
  BY <1>5, JobPromise
<1> QED
  BY <1>1, <1>3, <1>4, <1>5 DEF Next

\* Whatever route a notification takes and however often it arrives, what becomes of the
\* document is within the promise.
THEOREM RoutingKeepsPromise == Spec => KeepsPromise
<1>1. RouteInv /\ RouteInv' /\ [Next]_vars => [Promise!Next]_(Promise!vars)
  BY StepPromise
<1> QED
  BY <1>1, InitPromise, RouteInvHolds, PTL DEF Spec, KeepsPromise, Promise!Spec
=============================================================================
