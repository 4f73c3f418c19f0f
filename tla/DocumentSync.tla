---------------------------- MODULE DocumentSync ----------------------------
(* Sending one document to Corsa: CorsaZaakdmsService::addDocumentToZaak and *)
(* ::updateDocument, as jobs of both routes run them, each under the lock of *)
(* the document.  The lock, the register and the version are kept per URL of *)
(* a document, so one document stands for all.                               *)
EXTENDS Tables, Integers

CONSTANTS
  Jobs, Zaken,   \* jobs that are about the document, and zaken it may be linked to
  Free, NoEntry, \* the lock that nobody holds, and "no row" in document_syncs
  MaxVersie,     \* bound on the versions of the document
  MaxAdds,       \* bound on the runs that add the document
  MaxFaults      \* bound on workers that die and calls that fail

ASSUME ConstantsAssumption ==
  /\ Free \notin Jobs
  /\ {MaxVersie, MaxAdds, MaxFaults} \subseteq Nat

VARIABLES
  document,  \* the newest version of the document in the Documenten API
  since,     \* the first version that came with content, whole or in parts, or 0
  due,       \* the versions whose change notification is not processed
  listed,    \* the zaken that had the document in Corsa before the register existed
  runs,      \* the runs that hold, or think they hold, the lock: job -> run
  lock,      \* the cache lock: the job that took it, or Free
  register,  \* the row of the document in document_syncs, or NoEntry
  shown,     \* the version Corsa shows in each zaak; 0 for nothing or a placeholder
  added,     \* how often the document was added to each zaak in Corsa
  adds,      \* runs that added or tried to
  faults     \* workers that died and calls that failed

newest == <<document, since>>
zgw   == <<newest, due>>
corsa == <<listed, shown, added>>
vars  == <<zgw, corsa, runs, lock, register, adds, faults>>

\* The content is not there, is being uploaded in parts, or is there.  While there are
\* parts, and while there is no content, the API answers without an inhoud, or with an
\* empty one.
Documents == [versie: 1..MaxVersie, content: {"none", "parts", "full"}, inBewerking: BOOLEAN]
Entry == [zaak: Zaken, versie: 1..MaxVersie, placeholder: BOOLEAN]

ASSUME NoEntryAssumption == NoEntry \notin Entry

\* A run: what it does, for which zaak or which change, how far it is, and what it has
\* read of the document and of the register.
AddRun == [op: {"add"}, zaak: Zaken, change: {0}, step: {"locked", "checked", "fetched", "ready", "sent"},
           seen: Documents, sync: Entry \cup {NoEntry}]
UpdateRun == [op: {"update"}, zaak: Zaken, change: 1..MaxVersie,
              step: {"locked", "fetched", "ready", "sent"}, seen: Documents, sync: Entry \cup {NoEntry}]

Init ==
  /\ document \in {d \in Documents : d.versie = 1}
  /\ since = IF document.content = "none" THEN 0 ELSE 1
  /\ due = {} /\ runs = Empty /\ lock = Free /\ register = NoEntry
  /\ listed \in SUBSET Zaken
  /\ shown = [z \in Zaken |-> 0] /\ added = [z \in Zaken |-> 0]
  /\ adds = 0 /\ faults = 0

-----------------------------------------------------------------------------
(* The Documenten API. *)

\* A new version, with its notification.  A document with content keeps content, or
\* waits for the parts of new content.
EditDocument ==
  /\ document.versie < MaxVersie
  /\ \E d \in Documents :
       /\ d.versie = document.versie + 1
       /\ document.content # "none" => d.content # "none"
       /\ document' = d
       /\ since' = IF since = 0 /\ d.content # "none" THEN d.versie ELSE since
  /\ due' = due \cup {document.versie + 1}
  /\ UNCHANGED <<corsa, runs, lock, register, adds, faults>>

\* The last part is uploaded: the version stays the same.
CompleteUpload ==
  /\ document.content = "parts"
  /\ document' = [document EXCEPT !.content = "full"]
  /\ UNCHANGED <<since, due, corsa, runs, lock, register, adds, faults>>

-----------------------------------------------------------------------------
(* The lock.  A job that does not get it throws DocumentLockedException and  *)
(* is released: nothing changes.                                             *)

\* Variant: the lock is not looked at.
LockTaken(j) == lock' = j
TakeLock(j) == lock = Free /\ lock' = j

\* Only its owner releases a lock.
ReleaseLock(j) == lock' = IF lock = j THEN Free ELSE lock

\* Variant: the lock lasts shorter than a job may run.
LockExpiresEarly == lock # Free /\ lock' = Free /\ UNCHANGED <<zgw, corsa, runs, register, adds, faults>>
\* The lock of a worker that died ends after DOCUMENT_LOCK_SECONDS.  The worker's time-out
\* is not longer than that, so no run outlives its lock.
LockExpires ==
  /\ lock \notin DOMAIN runs \cup {Free}
  /\ lock' = Free
  /\ UNCHANGED <<zgw, corsa, runs, register, adds, faults>>

Start(j, op, z, v) ==
  /\ j \notin DOMAIN runs
  /\ TakeLock(j)
  /\ runs' = Put(runs, j, [op |-> op, zaak |-> z, change |-> v, step |-> "locked",
                           seen |-> document, sync |-> NoEntry])
  /\ UNCHANGED <<zgw, corsa, register, faults>>

\* A notification that links the document to z, delivered any number of times.
StartAdd(j, z) == adds < MaxAdds /\ Start(j, "add", z, 0) /\ adds' = adds + 1
\* A notification of a change, on the direct route or in a batch.
StartUpdate(j, z, v) == v \in due /\ Start(j, "update", z, v) /\ UNCHANGED adds

Running(j, op, step) == j \in DOMAIN runs /\ runs[j].op = op /\ runs[j].step = step

Advance(j, step) == runs' = [runs EXCEPT ![j].step = step]

\* The run ends: the lock is released, whatever the outcome.
Finish(j) == runs' = Drop(runs, j) /\ ReleaseLock(j)

\* It ends with an outcome that marks its notification as processed, or with one that
\* leaves it to be tried again: released, waiting, moved to the batch, or failed.
Processed(j) == Finish(j) /\ due' = due \ {runs[j].change}
NotProcessed(j) == Finish(j) /\ UNCHANGED due

-----------------------------------------------------------------------------
(* sendDocumentToZaak and sendDocumentUpdate. *)

\* AlreadySynced; or the run goes on, when the zaak is in Corsa.
CheckRegister(j) ==
  /\ Running(j, "add", "locked")
  /\ IF register # NoEntry /\ register.zaak = runs[j].zaak
     THEN Processed(j)
     ELSE /\ runs' = [runs EXCEPT ![j].sync = register, ![j].step = "checked"]
          /\ UNCHANGED <<due, lock>>
  /\ UNCHANGED <<newest, corsa, register, adds, faults>>

\* Always the newest version.
Fetch(j) ==
  /\ Running(j, "add", "checked") \/ Running(j, "update", "locked")
  /\ runs' = [runs EXCEPT ![j].seen = document, ![j].step = "fetched"]
  /\ UNCHANGED <<zgw, corsa, lock, register, adds, faults>>

MayUsePlaceholder(d) == d.inBewerking /\ d.content # "parts"

\* Without content the run goes on with a placeholder, or throws.
CheckContent(j) ==
  /\ Running(j, "add", "fetched")
  /\ LET seen == runs[j].seen IN
       IF seen.content = "full" \/ MayUsePlaceholder(seen)
       THEN Advance(j, "ready") /\ UNCHANGED <<due, lock>>
       ELSE NotProcessed(j)
  /\ UNCHANGED <<newest, corsa, register, adds, faults>>

\* Variant: the comparison is off by one.
UpToDateOffByOne(d) == register # NoEntry /\ d.versie <= register.versie + 1
AlreadyUpToDate(d) == register # NoEntry /\ d.versie <= register.versie

InListOf(z) == z \in listed \/ added[z] > 0

\* AlreadyUpToDate, UploadIncomplete, DocumentNotInCorsa, PlaceholderKept, or refused for
\* having no content; otherwise the new content can be sent.
CheckVersion(j) ==
  /\ Running(j, "update", "fetched")
  /\ LET seen == runs[j].seen IN
       CASE AlreadyUpToDate(seen)                               -> Processed(j)
         [] ~AlreadyUpToDate(seen) /\ seen.content = "parts"    -> NotProcessed(j)
         [] OTHER ->
              IF register = NoEntry /\ ~InListOf(runs[j].zaak) THEN NotProcessed(j)
              ELSE IF seen.content = "full"
              THEN /\ runs' = [runs EXCEPT ![j].sync = register, ![j].step = "ready"]
                   /\ UNCHANGED <<due, lock>>
              ELSE IF MayUsePlaceholder(seen) THEN Processed(j)
              ELSE NotProcessed(j)
  /\ UNCHANGED <<newest, corsa, register, adds, faults>>

\* The zaak a run sends to: a change goes to the zaak that is registered.
Target(run) == IF run.op = "update" /\ run.sync # NoEntry THEN run.sync.zaak ELSE run.zaak

\* voegZaakdocumentToe or updateZaakDocument reaches Corsa.
InCorsa(run) ==
  /\ shown' = [shown EXCEPT ![Target(run)] = IF run.seen.content = "full" THEN run.seen.versie ELSE 0]
  /\ added' = [added EXCEPT ![Target(run)] = IF run.op = "add" THEN @ + 1 ELSE @]
  /\ UNCHANGED listed

Send(j) ==
  /\ j \in DOMAIN runs /\ runs[j].step = "ready"
  /\ InCorsa(runs[j])
  /\ Advance(j, "sent")
  /\ UNCHANGED <<zgw, lock, register, adds, faults>>

\* The call times out, or fails, after Corsa stored the document.
SendFails(j) ==
  /\ faults < MaxFaults
  /\ j \in DOMAIN runs /\ runs[j].step = "ready"
  /\ InCorsa(runs[j])
  /\ NotProcessed(j)
  /\ faults' = faults + 1
  /\ UNCHANGED <<newest, register, adds>>

\* Any call fails without an effect, or the zaak is not in Corsa (also when Corsa could not
\* say whether it is).
GiveUp(j) ==
  /\ j \in DOMAIN runs /\ runs[j].step # "sent"
  /\ NotProcessed(j)
  /\ UNCHANGED <<newest, corsa, register, adds, faults>>

\* Variants: the row has the newest version, not the one that was sent; it has no version;
\* an add for another zaak changes the version of the row it keeps.
NewEntryNewest(run) ==
  IF run.op = "add" /\ run.sync # NoEntry THEN run.sync
  ELSE [zaak |-> Target(run), versie |-> document.versie, placeholder |-> FALSE]
NewEntryNoVersie(run) == [zaak |-> Target(run), versie |-> 0, placeholder |-> FALSE]
NewEntryOtherZaak(run) ==
  [zaak |-> IF run.sync # NoEntry THEN run.sync.zaak ELSE run.zaak,
   versie |-> run.seen.versie, placeholder |-> run.seen.content # "full"]
\* What the run registers.  An add keeps the row of another zaak; the column of the URL
\* is unique.
NewEntry(run) ==
  IF run.op = "add" /\ run.sync # NoEntry THEN run.sync
  ELSE [zaak |-> Target(run), versie |-> run.seen.versie,
        placeholder |-> run.op = "add" /\ run.seen.content # "full"]

Record(j) ==
  /\ j \in DOMAIN runs /\ runs[j].step = "sent"
  /\ register' = NewEntry(runs[j])
  /\ Processed(j)
  /\ UNCHANGED <<newest, corsa, adds, faults>>

\* The worker dies or is stopped for its time: the lock stays.
Crash(j) ==
  /\ faults < MaxFaults
  /\ j \in DOMAIN runs
  /\ runs' = Drop(runs, j)
  /\ faults' = faults + 1
  /\ UNCHANGED <<zgw, corsa, lock, register, adds>>

Run(j) ==
  \/ CheckRegister(j) \/ Fetch(j) \/ CheckContent(j) \/ CheckVersion(j)
  \/ Send(j) \/ SendFails(j) \/ GiveUp(j) \/ Record(j) \/ Crash(j)

Next ==
  \/ EditDocument \/ CompleteUpload \/ LockExpires
  \/ \E j \in Jobs :
       \/ \E z \in Zaken : StartAdd(j, z) \/ \E v \in 1..MaxVersie : StartUpdate(j, z, v)
       \/ Run(j)

Spec == Init /\ [][Next]_vars

-----------------------------------------------------------------------------
(* Properties. *)

\* Every variable holds values of its type: an entry has a zaak and a version, and a run is
\* at a step of what it does.
TypeOK ==
  /\ document \in Documents /\ since \in 0..MaxVersie /\ due \subseteq 1..MaxVersie
  /\ listed \subseteq Zaken /\ shown \in [Zaken -> 0..MaxVersie] /\ added \in [Zaken -> Nat]
  /\ IsTable(runs, Jobs, AddRun \cup UpdateRun)
  /\ lock \in Jobs \cup {Free}
  /\ register \in Entry \cup {NoEntry}
  /\ adds \in Nat /\ faults \in Nat

\* Corsa never shows an older version of the document, or a placeholder, after a newer one,
\* although reading the document and sending it are far apart and the document changes in
\* between, in whatever order the notifications of the changes are handled.
NeverOlder == [][\A z \in Zaken : shown'[z] >= shown[z]]_vars

\* What document_syncs says is true: Corsa shows the registered version, or a newer one, in
\* the registered zaak.  AlreadyUpToDate relies on it.
RegisterTrue ==
  register # NoEntry =>
    register.placeholder \/ shown[register.zaak] >= register.versie

\* No change gets lost: when the notification of every change is processed, Corsa shows the
\* newest version, whether it was sent by a change or by the add.
NewestArrives ==
  register # NoEntry /\ document.content = "full" /\ due = {} /\ DOMAIN runs = {} =>
    shown[register.zaak] = document.versie

\* A document is added once to the zaak it is registered for, but for a worker that died or
\* a call that timed out, however often its link is delivered and whichever jobs run at once.
RegisteredOnce ==
  \A z \in Zaken : register = NoEntry \/ register.zaak = z => added[z] <= 1 + faults

\* docs/notificaties.md:63, "Zo voegt een notificatie die twee keer binnenkomt het document
\* niet twee keer toe": the same for every zaak.
AddedOnce == \A z \in Zaken : added[z] <= 1 + faults
=============================================================================
