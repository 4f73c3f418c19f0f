---------------------------- MODULE CatalogiSync ----------------------------
(* The daily copy of catalogi and zaaktypen from the Catalogi API:           *)
(* SyncAllCatalogi, which the schedule and a button start, and the           *)
(* SyncCatalogus jobs it dispatches.  The copy is made in steps by jobs that *)
(* run side by side, while the catalogi change and an admin edits and        *)
(* deletes rows of both tables.                                              *)
EXTENDS Tables, Integers

CONSTANTS
  Catalogi, Zaaktypen,  \* urls
  CatalogusOf,          \* the catalogus of each zaaktype
  Workers, Ids,         \* workers, and keys for rows
  NoRow,                \* "no row" as the result of a query
  MaxRequests,          \* bound on the SyncAllCatalogi jobs that wait
  MaxChanges,           \* bound on the changes of the Catalogi API
  MaxEdits,             \* bound on what the admin does
  MaxFaults             \* bound on jobs that fail

ASSUME ConstantsAssumption ==
  /\ CatalogusOf \in [Zaaktypen -> Catalogi]
  /\ Ids \subseteq Nat /\ NoRow \notin Ids
  /\ {MaxRequests, MaxChanges, MaxEdits, MaxFaults} \subseteq Nat

VARIABLES
  zgw,       \* the catalogi and the zaaktypen in the Catalogi API
  catalogi,  \* table catalogi: id -> row
  mappings,  \* table zaaktype_mappings: id -> row
  requests,  \* SyncAllCatalogi jobs on the queue
  queued,    \* catalogi with a SyncCatalogus job on the queue
  runs,      \* jobs that run: worker -> run
  absent,    \* catalogi that were not in the API when a job fetched the list
  changes, edits, faults  \* how often the API changed, the admin edited, a job failed

tables == <<catalogi, mappings>>
jobs   == <<requests, queued, runs>>
counts == <<changes, edits, faults>>
vars   == <<zgw, tables, jobs, absent, counts>>

\* "chosen" is not a column: it is what the admin chose last for "active", which the sync
\* leaves off in what it creates.  "active" of a mapping stands for is_active and
\* corsa_zaaktype_code, which are set in one form.
CatalogusRow == [url: Catalogi, active: BOOLEAN, chosen: BOOLEAN]
MappingRow == [url: Zaaktypen, catalogus: Ids, active: BOOLEAN, chosen: BOOLEAN]

\* A SyncAllCatalogi: the list it fetched, the urls of it that are left, the one it found no
\* row for, and the active rows that are not in the list.
AllRun == [op: {"all"}, step: {"find", "insert", "stale"}, list: SUBSET Catalogi,
           todo: SUBSET Catalogi, at: Catalogi \cup {NoRow}, stale: SUBSET Ids]
\* A SyncCatalogus: its catalogus, the zaaktypen that are left, the one it is at, and the
\* mapping it found for that.
Found == [id: Ids, row: MappingRow]
OneRun == [op: {"one"}, step: {"find", "write"}, catalogus: Ids, todo: SUBSET Zaaktypen,
           at: Zaaktypen \cup {NoRow}, found: Found \cup {NoRow}]

CatalogusRows(c) == {i \in DOMAIN catalogi : catalogi[i].url = c}
MappingRows(z) == {m \in DOMAIN mappings : mappings[m].url = z}
ActiveIds == {i \in DOMAIN catalogi : catalogi[i].active}

\* An id that no row, job or run refers to is as good as one that was never used.
IdsOfRun(run) == IF run.op = "all" THEN run.stale
                 ELSE {run.catalogus} \cup IF run.found = NoRow THEN {} ELSE {run.found.id}
UsedIds == DOMAIN catalogi \cup DOMAIN mappings \cup queued \cup UNION {IdsOfRun(runs[w]) : w \in DOMAIN runs}
NewIds == {i \in Ids \ UsedIds : \A j \in Ids \ UsedIds : i <= j}

Init ==
  /\ zgw \in [catalogi: SUBSET Catalogi, zaaktypen: {Zaaktypen}]
  /\ catalogi = Empty /\ mappings = Empty
  /\ requests = 0 /\ queued = {} /\ runs = Empty
  /\ absent = {}
  /\ changes = 0 /\ edits = 0 /\ faults = 0

-----------------------------------------------------------------------------
(* The Catalogi API. *)

\* A catalogus appears or disappears, with its zaaktypen; or a zaaktype does.
ChangeZgw ==
  /\ changes < MaxChanges
  /\ \/ \E c \in Catalogi : zgw' = [zgw EXCEPT !.catalogi = IF c \in @ THEN @ \ {c} ELSE @ \cup {c}]
     \/ \E z \in Zaaktypen : zgw' = [zgw EXCEPT !.zaaktypen = IF z \in @ THEN @ \ {z} ELSE @ \cup {z}]
  /\ changes' = changes + 1
  /\ UNCHANGED <<tables, jobs, absent, edits, faults>>

ZaaktypenOf(c) == {z \in zgw.zaaktypen : c \in zgw.catalogi /\ CatalogusOf[z] = c}

-----------------------------------------------------------------------------
(* The admin panel. *)

Edit == edits < MaxEdits /\ edits' = edits + 1 /\ UNCHANGED <<zgw, runs, absent, changes, faults>>

\* The url is unique.
AddCatalogus(c, active) ==
  /\ Edit
  /\ CatalogusRows(c) = {}
  /\ \E i \in NewIds :
       catalogi' = Put(catalogi, i, [url |-> c, active |-> active, chosen |-> active])
  /\ UNCHANGED <<mappings, requests, queued>>

\* The form is saved as it was opened, but for what the admin changed in it: any value at any
\* moment, whatever a sync did since.
EditCatalogus(i, active) ==
  /\ Edit
  /\ i \in DOMAIN catalogi
  /\ catalogi' = [catalogi EXCEPT ![i].active = active, ![i].chosen = active]
  /\ UNCHANGED <<mappings, requests, queued>>

\* The mappings are deleted along with their catalogus.
DeleteCatalogus(i) ==
  /\ Edit
  /\ i \in DOMAIN catalogi
  /\ catalogi' = Drop(catalogi, i)
  /\ mappings' = [m \in {n \in DOMAIN mappings : mappings[n].catalogus # i} |-> mappings[m]]
  /\ UNCHANGED <<requests, queued>>

EditMapping(m, active) ==
  /\ Edit
  /\ m \in DOMAIN mappings
  /\ mappings' = [mappings EXCEPT ![m].active = active, ![m].chosen = active]
  /\ UNCHANGED <<catalogi, requests, queued>>

DeleteMapping(m) ==
  /\ Edit
  /\ m \in DOMAIN mappings
  /\ mappings' = Drop(mappings, m)
  /\ UNCHANGED <<catalogi, requests, queued>>

\* The button of one catalogus, active or not.
RequestOne(i) ==
  /\ Edit
  /\ i \in DOMAIN catalogi
  /\ queued' = queued \cup {i}
  /\ UNCHANGED <<tables, requests>>

\* The schedule, every day, or a button.
RequestAll ==
  /\ requests < MaxRequests
  /\ requests' = requests + 1
  /\ UNCHANGED <<zgw, tables, queued, runs, absent, counts>>

-----------------------------------------------------------------------------
(* SyncAllCatalogi::handle.                                                  *)

Is(w, op, step) == w \in DOMAIN runs /\ runs[w].op = op /\ runs[w].step = step

Ends(w) == runs' = Drop(runs, w)

\* All pages of the list are read, or the job fails.
FetchCatalogi(w) ==
  /\ requests > 0 /\ w \notin DOMAIN runs
  /\ requests' = requests - 1
  /\ runs' = Put(runs, w, [op |-> "all", step |-> "find", list |-> zgw.catalogi,
                           todo |-> zgw.catalogi, at |-> NoRow, stale |-> {}])
  /\ absent' = absent \cup (Catalogi \ zgw.catalogi)
  /\ UNCHANGED <<zgw, tables, queued, counts>>

\* The catalogi of the list are looked up one by one.
FindCatalogus(w, c) ==
  /\ Is(w, "all", "find") /\ c \in runs[w].todo
  /\ runs' = IF CatalogusRows(c) # {} THEN [runs EXCEPT ![w].todo = @ \ {c}]
             ELSE [runs EXCEPT ![w].todo = @ \ {c}, ![w].step = "insert", ![w].at = c]
  /\ UNCHANGED <<zgw, tables, requests, queued, absent, counts>>

\* Variant: the column is not unique.
NeverTaken(c) == FALSE
Taken(c) == CatalogusRows(c) # {}

\* A row that another made meanwhile makes the insert, and the job, fail: the url is unique.
InsertCatalogus(w) ==
  /\ Is(w, "all", "insert")
  /\ LET c == runs[w].at IN
       IF Taken(c) THEN Ends(w) /\ UNCHANGED catalogi
       ELSE /\ \E i \in NewIds :
                 catalogi' = Put(catalogi, i, [url |-> c, active |-> FALSE, chosen |-> FALSE])
            /\ runs' = [runs EXCEPT ![w].step = "find", ![w].at = NoRow]
  /\ UNCHANGED <<zgw, mappings, requests, queued, absent, counts>>

\* Variants: every active row, also one that is in the list; the rows that are not active.
StaleEvery(list) == ActiveIds
StaleInactive(list) == {i \in DOMAIN catalogi \ ActiveIds : catalogi[i].url \notin list}
Stale(list) == {i \in ActiveIds : catalogi[i].url \notin list}

FindStale(w) ==
  /\ Is(w, "all", "find") /\ runs[w].todo = {}
  /\ runs' = [runs EXCEPT ![w].step = "stale", ![w].stale = Stale(runs[w].list)]
  /\ UNCHANGED <<zgw, tables, requests, queued, absent, counts>>

Deactivate(w, i) ==
  /\ Is(w, "all", "stale") /\ i \in runs[w].stale
  /\ catalogi' = [j \in DOMAIN catalogi |->
                    IF j = i THEN [catalogi[j] EXCEPT !.active = FALSE] ELSE catalogi[j]]
  /\ runs' = [runs EXCEPT ![w].stale = @ \ {i}]
  /\ UNCHANGED <<zgw, mappings, requests, queued, absent, counts>>

DispatchSyncs(w) ==
  /\ Is(w, "all", "stale") /\ runs[w].stale = {}
  /\ queued' = queued \cup ActiveIds
  /\ Ends(w)
  /\ UNCHANGED <<zgw, tables, requests, absent, counts>>

-----------------------------------------------------------------------------
(* SyncCatalogus::handle.                                                    *)

\* The job reads its catalogus again, and fails without one.  The zaaktypen come in pages;
\* here they are one read.
StartSync(w, i) ==
  /\ i \in queued /\ w \notin DOMAIN runs
  /\ queued' = queued \ {i}
  /\ runs' = IF i \notin DOMAIN catalogi THEN runs
             ELSE Put(runs, w, [op |-> "one", step |-> "find", catalogus |-> i,
                                todo |-> ZaaktypenOf(catalogi[i].url), at |-> NoRow, found |-> NoRow])
  /\ UNCHANGED <<zgw, tables, requests, absent, counts>>

\* updateOrCreate: the mapping is looked up ...
FindMapping(w, z) ==
  /\ Is(w, "one", "find") /\ z \in runs[w].todo
  /\ \E found \in IF MappingRows(z) = {} THEN {NoRow}
                  ELSE {[id |-> m, row |-> mappings[m]] : m \in MappingRows(z)} :
       runs' = [runs EXCEPT ![w].todo = @ \ {z}, ![w].step = "write", ![w].at = z, ![w].found = found]
  /\ UNCHANGED <<zgw, tables, requests, queued, absent, counts>>

\* ... and inserted, or updated: the row that was found, or one that was inserted meanwhile.
MappingsToUpdate(run) ==
  IF run.found = NoRow THEN MappingRows(run.at) ELSE {run.found.id} \cap DOMAIN mappings

\* Variant: the row is written as it was found.
WrittenWhole(run, row) ==
  [row EXCEPT !.catalogus = run.catalogus,
              !.active = IF run.found = NoRow THEN @ ELSE run.found.row.active]
\* Only the columns of the sync: the settings of the admin stay.
Written(run, row) == [row EXCEPT !.catalogus = run.catalogus]

\* Variant: the catalogus is not a foreign key.
NeverRefused(run) == FALSE
\* A mapping needs a catalogus that exists; the update of a row that was deleted since does
\* nothing.
Refused(run) ==
  run.catalogus \notin DOMAIN catalogi /\ (run.found = NoRow \/ MappingsToUpdate(run) # {})

\* A write that is refused makes the job fail.
WriteMapping(w) ==
  /\ Is(w, "one", "write")
  /\ LET run == runs[w]
         old == MappingsToUpdate(run)
     IN  \/ Refused(run) /\ Ends(w) /\ UNCHANGED mappings
         \/ /\ ~Refused(run)
            /\ runs' = [runs EXCEPT ![w].step = "find", ![w].at = NoRow, ![w].found = NoRow]
            /\ IF run.found = NoRow /\ old = {}
               THEN \E m \in NewIds :
                      mappings' = Put(mappings, m, [url |-> run.at, catalogus |-> run.catalogus,
                                                    active |-> FALSE, chosen |-> FALSE])
               ELSE mappings' = [m \in DOMAIN mappings |->
                                   IF m \in old THEN Written(run, mappings[m]) ELSE mappings[m]]
  /\ UNCHANGED <<zgw, catalogi, requests, queued, absent, counts>>

FinishSync(w) ==
  /\ Is(w, "one", "find") /\ runs[w].todo = {}
  /\ Ends(w)
  /\ UNCHANGED <<zgw, tables, requests, queued, absent, counts>>

\* One try: an error of the API or a worker that died ends the job where it is, also when it
\* has dispatched a part of the jobs.
SyncFails(w) ==
  /\ faults < MaxFaults
  /\ w \in DOMAIN runs
  /\ Ends(w)
  /\ \E part \in SUBSET ActiveIds :
       /\ part # {} => Is(w, "all", "stale") /\ runs[w].stale = {}
       /\ queued' = queued \cup part
  /\ faults' = faults + 1
  /\ UNCHANGED <<zgw, tables, requests, absent, changes, edits>>

-----------------------------------------------------------------------------
Admin ==
  \/ \E c \in Catalogi, active \in BOOLEAN : AddCatalogus(c, active)
  \/ \E i \in Ids : DeleteCatalogus(i) \/ DeleteMapping(i) \/ RequestOne(i)
  \/ \E i \in Ids, active \in BOOLEAN : EditCatalogus(i, active) \/ EditMapping(i, active)

Step(w) ==
  \/ \E c \in Catalogi : FindCatalogus(w, c)
  \/ InsertCatalogus(w) \/ FindStale(w) \/ DispatchSyncs(w)
  \/ \E i \in Ids : Deactivate(w, i)
  \/ \E z \in Zaaktypen : FindMapping(w, z)
  \/ WriteMapping(w) \/ FinishSync(w)

Next ==
  \/ ChangeZgw \/ RequestAll \/ Admin
  \/ \E w \in Workers :
       \/ FetchCatalogi(w) \/ Step(w) \/ SyncFails(w)
       \/ \E i \in Ids : StartSync(w, i)

Spec == Init /\ [][Next]_vars

\* The schedule asks for a sync every day, a job goes on, and the queue hands out the jobs in
\* their order, so that each gets a worker although there is always another job.
Fairness ==
  /\ WF_vars(RequestAll)
  /\ SF_vars(\E w \in Workers : FetchCatalogi(w))
  /\ \A i \in Ids : SF_vars(\E w \in Workers : StartSync(w, i))
  /\ \A w \in Workers : WF_vars(Step(w))
FairSpec == Spec /\ Fairness

-----------------------------------------------------------------------------
(* Properties. *)

\* Every variable holds values of its type; a catalogus has one row, although
\* two syncs and the admin may make it at once.
TypeOK ==
  /\ zgw \in [catalogi: SUBSET Catalogi, zaaktypen: SUBSET Zaaktypen]
  /\ IsTable(catalogi, Ids, CatalogusRow) /\ IsTable(mappings, Ids, MappingRow)
  /\ requests \in Nat /\ queued \subseteq Ids
  /\ IsTable(runs, Workers, AllRun \cup OneRun)
  /\ \A i, j \in DOMAIN catalogi : catalogi[i].url = catalogi[j].url => i = j
  /\ absent \subseteq Catalogi
  /\ {changes, edits, faults} \subseteq Nat

\* The comment of SyncCatalogus, "Preserve existing corsa_zaaktype_code and is_active on
\* re-sync": what the admin set stays set, also when it was set between the read and the
\* write of a sync, or in a row that another sync just made.
SettingsKept == \A m \in DOMAIN mappings : mappings[m].active = mappings[m].chosen

\* A sync deactivates a catalogus only if it was not in the API when some sync fetched the
\* list, whatever is added and activated while syncs run; and it never activates one.
KeepsExisting ==
  \A i \in DOMAIN catalogi :
    catalogi[i].active # catalogi[i].chosen => catalogi[i].chosen /\ catalogi[i].url \in absent

\* A mapping belongs to a catalogus that exists and that has its zaaktype, although a sync
\* writes it long after it read the catalogus.
MappingsBelong ==
  \A m \in DOMAIN mappings :
    /\ mappings[m].catalogus \in DOMAIN catalogi
    /\ catalogi[mappings[m].catalogus].url = CatalogusOf[mappings[m].url]

\* The copy catches up: a catalogus that stays in the API gets a row, one that stays away
\* becomes inactive, and a zaaktype that stays, of a catalogus that stays active, gets a
\* mapping; although a sync fails halfway when another one, or the admin, makes the same row.
CatchesUp ==
  /\ \A c \in Catalogi :
       /\ <>[](c \in zgw.catalogi) => <>[](CatalogusRows(c) # {})
       /\ <>[](c \notin zgw.catalogi) => <>[](CatalogusRows(c) \cap ActiveIds = {})
  /\ \A z \in Zaaktypen :
       <>[](z \in ZaaktypenOf(CatalogusOf[z]) /\ CatalogusRows(CatalogusOf[z]) \cap ActiveIds # {})
         => <>[](MappingRows(z) # {})
=============================================================================
