--------------------------- MODULE CatalogiProofs ---------------------------
(* Theorems about CatalogiSync, for every value of its constants. *)
EXTENDS CatalogiImplements, TablesProofs

RunRow == AllRun \cup OneRun

\* A run of the whole sync: what is not in its list was absent, and so was what it is about
\* to deactivate.
AllInv(run) ==
  /\ Catalogi \ run.list \subseteq absent
  /\ run.step = "insert" => run.at \in Catalogi
  /\ \A i \in run.stale : i \in DOMAIN catalogi => catalogi[i].url \in absent

\* A run of one catalogus: the zaaktypen it is about are those of its catalogus, and the
\* mapping it found is that of the zaaktype it is at, as long as these rows exist.
OneInv(run) ==
  /\ run.catalogus \in DOMAIN catalogi => \A z \in run.todo : CatalogusOf[z] = catalogi[run.catalogus].url
  /\ run.step = "write" =>
       /\ run.at \in Zaaktypen
       /\ run.catalogus \in DOMAIN catalogi => CatalogusOf[run.at] = catalogi[run.catalogus].url
       /\ run.found # NoRow /\ run.found.id \in DOMAIN mappings => mappings[run.found.id].url = run.at

RunInv(run) == IF run.op = "all" THEN AllInv(run) ELSE OneInv(run)
RunsInv == \A w \in DOMAIN runs : RunInv(runs[w])

CatInv == TypeOK /\ SettingsKept /\ KeepsExisting /\ MappingsBelong /\ RunsInv

-----------------------------------------------------------------------------
(* Rows that a run refers to are not replaced by others. *)

RowsStay ==
  /\ absent \subseteq absent'
  /\ \A i \in DOMAIN catalogi' : i \in NewIds \/ (i \in DOMAIN catalogi /\ catalogi'[i].url = catalogi[i].url)
  /\ \A m \in DOMAIN mappings' : m \in NewIds \/ (m \in DOMAIN mappings /\ mappings'[m].url = mappings[m].url)

\* A key for a new row is one that no row and no run refers to.
LEMMA NewIdsUnused ==
  ASSUME NEW i \in NewIds
  PROVE  /\ i \in Ids /\ i \notin DOMAIN catalogi /\ i \notin DOMAIN mappings
         /\ \A w \in DOMAIN runs : i \notin IdsOfRun(runs[w])
BY DEF NewIds, UsedIds

\* A run is of one of the two jobs.
LEMMA RunFields ==
  ASSUME NEW run \in RunRow
  PROVE  /\ run.op = "all" => run \in AllRun
         /\ run.op # "all" => run \in OneRun
BY DEF RunRow, AllRun, OneRun

\* What is true of a run stays true while rows it refers to are not replaced.
LEMMA RunStays ==
  ASSUME CatInv, RowsStay, NEW run, NEW w \in DOMAIN runs, run = runs[w]
  PROVE  RunInv(run)'
<1>1. RunInv(run) /\ run \in RunRow
  BY RowOfTable DEF CatInv, RunsInv, TypeOK, RunRow
<1>2. \A i \in NewIds : i \notin IdsOfRun(run)
  BY NewIdsUnused
<1>3. CASE run.op = "all"
  <2>1. AllInv(run) /\ \A i \in NewIds : i \notin run.stale
    BY <1>1, <1>2, <1>3 DEF RunInv, IdsOfRun
  <2> QED
    BY <1>3, <2>1 DEF RunInv, AllInv, RowsStay
<1>4. CASE run.op # "all"
  <2>1. /\ OneInv(run)
        /\ \A i \in NewIds : i # run.catalogus /\ (run.found # NoRow => i # run.found.id)
    BY <1>1, <1>2, <1>4 DEF RunInv, IdsOfRun
  <2> QED
    BY <1>4, <2>1 DEF RunInv, OneInv, RowsStay
<1> QED
  BY <1>3, <1>4

\* Runs that go on as they were, or end.
LEMMA RunsStay ==
  ASSUME CatInv, RowsStay, DOMAIN runs' \subseteq DOMAIN runs, \A w \in DOMAIN runs' : runs'[w] = runs[w]
  PROVE  RunsInv'
<1>1. ASSUME NEW w \in DOMAIN runs' PROVE RunInv(runs[w])'
  <2>1. PICK run : run = runs[w]
    OBVIOUS
  <2>2. RunInv(run)' /\ runs'[w] = run
    BY <2>1, RunStays
  <2> QED
    BY <2>2
<1> QED
  BY <1>1 DEF RunsInv

\* One run that starts or goes on.
LEMMA RunChanges ==
  ASSUME CatInv, RowsStay, NEW w, NEW run, RunInv(run)',
         DOMAIN runs' \subseteq DOMAIN runs \cup {w}, runs'[w] = run,
         \A v \in DOMAIN runs : v # w => runs'[v] = runs[v]
  PROVE  RunsInv'
<1>1. ASSUME NEW v \in DOMAIN runs' PROVE RunInv(runs[v])'
  <2>1. CASE v = w
    BY <2>1
  <2>2. CASE v # w
    <3>1. PICK old : old = runs[v]
      OBVIOUS
    <3>2. RunInv(old)' /\ runs'[v] = old
      BY <2>2, <3>1, RunStays
    <3> QED
      BY <3>2
  <2> QED
    BY <2>1, <2>2
<1> QED
  BY <1>1 DEF RunsInv

-----------------------------------------------------------------------------
(* What changes in the tables. *)

UniqueUrls == \A i, j \in DOMAIN catalogi : catalogi[i].url = catalogi[j].url => i = j

\* What the invariant says of the tables.
RowsInv ==
  /\ IsTable(catalogi, Ids, CatalogusRow) /\ IsTable(mappings, Ids, MappingRow)
  /\ UniqueUrls /\ SettingsKept /\ KeepsExisting /\ MappingsBelong

\* A new row with a url of its own, as the admin or a sync chose it, keeps the tables right.
LEMMA CatalogusAdded ==
  ASSUME CatInv, NEW c \in Catalogi, CatalogusRows(c) = {}, NEW i \in NewIds, NEW active \in BOOLEAN,
         catalogi' = Put(catalogi, i, [url |-> c, active |-> active, chosen |-> active]),
         UNCHANGED <<mappings, absent>>
  PROVE  RowsInv' /\ RowsStay
<1> DEFINE row == [url |-> c, active |-> active, chosen |-> active]
<1>1. i \in Ids /\ i \notin DOMAIN catalogi
  BY NewIdsUnused
<1>2. row \in CatalogusRow /\ row.url = c /\ row.active = row.chosen
  BY DEF CatalogusRow
<1>3. catalogi' = Put(catalogi, i, row)
  OBVIOUS
<1> HIDE DEF row
<1>4. IsTable(catalogi', Ids, CatalogusRow)
  BY <1>1, <1>2, <1>3, PutIsTable DEF CatInv, TypeOK
<1>5. /\ DOMAIN catalogi' = DOMAIN catalogi \cup {i} /\ catalogi'[i] = row
      /\ \A j \in DOMAIN catalogi : catalogi'[j] = catalogi[j]
  BY <1>1, <1>3 DEF Put
<1>6. \A j \in DOMAIN catalogi : catalogi[j].url # c
  BY DEF CatalogusRows
<1>7. UniqueUrls'
  BY <1>2, <1>5, <1>6 DEF CatInv, TypeOK, UniqueUrls
<1>8. SettingsKept' /\ KeepsExisting'
  BY <1>2, <1>5 DEF CatInv, SettingsKept, KeepsExisting
<1>9. MappingsBelong'
  BY <1>5 DEF CatInv, MappingsBelong
<1>10. RowsStay
  BY <1>5 DEF RowsStay
<1> QED
  BY <1>4, <1>7, <1>8, <1>9, <1>10 DEF RowsInv, CatInv, TypeOK

\* A row of catalogi keeps its url.
LEMMA CatalogusChanged ==
  ASSUME CatInv, NEW i \in DOMAIN catalogi, NEW row \in CatalogusRow,
         row.url = catalogi[i].url,
         row.active # row.chosen => row.chosen /\ row.url \in absent,
         catalogi' = [catalogi EXCEPT ![i] = row],
         UNCHANGED <<mappings, absent>>
  PROVE  RowsInv' /\ RowsStay
<1>1. DOMAIN catalogi \subseteq Ids /\ catalogi \in [DOMAIN catalogi -> CatalogusRow]
  BY DEF CatInv, TypeOK, IsTable
<1>2. /\ DOMAIN catalogi' = DOMAIN catalogi /\ catalogi'[i] = row
      /\ \A j \in DOMAIN catalogi : j # i => catalogi'[j] = catalogi[j]
      /\ catalogi' \in [DOMAIN catalogi -> CatalogusRow]
  BY <1>1
<1>3. \A j \in DOMAIN catalogi : catalogi'[j].url = catalogi[j].url
  BY <1>2
<1>4. UniqueUrls' /\ RowsStay
  BY <1>2, <1>3 DEF CatInv, TypeOK, UniqueUrls, RowsStay
<1>5. SettingsKept' /\ KeepsExisting' /\ MappingsBelong'
  BY <1>2, <1>3 DEF CatInv, SettingsKept, KeepsExisting, MappingsBelong
<1> QED
  BY <1>1, <1>2, <1>4, <1>5 DEF RowsInv, CatInv, TypeOK, IsTable

\* A step that leaves both tables alone.
LEMMA TablesStay ==
  ASSUME CatInv, UNCHANGED tables, absent \subseteq absent'
  PROVE  RowsInv' /\ RowsStay
<1>1. UNCHANGED <<catalogi, mappings>>
  BY DEF tables
<1> QED
  BY <1>1 DEF CatInv, TypeOK, RowsInv, UniqueUrls, SettingsKept, KeepsExisting, MappingsBelong, RowsStay

\* The parts make the invariant.
LEMMA PartsMakeInv ==
  ASSUME CatInv, RowsInv', RunsInv', IsTable(runs', Workers, AllRun \cup OneRun),
         zgw' \in [catalogi: SUBSET Catalogi, zaaktypen: SUBSET Zaaktypen],
         requests' \in Nat, queued' \subseteq Ids, absent' \subseteq Catalogi,
         changes' \in Nat, edits' \in Nat, faults' \in Nat
  PROVE  CatInv'
BY DEF CatInv, TypeOK, RowsInv, UniqueUrls

\* A step that changes no run.
LEMMA NoRunMoves ==
  ASSUME CatInv, RowsInv', RowsStay, UNCHANGED runs,
         zgw' \in [catalogi: SUBSET Catalogi, zaaktypen: SUBSET Zaaktypen],
         requests' \in Nat, queued' \subseteq Ids, absent' \subseteq Catalogi,
         changes' \in Nat, edits' \in Nat, faults' \in Nat
  PROVE  CatInv'
<1>1. RunsInv'
  BY RunsStay
<1> QED
  BY <1>1, PartsMakeInv DEF CatInv, TypeOK

-----------------------------------------------------------------------------
(* The API and the admin. *)

\* The invariant does not depend on what the API has now.
LEMMA ChangeKeeps ==
  ASSUME CatInv, ChangeZgw
  PROVE  CatInv'
<1>1. UNCHANGED <<tables, requests, queued, runs, absent, edits, faults>> /\ changes' = changes + 1
  BY DEF ChangeZgw, jobs
<1>2. RowsInv' /\ RowsStay
  BY <1>1, TablesStay
<1>3. zgw' \in [catalogi: SUBSET Catalogi, zaaktypen: SUBSET Zaaktypen]
  <2>1. zgw \in [catalogi: SUBSET Catalogi, zaaktypen: SUBSET Zaaktypen]
    BY DEF CatInv, TypeOK
  <2>2. CASE \E c \in Catalogi : zgw' = [zgw EXCEPT !.catalogi = IF c \in @ THEN @ \ {c} ELSE @ \cup {c}]
    <3>1. PICK c \in Catalogi :
            zgw' = [zgw EXCEPT !.catalogi = IF c \in zgw.catalogi THEN zgw.catalogi \ {c} ELSE zgw.catalogi \cup {c}]
      BY <2>2
    <3>2. (IF c \in zgw.catalogi THEN zgw.catalogi \ {c} ELSE zgw.catalogi \cup {c}) \in SUBSET Catalogi
      BY <2>1
    <3> QED
      BY <2>1, <3>1, <3>2
  <2>3. CASE \E z \in Zaaktypen : zgw' = [zgw EXCEPT !.zaaktypen = IF z \in @ THEN @ \ {z} ELSE @ \cup {z}]
    <3>1. PICK z \in Zaaktypen :
            zgw' = [zgw EXCEPT !.zaaktypen = IF z \in zgw.zaaktypen THEN zgw.zaaktypen \ {z} ELSE zgw.zaaktypen \cup {z}]
      BY <2>3
    <3>2. (IF z \in zgw.zaaktypen THEN zgw.zaaktypen \ {z} ELSE zgw.zaaktypen \cup {z}) \in SUBSET Zaaktypen
      BY <2>1
    <3> QED
      BY <2>1, <3>1, <3>2
  <2> QED
    BY <2>2, <2>3 DEF ChangeZgw
<1> QED
  BY <1>1, <1>2, <1>3, NoRunMoves DEF CatInv, TypeOK

\* What an edit of the admin leaves alone.
LEMMA EditKeeps ==
  ASSUME CatInv, Edit, RowsInv', RowsStay, requests' = requests, queued' \subseteq Ids
  PROVE  CatInv'
<1>1. UNCHANGED <<zgw, runs, absent, changes, faults>> /\ edits' = edits + 1
  BY DEF Edit
<1> QED
  BY <1>1, NoRunMoves DEF CatInv, TypeOK

\* A catalogus that the admin adds.
LEMMA AddCatalogusKeeps ==
  ASSUME CatInv, NEW c \in Catalogi, NEW active \in BOOLEAN, AddCatalogus(c, active)
  PROVE  CatInv'
<1>1. /\ Edit /\ UNCHANGED <<mappings, absent, requests, queued>> /\ CatalogusRows(c) = {}
      /\ \E i \in NewIds : catalogi' = Put(catalogi, i, [url |-> c, active |-> active, chosen |-> active])
  BY DEF AddCatalogus, Edit
<1>2. RowsInv' /\ RowsStay
  BY <1>1, CatalogusAdded
<1> QED
  BY <1>1, <1>2, EditKeeps DEF CatInv, TypeOK

\* A catalogus that the admin activates or deactivates.
LEMMA EditCatalogusKeeps ==
  ASSUME CatInv, NEW i \in Ids, NEW active \in BOOLEAN, EditCatalogus(i, active)
  PROVE  CatInv'
<1> DEFINE row == [catalogi[i] EXCEPT !.active = active, !.chosen = active]
<1>1. /\ Edit /\ UNCHANGED <<mappings, absent, requests, queued>> /\ i \in DOMAIN catalogi
      /\ catalogi[i] \in CatalogusRow
  BY RowOfTable DEF EditCatalogus, Edit, CatInv, TypeOK
<1>2. catalogi' = [catalogi EXCEPT ![i] = row]
  BY <1>1 DEF EditCatalogus
<1>3. row \in CatalogusRow /\ row.url = catalogi[i].url /\ row.active = row.chosen
  BY <1>1 DEF CatalogusRow
<1> HIDE DEF row
<1>4. RowsInv' /\ RowsStay
  BY <1>1, <1>2, <1>3, CatalogusChanged
<1> QED
  BY <1>1, <1>4, EditKeeps DEF CatInv, TypeOK

\* With the catalogus go the mappings that are its own.
LEMMA DeleteCatalogusKeeps ==
  ASSUME CatInv, NEW i \in Ids, DeleteCatalogus(i)
  PROVE  CatInv'
<1>1. /\ Edit /\ UNCHANGED <<absent, requests, queued>> /\ catalogi' = Drop(catalogi, i)
      /\ mappings' = [m \in {n \in DOMAIN mappings : mappings[n].catalogus # i} |-> mappings[m]]
  BY DEF DeleteCatalogus, Edit
<1>2. /\ DOMAIN catalogi' = DOMAIN catalogi \ {i} /\ \A j \in DOMAIN catalogi' : catalogi'[j] = catalogi[j]
      /\ DOMAIN mappings' = {n \in DOMAIN mappings : mappings[n].catalogus # i}
      /\ \A m \in DOMAIN mappings' : mappings'[m] = mappings[m]
  BY <1>1 DEF Drop
<1>3. IsTable(catalogi', Ids, CatalogusRow)
  BY <1>1, DropIsTable DEF CatInv, TypeOK
<1>4. IsTable(mappings', Ids, MappingRow)
  BY <1>1 DEF CatInv, TypeOK, IsTable
<1>5. UniqueUrls' /\ SettingsKept' /\ KeepsExisting' /\ MappingsBelong'
  BY <1>1, <1>2 DEF CatInv, TypeOK, UniqueUrls, SettingsKept, KeepsExisting, MappingsBelong
<1>6. RowsStay
  BY <1>1, <1>2 DEF RowsStay
<1> QED
  BY <1>1, <1>3, <1>4, <1>5, <1>6, EditKeeps DEF RowsInv, CatInv, TypeOK

\* Mappings whose url stays, and that keep a catalogus that has their zaaktype.
LEMMA MappingsChanged ==
  ASSUME CatInv, UNCHANGED <<catalogi, absent>>, IsTable(mappings', Ids, MappingRow),
         DOMAIN mappings' \subseteq DOMAIN mappings,
         \A m \in DOMAIN mappings' :
           /\ mappings'[m].url = mappings[m].url
           /\ mappings'[m].active = mappings'[m].chosen
           /\ \/ mappings'[m].catalogus = mappings[m].catalogus
              \/ /\ mappings'[m].catalogus \in DOMAIN catalogi
                 /\ catalogi[mappings'[m].catalogus].url = CatalogusOf[mappings[m].url]
  PROVE  RowsInv' /\ RowsStay
<1>1. SettingsKept' /\ KeepsExisting' /\ UniqueUrls'
  BY DEF CatInv, TypeOK, SettingsKept, KeepsExisting, UniqueUrls
<1>2. MappingsBelong'
  BY DEF CatInv, MappingsBelong
<1>3. RowsStay
  BY DEF RowsStay
<1> QED
  BY <1>1, <1>2, <1>3 DEF RowsInv, CatInv, TypeOK

\* A mapping that the admin activates or deactivates.
LEMMA EditMappingKeeps ==
  ASSUME CatInv, NEW m \in Ids, NEW active \in BOOLEAN, EditMapping(m, active)
  PROVE  CatInv'
<1> DEFINE row == [mappings[m] EXCEPT !.active = active, !.chosen = active]
<1>1. /\ Edit /\ UNCHANGED <<catalogi, absent, requests, queued>> /\ m \in DOMAIN mappings
      /\ mappings[m] \in MappingRow
      /\ DOMAIN mappings \subseteq Ids /\ mappings \in [DOMAIN mappings -> MappingRow]
  BY RowOfTable DEF EditMapping, Edit, CatInv, TypeOK, IsTable
<1>2. mappings' = [mappings EXCEPT ![m] = row]
  BY <1>1 DEF EditMapping
<1>3. /\ row \in MappingRow /\ row.url = mappings[m].url /\ row.active = row.chosen
      /\ row.catalogus = mappings[m].catalogus
  BY <1>1 DEF MappingRow
<1> HIDE DEF row
<1>4. /\ IsTable(mappings', Ids, MappingRow) /\ DOMAIN mappings' = DOMAIN mappings
      /\ \A n \in DOMAIN mappings : mappings'[n] = IF n = m THEN row ELSE mappings[n]
  BY <1>1, <1>2, <1>3 DEF IsTable
<1>5. RowsInv' /\ RowsStay
  BY <1>1, <1>3, <1>4, MappingsChanged DEF CatInv, SettingsKept
<1> QED
  BY <1>1, <1>5, EditKeeps DEF CatInv, TypeOK

\* A mapping that the admin deletes.
LEMMA DeleteMappingKeeps ==
  ASSUME CatInv, NEW m \in Ids, DeleteMapping(m)
  PROVE  CatInv'
<1>1. Edit /\ UNCHANGED <<catalogi, absent, requests, queued>> /\ mappings' = Drop(mappings, m)
  BY DEF DeleteMapping, Edit
<1>2. IsTable(mappings', Ids, MappingRow)
  BY <1>1, DropIsTable DEF CatInv, TypeOK
<1>3. DOMAIN mappings' \subseteq DOMAIN mappings /\ \A n \in DOMAIN mappings' : mappings'[n] = mappings[n]
  BY <1>1 DEF Drop
<1>4. RowsInv' /\ RowsStay
  BY <1>1, <1>2, <1>3, MappingsChanged DEF CatInv, SettingsKept
<1> QED
  BY <1>1, <1>4, EditKeeps DEF CatInv, TypeOK

-----------------------------------------------------------------------------
(* The jobs. *)

\* A worker that takes a job.
LEMMA RunStarts ==
  ASSUME CatInv, RowsInv', RowsStay, NEW w \in Workers, NEW run \in RunRow, RunInv(run)',
         runs' = Put(runs, w, run), UNCHANGED <<zgw, counts>>,
         requests' \in Nat, queued' \subseteq Ids, absent' \subseteq Catalogi
  PROVE  CatInv'
<1>1. IsTable(runs', Workers, AllRun \cup OneRun)
  BY PutIsTable DEF CatInv, TypeOK, RunRow
<1>2. /\ DOMAIN runs' = DOMAIN runs \cup {w} /\ runs'[w] = run
      /\ \A v \in DOMAIN runs : v # w => runs'[v] = runs[v]
  BY DEF Put
<1>3. RunsInv'
  BY <1>2, RunChanges
<1> QED
  BY <1>1, <1>3, PartsMakeInv DEF CatInv, TypeOK, counts

\* A run that goes on with another step.
LEMMA RunGoesOn ==
  ASSUME CatInv, RowsInv', RowsStay, NEW w \in DOMAIN runs, NEW run \in RunRow, RunInv(run)',
         runs' = [runs EXCEPT ![w] = run], UNCHANGED <<zgw, requests, queued, absent, counts>>
  PROVE  CatInv'
<1>1. runs \in [DOMAIN runs -> RunRow] /\ DOMAIN runs \subseteq Workers
  BY DEF CatInv, TypeOK, IsTable, RunRow
<1>2. runs' = Put(runs, w, run)
  BY <1>1 DEF Put
<1> QED
  BY <1>1, <1>2, RunStarts DEF CatInv, TypeOK

\* A run that ends.
LEMMA RunEnds ==
  ASSUME CatInv, RowsInv', RowsStay, NEW w, Ends(w), queued' \subseteq Ids, faults' \in Nat,
         UNCHANGED <<zgw, requests, absent, changes, edits>>
  PROVE  CatInv'
<1>1. IsTable(runs', Workers, AllRun \cup OneRun)
  BY DropIsTable DEF Ends, CatInv, TypeOK
<1>2. DOMAIN runs' \subseteq DOMAIN runs /\ \A v \in DOMAIN runs' : runs'[v] = runs[v]
  BY DEF Ends, Drop
<1>3. RunsInv'
  BY <1>2, RunsStay
<1> QED
  BY <1>1, <1>3, PartsMakeInv DEF CatInv, TypeOK

\* What the invariant says of a run that is at some step.
LEMMA RunOf ==
  ASSUME CatInv, NEW w, NEW op, NEW step, Is(w, op, step)
  PROVE  /\ w \in DOMAIN runs /\ w \in Workers /\ runs[w] \in RunRow /\ RunInv(runs[w])
         /\ runs[w].op = op /\ runs[w].step = step
         /\ op = "all" => runs[w] \in AllRun
         /\ op = "one" => runs[w] \in OneRun
<1>1. w \in DOMAIN runs /\ runs[w].op = op /\ runs[w].step = step
  BY DEF Is
<1>2. w \in Workers /\ runs[w] \in RunRow /\ RunInv(runs[w])
  BY <1>1, RowOfTable DEF CatInv, TypeOK, RunsInv, RunRow
<1> QED
  BY <1>1, <1>2, RunFields

\* What a new list lacks is absent when it is fetched.
LEMMA FetchKeeps ==
  ASSUME CatInv, NEW w \in Workers, FetchCatalogi(w)
  PROVE  CatInv'
<1>1. PICK run : run = [op |-> "all", step |-> "find", list |-> zgw.catalogi,
                        todo |-> zgw.catalogi, at |-> NoRow, stale |-> {}]
  OBVIOUS
<1>2. /\ requests > 0 /\ requests' = requests - 1 /\ runs' = Put(runs, w, run)
      /\ absent' = absent \cup (Catalogi \ zgw.catalogi) /\ UNCHANGED <<zgw, tables, queued, counts>>
  BY <1>1 DEF FetchCatalogi
<1>3. zgw.catalogi \in SUBSET Catalogi /\ requests' \in Nat /\ absent' \subseteq Catalogi
  BY <1>2 DEF CatInv, TypeOK
<1>4. run \in RunRow
  BY <1>1, <1>3 DEF RunRow, AllRun
<1>5. RunInv(run)'
  BY <1>1, <1>2 DEF RunInv, AllInv
<1>6. RowsInv' /\ RowsStay
  BY <1>2, TablesStay
<1> QED
  BY <1>2, <1>3, <1>4, <1>5, <1>6, RunStarts DEF CatInv, TypeOK

\* Looking up a catalogus changes the run only.
LEMMA FindCatalogusKeeps ==
  ASSUME CatInv, NEW w \in Workers, NEW c \in Catalogi, FindCatalogus(w, c)
  PROVE  CatInv'
<1>1. /\ Is(w, "all", "find") /\ UNCHANGED <<zgw, tables, requests, queued, absent, counts>>
      /\ runs' = IF CatalogusRows(c) # {} THEN [runs EXCEPT ![w].todo = @ \ {c}]
                 ELSE [runs EXCEPT ![w].todo = @ \ {c}, ![w].step = "insert", ![w].at = c]
  BY DEF FindCatalogus
<1>2. w \in DOMAIN runs /\ runs[w] \in AllRun /\ RunInv(runs[w]) /\ runs[w].op = "all"
  BY <1>1, RunOf
<1>3. RowsInv' /\ RowsStay
  BY <1>1, TablesStay
<1>4. PICK run \in AllRun :
        /\ runs' = [runs EXCEPT ![w] = run]
        /\ run.op = "all" /\ run.list = runs[w].list /\ run.stale = runs[w].stale
        /\ run.step = runs[w].step \/ run.at = c
        /\ run.step = runs[w].step => run.at = runs[w].at
  <2>1. CASE CatalogusRows(c) # {}
    <3> DEFINE run == [runs[w] EXCEPT !.todo = runs[w].todo \ {c}]
    <3>1. /\ run \in AllRun /\ run.op = "all" /\ run.list = runs[w].list /\ run.stale = runs[w].stale
          /\ run.step = runs[w].step /\ run.at = runs[w].at
      BY <1>2 DEF AllRun
    <3>2. runs' = [runs EXCEPT ![w] = run]
      BY <1>1, <1>2, <2>1
    <3> QED
      BY <3>1, <3>2
  <2>2. CASE CatalogusRows(c) = {}
    <3> DEFINE run == [runs[w] EXCEPT !.todo = runs[w].todo \ {c}, !.step = "insert", !.at = c]
    <3>1. /\ run \in AllRun /\ run.op = "all" /\ run.list = runs[w].list /\ run.stale = runs[w].stale
          /\ run.step = "insert" /\ run.at = c
      BY <1>2 DEF AllRun
    <3>2. runs' = [runs EXCEPT ![w] = run]
      BY <1>1, <1>2, <2>2
    <3>3. runs[w].step # "insert"
      BY <1>1 DEF Is
    <3> QED
      BY <3>1, <3>2, <3>3
  <2> QED
    BY <2>1, <2>2
<1>5. RunInv(run)'
  <2>1. AllInv(runs[w])
    BY <1>2 DEF RunInv
  <2>2. AllInv(run)
    BY <1>4, <2>1 DEF AllInv
  <2> QED
    BY <1>1, <1>4, <2>2 DEF RunInv, AllInv, tables
<1> QED
  BY <1>1, <1>2, <1>3, <1>4, <1>5, RunGoesOn DEF RunRow

\* A run that finds the row there ends; the other makes it.
LEMMA InsertKeeps ==
  ASSUME CatInv, NEW w \in Workers, InsertCatalogus(w)
  PROVE  CatInv'
<1> DEFINE c == runs[w].at
<1>1. Is(w, "all", "insert") /\ UNCHANGED <<zgw, mappings, requests, queued, absent, counts>>
  BY DEF InsertCatalogus
<1>2. w \in DOMAIN runs /\ runs[w] \in AllRun /\ RunInv(runs[w]) /\ runs[w].op = "all" /\ c \in Catalogi
  BY <1>1, RunOf DEF RunInv, AllInv
<1>3. CASE Ends(w) /\ UNCHANGED catalogi
  BY <1>1, <1>3, TablesStay, RunEnds DEF tables, counts, CatInv, TypeOK
<1>4. CASE /\ ~Taken(c)
           /\ \E i \in NewIds : catalogi' = Put(catalogi, i, [url |-> c, active |-> FALSE, chosen |-> FALSE])
           /\ runs' = [runs EXCEPT ![w].step = "find", ![w].at = NoRow]
  <2>1. RowsInv' /\ RowsStay
    BY <1>1, <1>2, <1>4, CatalogusAdded DEF Taken
  <2>2. PICK old : old = runs[w]
    OBVIOUS
  <2>3. RunInv(old)' /\ old.op = "all" /\ old \in AllRun
    BY <1>2, <2>1, <2>2, RunStays
  <2>4. PICK run : run = [old EXCEPT !.step = "find", !.at = NoRow]
    OBVIOUS
  <2>5. /\ run \in AllRun /\ run.op = "all" /\ run.step = "find" /\ run.list = old.list
        /\ run.stale = old.stale
    BY <2>3, <2>4 DEF AllRun
  <2>6. RunInv(run)'
    BY <2>3, <2>5 DEF RunInv, AllInv
  <2>7. runs' = [runs EXCEPT ![w] = run]
    BY <1>2, <1>4, <2>2, <2>4
  <2> QED
    BY <1>1, <1>2, <2>1, <2>5, <2>6, <2>7, RunGoesOn DEF RunRow
<1> QED
  BY <1>3, <1>4 DEF InsertCatalogus

\* What is not in the list was absent when the list was fetched.
LEMMA FindStaleKeeps ==
  ASSUME CatInv, NEW w \in Workers, FindStale(w)
  PROVE  CatInv'
<1>1. /\ Is(w, "all", "find") /\ UNCHANGED <<zgw, tables, requests, queued, absent, counts>>
      /\ runs' = [runs EXCEPT ![w].step = "stale", ![w].stale = Stale(runs[w].list)]
  BY DEF FindStale
<1>2. w \in DOMAIN runs /\ runs[w] \in AllRun /\ RunInv(runs[w]) /\ runs[w].op = "all"
  BY <1>1, RunOf
<1>3. RowsInv' /\ RowsStay
  BY <1>1, TablesStay
<1>4. Stale(runs[w].list) \in SUBSET Ids /\ DOMAIN catalogi \subseteq Ids
  BY DEF Stale, ActiveIds, CatInv, TypeOK, IsTable
<1>5. PICK run : run = [runs[w] EXCEPT !.step = "stale", !.stale = Stale(runs[w].list)]
  OBVIOUS
<1>6. /\ run \in AllRun /\ run.op = "all" /\ run.step = "stale" /\ run.list = runs[w].list
      /\ run.stale = Stale(run.list)
  BY <1>2, <1>4, <1>5 DEF AllRun
<1>7. runs' = [runs EXCEPT ![w] = run]
  BY <1>1, <1>2, <1>5
<1>8. AllInv(run)
  <2>1. Catalogi \ run.list \subseteq absent
    BY <1>2, <1>6 DEF RunInv, AllInv
  <2>2. ASSUME NEW i \in run.stale PROVE catalogi[i].url \in absent
    <3>1. i \in DOMAIN catalogi /\ catalogi[i].url \notin run.list
      BY <1>6 DEF Stale, ActiveIds
    <3>2. catalogi[i] \in CatalogusRow
      BY <3>1, RowOfTable DEF CatInv, TypeOK
    <3>3. catalogi[i].url \in Catalogi
      BY <3>2 DEF CatalogusRow
    <3> QED
      BY <2>1, <3>1, <3>3
  <2> QED
    BY <1>6, <2>1, <2>2 DEF AllInv
<1>9. RunInv(run)'
  BY <1>1, <1>6, <1>8 DEF RunInv, AllInv, tables
<1> QED
  BY <1>1, <1>2, <1>3, <1>6, <1>7, <1>9, RunGoesOn DEF RunRow

\* What is deactivated was absent.
LEMMA DeactivateKeeps ==
  ASSUME CatInv, NEW w \in Workers, NEW i \in Ids, Deactivate(w, i)
  PROVE  CatInv'
<1>1. /\ Is(w, "all", "stale") /\ UNCHANGED <<zgw, mappings, requests, queued, absent, counts>>
      /\ i \in runs[w].stale /\ runs' = [runs EXCEPT ![w].stale = @ \ {i}]
      /\ catalogi' = [k \in DOMAIN catalogi |->
                        IF k = i THEN [catalogi[k] EXCEPT !.active = FALSE] ELSE catalogi[k]]
  BY DEF Deactivate
<1>2. w \in DOMAIN runs /\ runs[w] \in AllRun /\ RunInv(runs[w]) /\ runs[w].op = "all"
  BY <1>1, RunOf
<1>3. RowsInv' /\ RowsStay
  <2>1. CASE i \notin DOMAIN catalogi
    <3>1. catalogi' = catalogi
      BY <1>1, <2>1 DEF CatInv, TypeOK, IsTable
    <3> QED
      BY <1>1, <3>1, TablesStay DEF tables
  <2>2. CASE i \in DOMAIN catalogi
    <3> DEFINE row == [catalogi[i] EXCEPT !.active = FALSE]
    <3>1. catalogi[i] \in CatalogusRow /\ catalogi[i].url \in absent
      BY <1>1, <1>2, <2>2, RowOfTable DEF RunInv, AllInv, CatInv, TypeOK
    <3>2. /\ row \in CatalogusRow /\ row.url = catalogi[i].url /\ row.chosen = catalogi[i].chosen
          /\ row.active = FALSE /\ row.chosen \in BOOLEAN
      BY <3>1 DEF CatalogusRow
    <3>3. catalogi' = [catalogi EXCEPT ![i] = row]
      BY <1>1, <2>2 DEF CatInv, TypeOK, IsTable
    <3> HIDE DEF row
    <3>4. row.active # row.chosen => row.chosen /\ row.url \in absent
      BY <3>1, <3>2
    <3> QED
      BY <1>1, <2>2, <3>2, <3>3, <3>4, CatalogusChanged
  <2> QED
    BY <2>1, <2>2
<1>4. PICK old : old = runs[w]
  OBVIOUS
<1>5. RunInv(old)' /\ old.op = "all" /\ old \in AllRun
  BY <1>2, <1>3, <1>4, RunStays
<1>6. PICK run : run = [old EXCEPT !.stale = old.stale \ {i}]
  OBVIOUS
<1>7. /\ run \in AllRun /\ run.op = "all" /\ run.step = old.step /\ run.list = old.list
      /\ run.stale \subseteq old.stale /\ run.at = old.at
  BY <1>5, <1>6 DEF AllRun
<1>8. RunInv(run)'
  BY <1>5, <1>7 DEF RunInv, AllInv
<1>9. runs' = [runs EXCEPT ![w] = run]
  BY <1>1, <1>2, <1>4, <1>6
<1> QED
  BY <1>1, <1>2, <1>3, <1>7, <1>8, <1>9, RunGoesOn DEF RunRow

\* Dispatching ends the run.
LEMMA DispatchKeeps ==
  ASSUME CatInv, NEW w \in Workers, DispatchSyncs(w)
  PROVE  CatInv'
<1>1. Ends(w) /\ queued' = queued \cup ActiveIds /\ UNCHANGED <<zgw, tables, requests, absent, counts>>
  BY DEF DispatchSyncs
<1>2. queued' \subseteq Ids /\ faults' \in Nat
  BY <1>1 DEF ActiveIds, counts, CatInv, TypeOK, IsTable
<1>3. RowsInv' /\ RowsStay
  BY <1>1, TablesStay
<1> QED
  BY <1>1, <1>2, <1>3, RunEnds DEF counts

\* A run that fails leaves the tables as they are.
LEMMA SyncFailsKeeps ==
  ASSUME CatInv, NEW w \in Workers, SyncFails(w)
  PROVE  CatInv'
<1>1. /\ Ends(w) /\ faults' = faults + 1 /\ UNCHANGED <<zgw, tables, requests, absent, changes, edits>>
      /\ \E part \in SUBSET ActiveIds : queued' = queued \cup part
  BY DEF SyncFails
<1>2. queued' \subseteq Ids /\ faults' \in Nat
  BY <1>1 DEF ActiveIds, CatInv, TypeOK, IsTable
<1>3. RowsInv' /\ RowsStay
  BY <1>1, TablesStay
<1> QED
  BY <1>1, <1>2, <1>3, RunEnds

\* The zaaktypen that a sync reads are those of its catalogus.
LEMMA StartSyncKeeps ==
  ASSUME CatInv, NEW w \in Workers, NEW i \in Ids, StartSync(w, i)
  PROVE  CatInv'
<1>1. i \in queued /\ queued' = queued \ {i} /\ UNCHANGED <<zgw, tables, requests, absent, counts>>
  BY DEF StartSync
<1>2. RowsInv' /\ RowsStay
  BY <1>1, TablesStay
<1>3. CASE i \notin DOMAIN catalogi
  <2>1. runs' = runs
    BY <1>3 DEF StartSync
  <2> QED
    BY <1>1, <1>2, <2>1, NoRunMoves DEF counts, CatInv, TypeOK
<1>4. CASE i \in DOMAIN catalogi
  <2>1. PICK run : run = [op |-> "one", step |-> "find", catalogus |-> i,
                          todo |-> ZaaktypenOf(catalogi[i].url), at |-> NoRow, found |-> NoRow]
    OBVIOUS
  <2>2. runs' = Put(runs, w, run)
    BY <1>4, <2>1 DEF StartSync
  <2>3. ZaaktypenOf(catalogi[i].url) \in SUBSET Zaaktypen
    BY DEF ZaaktypenOf, CatInv, TypeOK
  <2>4. run \in RunRow
    BY <2>1, <2>3 DEF RunRow, OneRun
  <2>5. \A z \in run.todo : CatalogusOf[z] = catalogi[i].url
    BY <2>1 DEF ZaaktypenOf
  <2>6. RunInv(run)'
    BY <1>1, <2>1, <2>5 DEF RunInv, OneInv, tables
  <2> QED
    BY <1>1, <1>2, <2>2, <2>4, <2>6, RunStarts DEF CatInv, TypeOK
<1> QED
  BY <1>3, <1>4

\* The mapping that is found is of the zaaktype that was looked up.
LEMMA FindMappingKeeps ==
  ASSUME CatInv, NEW w \in Workers, NEW z \in Zaaktypen, FindMapping(w, z)
  PROVE  CatInv'
<1>1. /\ Is(w, "one", "find") /\ z \in runs[w].todo
      /\ UNCHANGED <<zgw, tables, requests, queued, absent, counts>>
  BY DEF FindMapping
<1>2. w \in DOMAIN runs /\ runs[w] \in OneRun /\ OneInv(runs[w])
  BY <1>1, RunOf DEF RunInv
<1>3. RowsInv' /\ RowsStay
  BY <1>1, TablesStay
<1>4. PICK found \in IF MappingRows(z) = {} THEN {NoRow}
                     ELSE {[id |-> m, row |-> mappings[m]] : m \in MappingRows(z)} :
        runs' = [runs EXCEPT ![w].todo = @ \ {z}, ![w].step = "write", ![w].at = z, ![w].found = found]
  BY DEF FindMapping
<1>5. found = NoRow \/ (found \in Found /\ found.id \in DOMAIN mappings /\ mappings[found.id].url = z)
  <2>1. CASE MappingRows(z) = {}
    BY <1>4, <2>1
  <2>2. CASE MappingRows(z) # {}
    <3>1. PICK m \in MappingRows(z) : found = [id |-> m, row |-> mappings[m]]
      BY <1>4, <2>2
    <3>2. m \in DOMAIN mappings /\ mappings[m].url = z
      BY <3>1 DEF MappingRows
    <3>3. m \in Ids /\ mappings[m] \in MappingRow
      BY <3>2, RowOfTable DEF CatInv, TypeOK
    <3> QED
      BY <3>1, <3>2, <3>3 DEF Found
  <2> QED
    BY <2>1, <2>2
<1>6. PICK run : run = [runs[w] EXCEPT !.todo = runs[w].todo \ {z}, !.step = "write", !.at = z, !.found = found]
  OBVIOUS
<1>7. /\ run \in OneRun /\ run.op = "one" /\ run.step = "write" /\ run.at = z /\ run.found = found
      /\ run.catalogus = runs[w].catalogus /\ run.todo \subseteq runs[w].todo
  BY <1>2, <1>5, <1>6 DEF OneRun
<1>8. OneInv(run)
  BY <1>1, <1>2, <1>5, <1>7 DEF OneInv
<1>9. RunInv(run)'
  BY <1>1, <1>7, <1>8 DEF RunInv, OneInv, tables
<1>10. runs' = [runs EXCEPT ![w] = run]
  BY <1>2, <1>4, <1>6
<1> QED
  BY <1>1, <1>2, <1>3, <1>7, <1>9, <1>10, RunGoesOn DEF RunRow

\* A mapping for a catalogus that exists, or one row that changes its catalogus.
LEMMA WrittenRows ==
  ASSUME CatInv, NEW w \in Workers, WriteMapping(w), ~Refused(runs[w])
  PROVE  RowsInv' /\ RowsStay
<1> DEFINE run == runs[w]
           old == MappingsToUpdate(run)
<1>1. Is(w, "one", "write") /\ UNCHANGED <<catalogi, absent>>
  BY DEF WriteMapping
<1>2. /\ run \in OneRun /\ OneInv(run) /\ run.at \in Zaaktypen /\ run.catalogus \in Ids
      /\ run.catalogus \in DOMAIN catalogi => CatalogusOf[run.at] = catalogi[run.catalogus].url
      /\ run.found # NoRow /\ run.found.id \in DOMAIN mappings => mappings[run.found.id].url = run.at
  BY <1>1, RunOf DEF RunInv, OneInv, OneRun
<1>3. CASE run.found = NoRow /\ old = {}
  <2>1. PICK m \in NewIds :
          mappings' = Put(mappings, m, [url |-> run.at, catalogus |-> run.catalogus, active |-> FALSE, chosen |-> FALSE])
    BY <1>3 DEF WriteMapping
  <2>2. PICK row : row = [url |-> run.at, catalogus |-> run.catalogus, active |-> FALSE, chosen |-> FALSE]
    OBVIOUS
  <2>3. row \in MappingRow /\ row.url = run.at /\ row.catalogus = run.catalogus /\ row.active = row.chosen
    BY <1>2, <2>2 DEF MappingRow
  <2>4. m \in Ids /\ m \notin DOMAIN mappings
    BY NewIdsUnused
  <2>5. /\ DOMAIN mappings' = DOMAIN mappings \cup {m} /\ mappings'[m] = row
        /\ \A n \in DOMAIN mappings : mappings'[n] = mappings[n]
    BY <2>1, <2>2, <2>4 DEF Put
  <2>6. IsTable(mappings', Ids, MappingRow)
    BY <2>1, <2>2, <2>3, <2>4, PutIsTable DEF CatInv, TypeOK
  <2>7. run.catalogus \in DOMAIN catalogi
    BY <1>3 DEF Refused
  <2>8. MappingsBelong'
    BY <1>1, <1>2, <2>3, <2>5, <2>7 DEF CatInv, MappingsBelong
  <2>9. SettingsKept' /\ KeepsExisting' /\ UniqueUrls'
    BY <1>1, <2>3, <2>5 DEF CatInv, TypeOK, SettingsKept, KeepsExisting, UniqueUrls
  <2>10. RowsStay
    BY <1>1, <2>5 DEF RowsStay
  <2> QED
    BY <1>1, <2>6, <2>8, <2>9, <2>10 DEF RowsInv, CatInv, TypeOK
<1>4. CASE ~(run.found = NoRow /\ old = {})
  <2>1. mappings' = [m \in DOMAIN mappings |-> IF m \in old THEN Written(run, mappings[m]) ELSE mappings[m]]
    BY <1>4 DEF WriteMapping
  <2>2. ASSUME NEW m \in DOMAIN mappings
        PROVE  /\ Written(run, mappings[m]) \in MappingRow /\ mappings[m] \in MappingRow
               /\ Written(run, mappings[m]).url = mappings[m].url
               /\ Written(run, mappings[m]).catalogus = run.catalogus
               /\ Written(run, mappings[m]).active = mappings[m].active
               /\ Written(run, mappings[m]).chosen = mappings[m].chosen
    <3>1. mappings[m] \in MappingRow
      BY RowOfTable DEF CatInv, TypeOK
    <3> QED
      BY <1>2, <3>1 DEF Written, MappingRow
  <2>3. ASSUME NEW m \in old, m \in DOMAIN mappings
        PROVE  run.catalogus \in DOMAIN catalogi /\ catalogi[run.catalogus].url = CatalogusOf[mappings[m].url]
    <3>1. run.catalogus \in DOMAIN catalogi
      BY <2>3 DEF Refused
    <3>2. mappings[m].url = run.at
      BY <1>2, <2>3 DEF MappingsToUpdate, MappingRows
    <3> QED
      BY <1>2, <3>1, <3>2
  <2>4. IsTable(mappings', Ids, MappingRow)
    BY <2>1, <2>2 DEF CatInv, TypeOK, IsTable
  <2>5. DOMAIN mappings' = DOMAIN mappings
        /\ \A m \in DOMAIN mappings : mappings'[m] = IF m \in old THEN Written(run, mappings[m]) ELSE mappings[m]
    BY <2>1
  <2> HIDE DEF run, old
  <2>6. ASSUME NEW m \in DOMAIN mappings'
        PROVE  /\ mappings'[m].url = mappings[m].url
               /\ mappings'[m].active = mappings'[m].chosen
               /\ \/ mappings'[m].catalogus = mappings[m].catalogus
                  \/ /\ mappings'[m].catalogus \in DOMAIN catalogi
                     /\ catalogi[mappings'[m].catalogus].url = CatalogusOf[mappings[m].url]
    <3>1. m \in DOMAIN mappings /\ mappings[m].active = mappings[m].chosen
      BY <2>5 DEF CatInv, SettingsKept
    <3>2. CASE m \in old
      BY <2>2, <2>3, <2>5, <3>1, <3>2
    <3>3. CASE m \notin old
      BY <2>5, <3>1, <3>3
    <3> QED
      BY <3>2, <3>3
  <2> QED
    BY <1>1, <2>4, <2>5, <2>6, MappingsChanged
<1> QED
  BY <1>3, <1>4

\* A mapping is written for a catalogus that exists, with the settings it has, or not at all.
LEMMA WriteMappingKeeps ==
  ASSUME CatInv, NEW w \in Workers, WriteMapping(w)
  PROVE  CatInv'
<1>1. Is(w, "one", "write") /\ UNCHANGED <<zgw, catalogi, requests, queued, absent, counts>>
  BY DEF WriteMapping
<1>2. w \in DOMAIN runs /\ runs[w] \in OneRun /\ runs[w].op = "one"
  BY <1>1, RunOf
<1>3. CASE Ends(w) /\ UNCHANGED mappings
  BY <1>1, <1>3, TablesStay, RunEnds DEF tables, counts, CatInv, TypeOK
<1>4. CASE ~Refused(runs[w]) /\ runs' = [runs EXCEPT ![w].step = "find", ![w].at = NoRow, ![w].found = NoRow]
  <2>1. RowsInv' /\ RowsStay
    BY <1>4, WrittenRows
  <2>2. PICK old : old = runs[w]
    OBVIOUS
  <2>3. RunInv(old)' /\ old.op = "one" /\ old \in OneRun
    BY <1>2, <2>1, <2>2, RunStays
  <2>4. PICK run : run = [old EXCEPT !.step = "find", !.at = NoRow, !.found = NoRow]
    OBVIOUS
  <2>5. /\ run \in OneRun /\ run.op = "one" /\ run.step = "find" /\ run.catalogus = old.catalogus
        /\ run.todo = old.todo
    BY <2>3, <2>4 DEF OneRun
  <2>6. RunInv(run)'
    BY <2>3, <2>5 DEF RunInv, OneInv
  <2>7. runs' = [runs EXCEPT ![w] = run]
    BY <1>2, <1>4, <2>2, <2>4
  <2> QED
    BY <1>1, <1>2, <2>1, <2>5, <2>6, <2>7, RunGoesOn DEF RunRow
<1> QED
  BY <1>3, <1>4 DEF WriteMapping

-----------------------------------------------------------------------------
\* At first both tables are empty and no job runs.
LEMMA InitCatInv == Init => CatInv
<1> SUFFICES ASSUME Init PROVE CatInv
  OBVIOUS
<1>1. /\ zgw \in [catalogi: SUBSET Catalogi, zaaktypen: {Zaaktypen}]
      /\ catalogi = Empty /\ mappings = Empty /\ requests = 0 /\ queued = {} /\ runs = Empty
      /\ absent = {} /\ changes = 0 /\ edits = 0 /\ faults = 0
  BY DEF Init
<1>2. DOMAIN catalogi = {} /\ DOMAIN mappings = {} /\ DOMAIN runs = {}
  BY <1>1 DEF Empty
<1>3. TypeOK
  <2>1. zgw \in [catalogi: SUBSET Catalogi, zaaktypen: SUBSET Zaaktypen]
    BY <1>1
  <2> QED
    BY <1>1, <1>2, <2>1, EmptyIsTable DEF TypeOK
<1> QED
  BY <1>2, <1>3 DEF CatInv, SettingsKept, KeepsExisting, MappingsBelong, RunsInv

\* The invariant is inductive.
LEMMA StepCatInv == CatInv /\ [Next]_vars => CatInv'
<1> SUFFICES ASSUME CatInv, [Next]_vars PROVE CatInv'
  OBVIOUS
<1>1. CASE ChangeZgw
  BY <1>1, ChangeKeeps
<1>2. CASE RequestAll
  <2>1. UNCHANGED <<zgw, tables, queued, runs, absent, counts>> /\ requests' = requests + 1
    BY <1>2 DEF RequestAll
  <2>2. RowsInv' /\ RowsStay
    BY <2>1, TablesStay
  <2> QED
    BY <2>1, <2>2, NoRunMoves DEF counts, CatInv, TypeOK
<1>3. ASSUME NEW i \in Ids, RequestOne(i) PROVE CatInv'
  <2>1. Edit /\ queued' = queued \cup {i} /\ UNCHANGED <<tables, requests, absent>>
    BY <1>3 DEF RequestOne, Edit
  <2>2. RowsInv' /\ RowsStay
    BY <2>1, TablesStay
  <2> QED
    BY <2>1, <2>2, EditKeeps DEF CatInv, TypeOK
<1>4. CASE Admin
  BY <1>3, <1>4, AddCatalogusKeeps, EditCatalogusKeeps, DeleteCatalogusKeeps, EditMappingKeeps,
     DeleteMappingKeeps DEF Admin
<1>5. ASSUME NEW w \in Workers, FinishSync(w) PROVE CatInv'
  <2>1. Ends(w) /\ UNCHANGED <<zgw, tables, requests, queued, absent, counts>>
    BY <1>5 DEF FinishSync
  <2>2. RowsInv' /\ RowsStay
    BY <2>1, TablesStay
  <2> QED
    BY <2>1, <2>2, RunEnds DEF counts, CatInv, TypeOK
<1>6. ASSUME NEW w \in Workers, Step(w) PROVE CatInv'
  BY <1>5, <1>6, FindCatalogusKeeps, InsertKeeps, FindStaleKeeps, DispatchKeeps, DeactivateKeeps,
     FindMappingKeeps, WriteMappingKeeps DEF Step
<1>7. CASE UNCHANGED vars
  <2>1. UNCHANGED <<zgw, tables, requests, queued, runs, absent, counts>>
    BY <1>7 DEF vars, jobs
  <2>2. RowsInv' /\ RowsStay
    BY <2>1, TablesStay
  <2> QED
    BY <2>1, <2>2, NoRunMoves DEF counts, CatInv, TypeOK
<1> QED
  BY <1>1, <1>2, <1>4, <1>6, <1>7, FetchKeeps, SyncFailsKeeps, StartSyncKeeps DEF Next

\* The invariant holds in every state.
LEMMA CatInvHolds == Spec => []CatInv
BY InitCatInv, StepCatInv, PTL DEF Spec

\* However syncs and the admin interleave, a catalogus has one row.
THEOREM CatalogiTypesHold == Spec => []TypeOK
<1>1. CatInv => TypeOK
  BY DEF CatInv
<1> QED
  BY <1>1, CatInvHolds, PTL

\* No sync changes what the admin set for a mapping.
THEOREM SettingsKeptHolds == Spec => []SettingsKept
<1>1. CatInv => SettingsKept
  BY DEF CatInv
<1> QED
  BY <1>1, CatInvHolds, PTL

\* A sync deactivates a catalogus only when a list it was not in was fetched.
THEOREM KeepsExistingHolds == Spec => []KeepsExisting
<1>1. CatInv => KeepsExisting
  BY DEF CatInv
<1> QED
  BY <1>1, CatInvHolds, PTL

\* A late write never gives a mapping to a catalogus that is gone or that is not its own.
THEOREM MappingsBelongHolds == Spec => []MappingsBelong
<1>1. CatInv => MappingsBelong
  BY DEF CatInv
<1> QED
  BY <1>1, CatInvHolds, PTL
-----------------------------------------------------------------------------
(* The entries of a table, when one row changes. *)

OneRow(table) == \A i, j \in DOMAIN table : table[i].url = table[j].url => i = j
Entries(table, urls) == [url \in urls |-> Entry(table, url)]
EntryOf(row) == IF row.active THEN "active" ELSE "inactive"

\* A row is the entry of its url.
LEMMA RowIsEntry ==
  ASSUME NEW table, OneRow(table), NEW i \in DOMAIN table, NEW url, table[i].url = url
  PROVE  Entry(table, url) = EntryOf(table[i])
<1>1. {j \in DOMAIN table : table[j].url = url} = {i}
  BY DEF OneRow
<1> QED
  BY <1>1 DEF Entry, EntryOf

\* Rows with other urls do not matter.
LEMMA EntryElsewhere ==
  ASSUME NEW old, NEW new, NEW url,
         \A i : (i \in DOMAIN old /\ old[i].url = url) <=> (i \in DOMAIN new /\ new[i].url = url),
         \A i \in DOMAIN old : old[i].url = url => new[i].active = old[i].active
  PROVE  Entry(new, url) = Entry(old, url)
<1>1. {i \in DOMAIN old : old[i].url = url} = {i \in DOMAIN new : new[i].url = url}
  OBVIOUS
<1> QED
  BY <1>1 DEF Entry

\* A row with a new url makes an entry.
LEMMA EntryAdded ==
  ASSUME NEW old, NEW new, NEW urls, OneRow(old), NEW i, i \notin DOMAIN old, NEW row,
         row.url \in urls, \A j \in DOMAIN old : old[j].url # row.url, new = Put(old, i, row)
  PROVE  /\ OneRow(new) /\ Entry(old, row.url) = "none"
         /\ Entries(new, urls) = [Entries(old, urls) EXCEPT ![row.url] = EntryOf(row)]
<1>1. DOMAIN new = DOMAIN old \cup {i} /\ new[i] = row /\ \A j \in DOMAIN old : new[j] = old[j]
  BY DEF Put
<1>2. OneRow(new)
  BY <1>1 DEF OneRow
<1>3. Entry(old, row.url) = "none"
  BY DEF Entry
<1>4. Entry(new, row.url) = EntryOf(row)
  BY <1>1, <1>2, RowIsEntry
<1>5. ASSUME NEW url \in urls, url # row.url PROVE Entry(new, url) = Entry(old, url)
  BY <1>1, <1>5, EntryElsewhere
<1> QED
  BY <1>2, <1>3, <1>4, <1>5 DEF Entries

\* A row that keeps its url changes its own entry.
LEMMA EntryChanged ==
  ASSUME NEW old, NEW new, NEW urls, OneRow(old), NEW i \in DOMAIN old, NEW row,
         NEW url \in urls, row.url = url, old[i].url = url,
         DOMAIN new = DOMAIN old, \A j \in DOMAIN old : new[j] = IF j = i THEN row ELSE old[j]
  PROVE  /\ OneRow(new) /\ Entry(old, url) = EntryOf(old[i])
         /\ Entries(new, urls) = [Entries(old, urls) EXCEPT ![url] = EntryOf(row)]
<1>1. \A j \in DOMAIN old : new[j].url = old[j].url
  OBVIOUS
<1>2. OneRow(new)
  BY <1>1 DEF OneRow
<1>3. Entry(new, url) = EntryOf(row) /\ Entry(old, url) = EntryOf(old[i])
  BY <1>2, RowIsEntry
<1>4. ASSUME NEW other \in urls, other # url PROVE Entry(new, other) = Entry(old, other)
  <2>1. \A j \in DOMAIN old : old[j].url = other => new[j].active = old[j].active
    BY <1>4
  <2> QED
    BY <1>1, <2>1, EntryElsewhere
<1> QED
  BY <1>2, <1>3, <1>4 DEF Entries

\* When its row goes, an entry goes.
LEMMA EntryDropped ==
  ASSUME NEW old, NEW new, NEW urls, OneRow(old), NEW i \in DOMAIN old, old[i].url \in urls,
         new = Drop(old, i)
  PROVE  /\ OneRow(new) /\ Entry(old, old[i].url) = EntryOf(old[i])
         /\ Entries(new, urls) = [Entries(old, urls) EXCEPT ![old[i].url] = "none"]
<1>1. DOMAIN new = DOMAIN old \ {i} /\ \A j \in DOMAIN new : new[j] = old[j]
  BY DEF Drop
<1>2. OneRow(new)
  BY <1>1 DEF OneRow
<1>3. Entry(new, old[i].url) = "none"
  <2>1. {j \in DOMAIN new : new[j].url = old[i].url} = {}
    BY <1>1 DEF OneRow
  <2> QED
    BY <2>1 DEF Entry
<1>4. ASSUME NEW url \in urls, url # old[i].url PROVE Entry(new, url) = Entry(old, url)
  BY <1>1, <1>4, EntryElsewhere
<1> QED
  BY <1>2, <1>3, <1>4, RowIsEntry DEF Entries

\* Rows that keep their url and "active" keep the entries.
LEMMA EntriesStay ==
  ASSUME NEW old, NEW new, NEW urls, OneRow(old), DOMAIN new = DOMAIN old,
         \A i \in DOMAIN old : new[i].url = old[i].url /\ new[i].active = old[i].active
  PROVE  OneRow(new) /\ Entries(new, urls) = Entries(old, urls)
<1>1. OneRow(new)
  BY DEF OneRow
<1>2. ASSUME NEW url \in urls PROVE Entry(new, url) = Entry(old, url)
  BY EntryElsewhere
<1> QED
  BY <1>1, <1>2 DEF Entries

-----------------------------------------------------------------------------
(* The refinement. *)

\* The invariant of it: a zaaktype has one mapping, like a catalogus has one row.
EntriesInv == CatInv /\ OneRow(mappings)

Copy == Entries(catalogi, Catalogi)
Settings == Entries(mappings, Zaaktypen)

\* What the promise is about, in one definition.
LEMMA PromiseVars ==
  /\ Promise!Sync <=>
       /\ \/ \E c \in Catalogi : /\ \/ Copy[c] = "none"
                                    \/ c \in absent /\ Copy[c] = "active"
                                 /\ Copy' = [Copy EXCEPT ![c] = "inactive"] /\ UNCHANGED Settings
          \/ \E z \in Zaaktypen : /\ Settings[z] = "none" /\ Copy[CatalogusOf[z]] # "none"
                                  /\ Settings' = [Settings EXCEPT ![z] = "inactive"] /\ UNCHANGED Copy
       /\ UNCHANGED <<absent, edits>>
  /\ UNCHANGED Promise!vars <=> UNCHANGED <<absent, Copy, Settings, edits>>
BY DEF Promise!Sync, Promise!Add, Promise!Deactivate, Promise!Map, Promise!vars, Copy, Settings, Entries

\* What the rows are about.
LEMMA RowTypes ==
  ASSUME EntriesInv
  PROVE  /\ OneRow(catalogi) /\ OneRow(mappings)
         /\ \A i \in DOMAIN catalogi : i \in Ids /\ catalogi[i] \in CatalogusRow /\ catalogi[i].url \in Catalogi
         /\ \A m \in DOMAIN mappings : m \in Ids /\ mappings[m] \in MappingRow /\ mappings[m].url \in Zaaktypen
<1>1. OneRow(catalogi) /\ OneRow(mappings)
  BY DEF EntriesInv, CatInv, TypeOK, OneRow
<1>2. IsTable(catalogi, Ids, CatalogusRow) /\ IsTable(mappings, Ids, MappingRow)
  BY DEF EntriesInv, CatInv, TypeOK
<1>3. ASSUME NEW i \in DOMAIN catalogi
      PROVE  i \in Ids /\ catalogi[i] \in CatalogusRow /\ catalogi[i].url \in Catalogi
  <2>1. i \in Ids /\ catalogi[i] \in CatalogusRow
    BY <1>2, RowOfTable
  <2> QED
    BY <2>1 DEF CatalogusRow
<1>4. ASSUME NEW m \in DOMAIN mappings
      PROVE  m \in Ids /\ mappings[m] \in MappingRow /\ mappings[m].url \in Zaaktypen
  <2>1. m \in Ids /\ mappings[m] \in MappingRow
    BY <1>2, RowOfTable
  <2> QED
    BY <2>1 DEF MappingRow
<1> QED
  BY <1>1, <1>3, <1>4

\* A catalogus of which the row is there is in the copy.
LEMMA CopyHas ==
  ASSUME EntriesInv, NEW i \in DOMAIN catalogi
  PROVE  Copy[catalogi[i].url] = EntryOf(catalogi[i]) /\ Copy[catalogi[i].url] # "none"
<1>1. Entry(catalogi, catalogi[i].url) = EntryOf(catalogi[i]) /\ catalogi[i].url \in Catalogi
  BY RowTypes, RowIsEntry
<1> QED
  BY <1>1 DEF Copy, Entries, EntryOf

\* A step that leaves the tables alone, but for the catalogi that are absent.
LEMMA LookPromise ==
  ASSUME EntriesInv, UNCHANGED <<tables, edits>>, absent \subseteq absent'
  PROVE  OneRow(mappings)' /\ [Promise!Next]_(Promise!vars)
<1>1. UNCHANGED <<catalogi, mappings>>
  BY DEF tables
<1> QED
  BY <1>1 DEF EntriesInv, OneRow, Promise!Next, Promise!Look

\* What the admin does.
LEMMA AdminPromise ==
  ASSUME EntriesInv, Admin
  PROVE  OneRow(mappings)' /\ [Promise!Next]_(Promise!vars)
<1>e. edits' = edits + 1 /\ UNCHANGED absent
  BY DEF Admin, AddCatalogus, EditCatalogus, DeleteCatalogus, EditMapping, DeleteMapping, RequestOne, Edit
\* What is left to show of each.
<1>p. ASSUME \/ UNCHANGED <<Copy, Settings>>
             \/ /\ \E c \in Catalogi, value \in {"inactive", "active"} : Copy' = [Copy EXCEPT ![c] = value]
                /\ UNCHANGED Settings
             \/ \E c \in Catalogi :
                  /\ Copy' = [Copy EXCEPT ![c] = "none"]
                  /\ Settings' = [z \in Zaaktypen |-> IF CatalogusOf[z] = c THEN "none" ELSE Settings[z]]
             \/ /\ \E z \in Zaaktypen, value \in {"none", "inactive", "active"} :
                     Settings[z] # "none" /\ Settings' = [Settings EXCEPT ![z] = value]
                /\ UNCHANGED Copy
      PROVE  Promise!Next
  <2>1. CASE UNCHANGED <<Copy, Settings>>
    BY <1>e, <2>1 DEF Promise!Next, Promise!Admin, Copy, Settings, Entries
  <2>2. ASSUME NEW c \in Catalogi, NEW value \in {"inactive", "active"},
               Copy' = [Copy EXCEPT ![c] = value], UNCHANGED Settings
        PROVE  Promise!Next
    <3>1. value \in Promise!Values \ {"none"}
      BY DEF Promise!Values
    <3>2. Promise!Choose(c)
      BY <2>2, <3>1 DEF Promise!Choose, Copy, Settings, Entries
    <3> QED
      BY <1>e, <3>2 DEF Promise!Next, Promise!Admin
  <2>3. ASSUME NEW c \in Catalogi, Copy' = [Copy EXCEPT ![c] = "none"],
               Settings' = [z \in Zaaktypen |-> IF CatalogusOf[z] = c THEN "none" ELSE Settings[z]]
        PROVE  Promise!Next
    <3>1. Promise!Delete(c)
      BY <2>3 DEF Promise!Delete, Copy, Settings, Entries
    <3> QED
      BY <1>e, <3>1 DEF Promise!Next, Promise!Admin
  <2>4. ASSUME NEW z \in Zaaktypen, NEW value \in {"none", "inactive", "active"},
               Settings[z] # "none", Settings' = [Settings EXCEPT ![z] = value], UNCHANGED Copy
        PROVE  Promise!Next
    <3>1. value \in Promise!Values
      BY DEF Promise!Values
    <3>2. Promise!Set(z)
      BY <2>4, <3>1 DEF Promise!Set, Copy, Settings, Entries
    <3> QED
      BY <1>e, <3>2 DEF Promise!Next, Promise!Admin
  <2> QED
    BY <1>p, <2>1, <2>2, <2>3, <2>4
<1>1. ASSUME NEW c \in Catalogi, NEW active \in BOOLEAN, AddCatalogus(c, active)
      PROVE  OneRow(mappings)' /\ Promise!Next
  <2>1. PICK i \in NewIds : catalogi' = Put(catalogi, i, [url |-> c, active |-> active, chosen |-> active])
    BY <1>1 DEF AddCatalogus
  <2>2. PICK row : row = [url |-> c, active |-> active, chosen |-> active]
    OBVIOUS
  <2>3. i \notin DOMAIN catalogi /\ row.url = c /\ (\A j \in DOMAIN catalogi : catalogi[j].url # c) /\ UNCHANGED mappings
    BY <1>1, <2>2, NewIdsUnused DEF AddCatalogus, CatalogusRows
  <2>4. Copy' = [Copy EXCEPT ![c] = EntryOf(row)]
    BY <2>1, <2>2, <2>3, RowTypes, EntryAdded DEF Copy
  <2> QED
    BY <1>p, <2>3, <2>4 DEF EntriesInv, OneRow, EntryOf, Settings
<1>2. ASSUME NEW i \in Ids, NEW active \in BOOLEAN, EditCatalogus(i, active)
      PROVE  OneRow(mappings)' /\ Promise!Next
  <2>1. PICK row : row = [catalogi[i] EXCEPT !.active = active, !.chosen = active]
    OBVIOUS
  <2>2. i \in DOMAIN catalogi /\ catalogi' = [catalogi EXCEPT ![i] = row] /\ UNCHANGED mappings
    BY <1>2, <2>1 DEF EditCatalogus
  <2>c. PICK c \in Catalogi : c = catalogi[i].url
    BY <2>2, RowTypes
  <2>3. row.url = c
    BY <2>1, <2>2, <2>c, RowTypes DEF CatalogusRow
  <2>4. Copy' = [Copy EXCEPT ![c] = EntryOf(row)]
    <3>1. i \in DOMAIN catalogi /\ DOMAIN catalogi' = DOMAIN catalogi
          /\ \A j \in DOMAIN catalogi : catalogi'[j] = IF j = i THEN row ELSE catalogi[j]
      BY <2>2
    <3> QED
      BY <2>c, <2>3, <3>1, RowTypes, EntryChanged DEF Copy
  <2> QED
    BY <1>p, <2>2, <2>3, <2>4 DEF EntriesInv, OneRow, EntryOf, Settings
<1>3. ASSUME NEW i \in Ids, DeleteCatalogus(i)
      PROVE  OneRow(mappings)' /\ Promise!Next
  <2>1. /\ i \in DOMAIN catalogi /\ catalogi' = Drop(catalogi, i)
        /\ mappings' = [m \in {n \in DOMAIN mappings : mappings[n].catalogus # i} |-> mappings[m]]
    BY <1>3 DEF DeleteCatalogus
  <2>2. PICK c \in Catalogi : c = catalogi[i].url
    BY <2>1, RowTypes
  <2>3. Copy' = [Copy EXCEPT ![c] = "none"]
    BY <2>1, <2>2, RowTypes, EntryDropped DEF Copy
  <2>4. /\ DOMAIN mappings' = {n \in DOMAIN mappings : mappings[n].catalogus # i}
        /\ \A m \in DOMAIN mappings' : mappings'[m] = mappings[m]
    BY <2>1
  <2>5. ASSUME NEW m \in DOMAIN mappings
        PROVE  mappings[m].catalogus = i <=> CatalogusOf[mappings[m].url] = c
    <3>1. mappings[m].catalogus \in DOMAIN catalogi
          /\ catalogi[mappings[m].catalogus].url = CatalogusOf[mappings[m].url]
      BY DEF EntriesInv, CatInv, MappingsBelong
    <3> QED
      BY <2>1, <2>2, <3>1, RowTypes DEF OneRow
  <2>6. ASSUME NEW z \in Zaaktypen, CatalogusOf[z] = c PROVE Entry(mappings', z) = "none"
    <3>1. {m \in DOMAIN mappings' : mappings'[m].url = z} = {}
      BY <2>4, <2>5, <2>6
    <3> QED
      BY <3>1 DEF Entry
  <2>7. ASSUME NEW z \in Zaaktypen, CatalogusOf[z] # c PROVE Entry(mappings', z) = Entry(mappings, z)
    BY <2>4, <2>5, <2>7, EntryElsewhere
  <2>8. Settings' = [z \in Zaaktypen |-> IF CatalogusOf[z] = c THEN "none" ELSE Settings[z]]
    BY <2>6, <2>7 DEF Settings, Entries
  <2>9. OneRow(mappings)'
    BY <2>4 DEF EntriesInv, OneRow
  <2> QED
    BY <1>p, <2>3, <2>8, <2>9
<1>4. ASSUME NEW m \in Ids, NEW active \in BOOLEAN, EditMapping(m, active)
      PROVE  OneRow(mappings)' /\ Promise!Next
  <2>1. PICK row : row = [mappings[m] EXCEPT !.active = active, !.chosen = active]
    OBVIOUS
  <2>2. m \in DOMAIN mappings /\ mappings' = [mappings EXCEPT ![m] = row] /\ UNCHANGED catalogi
    BY <1>4, <2>1 DEF EditMapping
  <2>z. PICK z \in Zaaktypen : z = mappings[m].url
    BY <2>2, RowTypes
  <2>3. row.url = z
    BY <2>1, <2>2, <2>z, RowTypes DEF MappingRow
  <2>4. /\ OneRow(mappings') /\ Settings' = [Settings EXCEPT ![z] = EntryOf(row)]
        /\ Entry(mappings, z) = EntryOf(mappings[m])
    <3>1. m \in DOMAIN mappings /\ DOMAIN mappings' = DOMAIN mappings
          /\ \A j \in DOMAIN mappings : mappings'[j] = IF j = m THEN row ELSE mappings[j]
      BY <2>2
    <3>2. OneRow(mappings)
      BY RowTypes
    <3>3. OneRow(mappings')
      BY <2>z, <2>3, <3>1, <3>2 DEF OneRow
    <3>4. Entry(mappings, z) = EntryOf(mappings[m])
      BY <2>z, <3>1, <3>2, RowIsEntry
    <3>5. Settings' = [Settings EXCEPT ![z] = EntryOf(row)]
      BY <2>z, <2>3, <3>1, <3>2, EntryChanged DEF Settings
    <3> QED
      BY <3>3, <3>4, <3>5 DEF Settings
  <2>5. Settings[z] # "none" /\ EntryOf(row) \in {"none", "inactive", "active"}
    BY <2>3, <2>4 DEF Settings, Entries, EntryOf
  <2> QED
    BY <1>p, <2>2, <2>3, <2>4, <2>5 DEF Copy, OneRow
<1>5. ASSUME NEW m \in Ids, DeleteMapping(m)
      PROVE  OneRow(mappings)' /\ Promise!Next
  <2>1. m \in DOMAIN mappings /\ mappings' = Drop(mappings, m) /\ UNCHANGED catalogi
    BY <1>5 DEF DeleteMapping
  <2>2. PICK z \in Zaaktypen : z = mappings[m].url
    BY <2>1, RowTypes
  <2>3. /\ OneRow(mappings') /\ Settings' = [Settings EXCEPT ![z] = "none"]
        /\ Entry(mappings, z) = EntryOf(mappings[m])
    BY <2>1, <2>2, RowTypes, EntryDropped DEF Settings
  <2>4. Settings[z] # "none"
    BY <2>3 DEF Settings, Entries, EntryOf
  <2> QED
    BY <1>p, <2>1, <2>3, <2>4 DEF Copy, OneRow
<1>6. ASSUME NEW i \in Ids, RequestOne(i) PROVE OneRow(mappings)' /\ Promise!Next
  BY <1>p, <1>6 DEF RequestOne, tables, Copy, Settings, EntriesInv, OneRow
<1> QED
  BY <1>1, <1>2, <1>3, <1>4, <1>5, <1>6 DEF Admin

\* A catalogus that a sync inserts was not there, and is not active.
LEMMA InsertPromise ==
  ASSUME EntriesInv, NEW w \in Workers, InsertCatalogus(w)
  PROVE  OneRow(mappings)' /\ [Promise!Next]_(Promise!vars)
<1>1. Is(w, "all", "insert") /\ UNCHANGED <<mappings, absent, edits>>
  BY DEF InsertCatalogus, counts
<1>2. PICK c \in Catalogi : c = runs[w].at
  BY <1>1, RunOf DEF EntriesInv, RunInv, AllInv
<1>3. CASE UNCHANGED catalogi
  BY <1>1, <1>3, LookPromise DEF tables
<1>4. CASE ~Taken(c) /\ \E i \in NewIds : catalogi' = Put(catalogi, i, [url |-> c, active |-> FALSE, chosen |-> FALSE])
  <2>1. PICK i \in NewIds : catalogi' = Put(catalogi, i, [url |-> c, active |-> FALSE, chosen |-> FALSE])
    BY <1>4
  <2>2. PICK row : row = [url |-> c, active |-> FALSE, chosen |-> FALSE]
    OBVIOUS
  <2>3. i \notin DOMAIN catalogi /\ row.url = c /\ \A j \in DOMAIN catalogi : catalogi[j].url # c
    BY <1>4, <2>2, NewIdsUnused DEF Taken, CatalogusRows
  <2>4. Copy' = [Copy EXCEPT ![c] = EntryOf(row)] /\ Entry(catalogi, c) = "none"
    BY <2>1, <2>2, <2>3, RowTypes, EntryAdded DEF Copy
  <2>5. Copy' = [Copy EXCEPT ![c] = "inactive"] /\ Copy[c] = "none" /\ UNCHANGED Settings
    BY <1>1, <2>2, <2>4 DEF Copy, Settings, Entries, EntryOf
  <2> QED
    BY <1>1, <2>5, PromiseVars DEF Promise!Next, EntriesInv, OneRow
<1> QED
  BY <1>2, <1>3, <1>4 DEF InsertCatalogus

\* A catalogus that is deactivated was absent; when it was not active, nothing changes.
LEMMA DeactivatePromise ==
  ASSUME EntriesInv, NEW w \in Workers, NEW i \in Ids, Deactivate(w, i)
  PROVE  OneRow(mappings)' /\ [Promise!Next]_(Promise!vars)
<1>1. /\ Is(w, "all", "stale") /\ i \in runs[w].stale /\ UNCHANGED <<mappings, absent, edits>>
      /\ catalogi' = [k \in DOMAIN catalogi |->
                        IF k = i THEN [catalogi[k] EXCEPT !.active = FALSE] ELSE catalogi[k]]
  BY DEF Deactivate, counts
<1>2. CASE i \notin DOMAIN catalogi
  <2>1. catalogi' = catalogi
    BY <1>1, <1>2 DEF EntriesInv, CatInv, TypeOK, IsTable
  <2> QED
    BY <1>1, <2>1, LookPromise DEF tables
<1>3. CASE i \in DOMAIN catalogi
  <2>1. PICK c \in Catalogi : c = catalogi[i].url
    BY <1>3, RowTypes
  <2>2. c \in absent
    BY <1>1, <1>3, <2>1, RunOf DEF EntriesInv, RunInv, AllInv
  <2>3. PICK row : row = [catalogi[i] EXCEPT !.active = FALSE]
    OBVIOUS
  <2>4. row.url = c /\ row.active = FALSE
    BY <1>3, <2>1, <2>3, RowTypes DEF CatalogusRow
  <2>5. DOMAIN catalogi' = DOMAIN catalogi
        /\ \A j \in DOMAIN catalogi : catalogi'[j] = IF j = i THEN row ELSE catalogi[j]
    BY <1>1, <2>3
  <2>6. Copy' = [Copy EXCEPT ![c] = EntryOf(row)]
    BY <1>3, <2>1, <2>4, <2>5, RowTypes, EntryChanged DEF Copy
  <2>7. Copy' = [Copy EXCEPT ![c] = "inactive"] /\ Copy[c] \in {"inactive", "active"} /\ UNCHANGED Settings
    BY <1>1, <1>3, <2>1, <2>4, <2>6, CopyHas DEF EntryOf, Settings
  <2>8. CASE Copy[c] = "active"
    BY <1>1, <2>2, <2>7, <2>8, PromiseVars DEF Promise!Next, EntriesInv, OneRow
  <2>9. CASE Copy[c] = "inactive"
    <3>1. UNCHANGED Copy
      BY <2>7, <2>9 DEF Copy, Entries
    <3> QED
      BY <1>1, <2>7, <3>1, PromiseVars DEF EntriesInv, OneRow
  <2> QED
    BY <2>7, <2>8, <2>9
<1> QED
  BY <1>2, <1>3

\* A mapping that a sync inserts was not there, and its catalogus is; one that it updates keeps
\* its settings.
LEMMA WritePromise ==
  ASSUME EntriesInv, NEW w \in Workers, WriteMapping(w)
  PROVE  OneRow(mappings)' /\ [Promise!Next]_(Promise!vars)
<1> DEFINE run == runs[w]
<1>1. Is(w, "one", "write") /\ UNCHANGED <<catalogi, absent, edits>>
  BY DEF WriteMapping, counts
<1>2. /\ run.at \in Zaaktypen
      /\ run.catalogus \in DOMAIN catalogi => CatalogusOf[run.at] = catalogi[run.catalogus].url
      /\ run.catalogus \in Ids
  BY <1>1, RunOf DEF EntriesInv, RunInv, OneInv, OneRun
<1>3. CASE UNCHANGED mappings
  BY <1>1, <1>3, LookPromise DEF tables
<1>4. CASE ~Refused(run) /\ run.found = NoRow /\ MappingsToUpdate(run) = {}
  <2>1. PICK row : row = [url |-> run.at, catalogus |-> run.catalogus, active |-> FALSE, chosen |-> FALSE]
    OBVIOUS
  <2>2. CASE UNCHANGED mappings
    BY <1>3, <2>2
  <2>3. CASE ~UNCHANGED mappings
    <3>1. PICK m \in NewIds : mappings' = Put(mappings, m, row)
      BY <1>4, <2>1, <2>3 DEF WriteMapping
    <3>2. PICK z \in Zaaktypen : z = run.at
      BY <1>2
    <3>3. /\ m \notin DOMAIN mappings /\ row.url = z /\ row.active = FALSE
          /\ \A n \in DOMAIN mappings : mappings[n].url # z
      BY <1>4, <2>1, <3>2, NewIdsUnused DEF MappingsToUpdate, MappingRows
    <3>4. /\ OneRow(mappings') /\ Entry(mappings, z) = "none"
          /\ Settings' = [Settings EXCEPT ![z] = EntryOf(row)]
      BY <3>1, <3>3, RowTypes, EntryAdded DEF Settings
    <3>5. Copy[CatalogusOf[z]] # "none"
      <4>1. run.catalogus \in DOMAIN catalogi
        BY <1>4 DEF Refused
      <4> QED
        BY <1>2, <3>2, <4>1, CopyHas
    <3>6. /\ Settings[z] = "none" /\ Settings' = [Settings EXCEPT ![z] = "inactive"] /\ UNCHANGED Copy
      BY <1>1, <3>3, <3>4 DEF Settings, Entries, EntryOf, Copy
    <3> QED
      BY <1>1, <3>4, <3>5, <3>6, PromiseVars DEF Promise!Next, OneRow
  <2> QED
    BY <2>2, <2>3
<1>5. CASE mappings' = [m \in DOMAIN mappings |->
                          IF m \in MappingsToUpdate(run) THEN Written(run, mappings[m]) ELSE mappings[m]]
  <2>1. ASSUME NEW m \in DOMAIN mappings
        PROVE  mappings'[m].url = mappings[m].url /\ mappings'[m].active = mappings[m].active
    BY <1>5, RowTypes DEF Written, MappingRow
  <2>2. OneRow(mappings') /\ Settings' = Settings
    BY <1>5, <2>1, RowTypes, EntriesStay DEF Settings
  <2> QED
    BY <1>1, <2>2, PromiseVars DEF Copy, OneRow
<1> QED
  BY <1>3, <1>4, <1>5 DEF WriteMapping

\* Every step is one of the promise, or a stutter.
LEMMA StepPromise ==
  ASSUME EntriesInv, [Next]_vars
  PROVE  OneRow(mappings)' /\ [Promise!Next]_(Promise!vars)
<1>1. ASSUME UNCHANGED <<tables, edits>>, absent \subseteq absent'
      PROVE  OneRow(mappings)' /\ [Promise!Next]_(Promise!vars)
  BY <1>1, LookPromise
<1>2. CASE ChangeZgw \/ RequestAll \/ UNCHANGED vars
  BY <1>1, <1>2 DEF ChangeZgw, RequestAll, vars, counts
<1>3. ASSUME NEW w \in Workers, FetchCatalogi(w) \/ SyncFails(w) \/ \E i \in Ids : StartSync(w, i)
      PROVE  OneRow(mappings)' /\ [Promise!Next]_(Promise!vars)
  BY <1>1, <1>3 DEF FetchCatalogi, SyncFails, StartSync, counts
<1>4. ASSUME NEW w \in Workers, Step(w)
      PROVE  OneRow(mappings)' /\ [Promise!Next]_(Promise!vars)
  <2>1. ASSUME \/ \E c \in Catalogi : FindCatalogus(w, c)
               \/ FindStale(w) \/ DispatchSyncs(w) \/ FinishSync(w)
               \/ \E z \in Zaaktypen : FindMapping(w, z)
        PROVE  UNCHANGED <<tables, edits, absent>>
    BY <2>1 DEF FindCatalogus, FindStale, DispatchSyncs, FinishSync, FindMapping, counts
  <2> QED
    BY <1>1, <1>4, <2>1, InsertPromise, DeactivatePromise, WritePromise DEF Step
<1> QED
  BY <1>2, <1>3, <1>4, AdminPromise DEF Next

\* Both tables start empty.
LEMMA InitPromise == Init => Promise!Init /\ OneRow(mappings)
<1> SUFFICES ASSUME Init PROVE Promise!Init /\ OneRow(mappings)
  OBVIOUS
<1>1. DOMAIN catalogi = {} /\ DOMAIN mappings = {} /\ absent = {} /\ edits = 0
  BY DEF Init, Empty
<1>2. \A url : Entry(catalogi, url) = "none" /\ Entry(mappings, url) = "none"
  BY <1>1 DEF Entry
<1> QED
  BY <1>1, <1>2 DEF Promise!Init, OneRow

\* However syncs and the admin interleave, a sync only adds what is not there and deactivates
\* what was gone, and the rest is as the admin left it.
THEOREM CatalogiKeepsPromise == Spec => KeepsPromise
<1>1. Init => EntriesInv /\ Promise!Init
  BY InitPromise, InitCatInv DEF EntriesInv
<1>2. EntriesInv /\ [Next]_vars => EntriesInv' /\ [Promise!Next]_(Promise!vars)
  BY StepPromise, StepCatInv DEF EntriesInv
<1> QED
  BY <1>1, <1>2, PTL DEF Spec, KeepsPromise, Promise!Spec
=============================================================================
