--------------------------- MODULE DocumentProofs ---------------------------
(* Theorems about DocumentSync, for every value of its constants. *)
EXTENDS DocumentImplements, TablesProofs

RunRow == AddRun \cup UpdateRun

\* The lock keeps runs apart.
OwnsLock == \A j \in DOMAIN runs : lock = j

\* A document that was read: no newer than the newest version, and with content only from
\* the first version on that had it.
Historic(d) ==
  /\ d.versie <= document.versie
  /\ IF d.content = "none" THEN since = 0 \/ d.versie < since ELSE since # 0 /\ since <= d.versie

History ==
  /\ since = 0 <=> document.content = "none"
  /\ since <= document.versie
  /\ \A v \in due : v <= document.versie
  /\ \A z \in Zaken : shown[z] <= document.versie /\ (shown[z] # 0 => since # 0 /\ since <= shown[z])

\* The register is true, and registers a placeholder only for a version without content.
RegisterInv ==
  register # NoEntry =>
    /\ register.versie <= document.versie
    /\ IF register.placeholder THEN since = 0 \/ register.versie < since
       ELSE shown[register.zaak] >= register.versie

\* A change that is done had nothing to show, or is shown.
Handled(v) == since = 0 \/ v < since \/ (register # NoEntry /\ shown[register.zaak] >= v)
DoneTrue == \A v \in 2..document.versie : v \in due \/ Handled(v)

\* A run read what was there, nobody changed the register or Corsa since, and it sends only
\* what is whole, or a placeholder for what was never shown.
RunInv(run) ==
  /\ Historic(run.seen)
  /\ run.change <= document.versie
  /\ run.step \in {"fetched", "ready"} => \A z \in Zaken : shown[z] <= run.seen.versie
  /\ run.step \in {"fetched", "ready", "sent"} => run.change <= run.seen.versie
  /\ run.op = "add" /\ run.step # "locked" =>
       run.sync = register /\ (register # NoEntry => register.zaak # run.zaak)
  /\ run.op = "update" /\ run.step \in {"ready", "sent"} => run.sync = register /\ run.seen.content = "full"
  /\ run.step \in {"ready", "sent"} => run.seen.content # "parts"
  /\ run.step = "sent" => shown[Target(run)] = IF run.seen.content = "full" THEN run.seen.versie ELSE 0
RunsInv == \A j \in DOMAIN runs : RunInv(runs[j])

\* An add that is not registered is being registered, or cost a fault.
Sent(z) == \E j \in DOMAIN runs : runs[j].step = "sent" /\ runs[j].op = "add" /\ runs[j].zaak = z
Counted ==
  \A z \in Zaken :
    /\ register = NoEntry => added[z] <= faults + (IF Sent(z) THEN 1 ELSE 0)
    /\ register # NoEntry /\ register.zaak = z => added[z] <= 1 + faults

DocInv == TypeOK /\ OwnsLock /\ History /\ RegisterInv /\ DoneTrue /\ RunsInv /\ Counted

-----------------------------------------------------------------------------
(* One run at a time. *)

\* A run is the only one, and it has the lock.
LEMMA OneRun ==
  ASSUME DocInv, NEW j \in DOMAIN runs
  PROVE  /\ DOMAIN runs = {j} /\ lock = j /\ j \in Jobs /\ j # Free
         /\ runs[j] \in RunRow /\ RunInv(runs[j])
         /\ runs \in [{j} -> RunRow]
         /\ \A z : Sent(z) <=> runs[j].step = "sent" /\ runs[j].op = "add" /\ runs[j].zaak = z
<1>1. j \in Jobs /\ runs[j] \in RunRow /\ runs \in [DOMAIN runs -> RunRow] /\ Free \notin Jobs
  BY RowOfTable, ConstantsAssumption DEF DocInv, TypeOK, RunRow, IsTable
<1>2. DOMAIN runs = {j} /\ lock = j
  BY DEF DocInv, OwnsLock
<1>3. RunInv(runs[j])
  BY DEF DocInv, RunsInv
<1>4. \A z : Sent(z) <=> runs[j].step = "sent" /\ runs[j].op = "add" /\ runs[j].zaak = z
  BY <1>2 DEF Sent
<1> QED
  BY <1>1, <1>2, <1>3, <1>4

\* When it ends, no run is left.
LEMMA RunEnds ==
  ASSUME DocInv, NEW j \in DOMAIN runs, runs' = Drop(runs, j), lock' \in Jobs \cup {Free}
  PROVE  /\ DOMAIN runs' = {} /\ IsTable(runs', Jobs, AddRun \cup UpdateRun)
         /\ OwnsLock' /\ RunsInv' /\ \A z : ~Sent(z)'
<1>1. DOMAIN runs' = {}
  BY OneRun DEF Drop
<1>2. IsTable(runs', Jobs, AddRun \cup UpdateRun)
  BY DropIsTable DEF DocInv, TypeOK
<1> QED
  BY <1>1, <1>2 DEF OwnsLock, RunsInv, Sent

\* A lock that is released is free, or that of another job.
LEMMA LockReleased ==
  ASSUME DocInv, NEW j, ReleaseLock(j)
  PROVE  lock' \in Jobs \cup {Free}
BY DEF ReleaseLock, DocInv, TypeOK

\* When it goes on, it is still the only one.
LEMMA RunMoves ==
  ASSUME DocInv, NEW j \in DOMAIN runs, NEW run \in RunRow, runs' = [runs EXCEPT ![j] = run],
         lock' = lock, RunInv(run)'
  PROVE  /\ IsTable(runs', Jobs, AddRun \cup UpdateRun) /\ OwnsLock' /\ RunsInv'
         /\ \A z : Sent(z)' <=> run.step = "sent" /\ run.op = "add" /\ run.zaak = z
<1>1. DOMAIN runs = {j} /\ lock = j /\ j \in Jobs /\ runs \in [{j} -> RunRow]
  BY OneRun
<1>2. DOMAIN runs' = {j} /\ runs'[j] = run /\ runs' \in [{j} -> RunRow]
  BY <1>1
<1>3. RunsInv'
  BY <1>2 DEF RunsInv
<1> QED
  BY <1>1, <1>2, <1>3 DEF IsTable, OwnsLock, Sent, RunRow

-----------------------------------------------------------------------------
(* What a step of a run keeps. *)

\* A run that ends before it sent anything, or whose sending was recorded as a fault before.
LEMMA EndKeeps ==
  ASSUME DocInv, NEW j \in DOMAIN runs, Finish(j), runs[j].step # "sent",
         UNCHANGED <<newest, corsa, register, adds, faults>>,
         due' = due \/ (due' = due \ {runs[j].change} /\ (runs[j].change = 0 \/ Handled(runs[j].change)))
  PROVE  DocInv'
<1>1. /\ UNCHANGED <<document, since, listed, shown, added, register, adds, faults>>
      /\ runs' = Drop(runs, j) /\ due' \subseteq due
  BY DEF newest, corsa, Finish
<1>2. lock' \in Jobs \cup {Free}
  BY LockReleased DEF Finish
<1>3. /\ DOMAIN runs' = {} /\ IsTable(runs', Jobs, AddRun \cup UpdateRun)
      /\ OwnsLock' /\ RunsInv' /\ \A z : ~Sent(z)'
  BY <1>1, <1>2, RunEnds
<1>4. TypeOK'
  BY <1>1, <1>2, <1>3 DEF DocInv, TypeOK
<1>5. History' /\ RegisterInv'
  BY <1>1 DEF DocInv, History, RegisterInv
<1>6. DoneTrue'
  BY <1>1 DEF DocInv, DoneTrue, Handled
<1>7. Counted'
  <2>1. \A z : ~Sent(z)
    BY OneRun
  <2> QED
    BY <1>1, <1>3, <2>1 DEF DocInv, Counted
<1> QED
  BY <1>3, <1>4, <1>5, <1>6, <1>7 DEF DocInv

\* A run that goes on to a step before it sends.
LEMMA MoveKeeps ==
  ASSUME DocInv, NEW j \in DOMAIN runs, NEW run \in RunRow, runs' = [runs EXCEPT ![j] = run],
         runs[j].step # "sent", run.step # "sent", RunInv(run),
         UNCHANGED <<zgw, corsa, lock, register, adds, faults>>
  PROVE  DocInv'
<1>1. UNCHANGED <<document, since, due, listed, shown, added, lock, register, adds, faults>>
  BY DEF zgw, newest, corsa
<1>2. RunInv(run)'
  BY <1>1 DEF RunInv, Historic, Target
<1>3. /\ IsTable(runs', Jobs, AddRun \cup UpdateRun) /\ OwnsLock' /\ RunsInv'
      /\ \A z : ~Sent(z)'
  BY <1>1, <1>2, RunMoves
<1>4. TypeOK'
  BY <1>1, <1>3 DEF DocInv, TypeOK
<1>5. History' /\ RegisterInv' /\ DoneTrue'
  BY <1>1 DEF DocInv, History, RegisterInv, DoneTrue, Handled
<1>6. Counted'
  <2>1. \A z : ~Sent(z)
    BY OneRun
  <2> QED
    BY <1>1, <1>3, <2>1 DEF DocInv, Counted
<1> QED
  BY <1>3, <1>4, <1>5, <1>6 DEF DocInv

-----------------------------------------------------------------------------
(* The steps of a run up to the one that sends. *)

\* A row of the type of a run with other values is one too.
LEMMA RunFields ==
  ASSUME NEW run \in RunRow
  PROVE  /\ run.op \in {"add", "update"} /\ run.zaak \in Zaken /\ run.seen \in Documents
         /\ run.change \in 0..MaxVersie /\ run.sync \in Entry \cup {NoEntry}
         /\ run.op = "add" => run.change = 0
         /\ run.op = "update" => run.change \in 1..MaxVersie /\ run.step # "checked"
         /\ run.step \in {"locked", "checked", "fetched", "ready", "sent"}
<1>1. CASE run \in AddRun
  BY <1>1, ConstantsAssumption DEF AddRun
<1>2. CASE run \in UpdateRun
  BY <1>2 DEF UpdateRun
<1> QED
  BY <1>1, <1>2 DEF RunRow

\* A run that goes to another step is otherwise the same.
LEMMA RunAt ==
  ASSUME NEW run \in RunRow, NEW step \in {"locked", "fetched", "ready", "sent"}
  PROVE  LET new == [run EXCEPT !.step = step]
         IN  /\ new \in RunRow /\ new.op = run.op /\ new.zaak = run.zaak /\ new.change = run.change
             /\ new.seen = run.seen /\ new.sync = run.sync /\ new.step = step
<1>1. CASE run \in AddRun
  BY <1>1 DEF RunRow, AddRun
<1>2. CASE run \in UpdateRun
  BY <1>2 DEF RunRow, UpdateRun
<1> QED
  BY <1>1, <1>2 DEF RunRow

\* The row that is read is the one of the register now.
LEMMA CheckRegisterKeeps ==
  ASSUME DocInv, NEW j \in Jobs, CheckRegister(j)
  PROVE  DocInv'
<1>1. /\ j \in DOMAIN runs /\ runs[j].op = "add" /\ runs[j].step = "locked"
      /\ UNCHANGED <<newest, corsa, register, adds, faults>>
  BY DEF CheckRegister, Running
<1>2. runs[j] \in RunRow /\ RunInv(runs[j]) /\ runs[j].change = 0
  BY <1>1, OneRun, RunFields
<1>3. ASSUME Processed(j) PROVE DocInv'
  BY <1>1, <1>2, <1>3, EndKeeps DEF Processed
<1>4. ASSUME ~(register # NoEntry /\ register.zaak = runs[j].zaak), UNCHANGED <<due, lock>>,
             runs' = [runs EXCEPT ![j].sync = register, ![j].step = "checked"]
      PROVE  DocInv'
  <2> DEFINE run == [runs[j] EXCEPT !.sync = register, !.step = "checked"]
  <2>1. register \in Entry \cup {NoEntry} /\ runs[j] \in AddRun
    BY <1>1, <1>2 DEF DocInv, TypeOK, RunRow, UpdateRun
  <2>2. /\ run \in RunRow /\ run.op = "add" /\ run.zaak = runs[j].zaak /\ run.change = runs[j].change
        /\ run.seen = runs[j].seen /\ run.sync = register /\ run.step = "checked"
    BY <1>1, <2>1 DEF RunRow, AddRun
  <2>3. runs' = [runs EXCEPT ![j] = run]
    BY <1>1, <1>4
  <2> HIDE DEF run
  <2>4. RunInv(run)
    BY <1>2, <1>4, <2>2 DEF RunInv, Historic
  <2> QED
    BY <1>1, <1>4, <2>2, <2>3, <2>4, MoveKeeps DEF zgw
<1> QED
  BY <1>3, <1>4 DEF CheckRegister

\* The document that is read is the newest.
LEMMA FetchKeeps ==
  ASSUME DocInv, NEW j \in Jobs, Fetch(j)
  PROVE  DocInv'
<1> DEFINE run == [runs[j] EXCEPT !.seen = document, !.step = "fetched"]
<1>1. /\ j \in DOMAIN runs /\ runs[j].step \in {"locked", "checked"}
      /\ runs[j].op = "add" => runs[j].step = "checked"
      /\ UNCHANGED <<zgw, corsa, lock, register, adds, faults>>
  BY DEF Fetch, Running
<1>2. runs[j] \in RunRow /\ RunInv(runs[j])
  BY <1>1, OneRun
<1>3. document \in Documents
  BY DEF DocInv, TypeOK
<1>4. /\ run \in RunRow /\ run.op = runs[j].op /\ run.zaak = runs[j].zaak /\ run.change = runs[j].change
      /\ run.seen = document /\ run.sync = runs[j].sync /\ run.step = "fetched"
  <2>1. CASE runs[j] \in AddRun
    BY <1>3, <2>1 DEF RunRow, AddRun
  <2>2. CASE runs[j] \in UpdateRun
    BY <1>3, <2>2 DEF RunRow, UpdateRun
  <2> QED
    BY <1>2, <2>1, <2>2 DEF RunRow
<1>5. runs' = [runs EXCEPT ![j] = run]
  BY <1>1 DEF Fetch
<1> HIDE DEF run
<1>6. Historic(document)
  BY <1>3 DEF Historic, DocInv, History, TypeOK, Documents
<1>7. \A z \in Zaken : shown[z] <= document.versie
  BY DEF DocInv, History
<1>8. RunInv(run)
  BY <1>1, <1>2, <1>4, <1>6, <1>7 DEF RunInv
<1> QED
  BY <1>1, <1>4, <1>5, <1>8, MoveKeeps

\* An add goes on with what is whole, or with a placeholder.
LEMMA CheckContentKeeps ==
  ASSUME DocInv, NEW j \in Jobs, CheckContent(j)
  PROVE  DocInv'
<1>1. /\ j \in DOMAIN runs /\ runs[j].op = "add" /\ runs[j].step = "fetched"
      /\ UNCHANGED <<newest, corsa, register, adds, faults>>
  BY DEF CheckContent, Running
<1>2. runs[j] \in RunRow /\ RunInv(runs[j])
  BY <1>1, OneRun
<1>3. ASSUME NotProcessed(j) PROVE DocInv'
  BY <1>1, <1>3, EndKeeps DEF NotProcessed
<1>4. ASSUME runs[j].seen.content = "full" \/ MayUsePlaceholder(runs[j].seen),
             Advance(j, "ready"), UNCHANGED <<due, lock>>
      PROVE  DocInv'
  <2> DEFINE run == [runs[j] EXCEPT !.step = "ready"]
  <2>1. /\ run \in RunRow /\ run.op = "add" /\ run.zaak = runs[j].zaak /\ run.change = runs[j].change
        /\ run.seen = runs[j].seen /\ run.sync = runs[j].sync /\ run.step = "ready"
    BY <1>1, <1>2, RunAt
  <2>2. runs' = [runs EXCEPT ![j] = run]
    BY <1>4 DEF Advance
  <2> HIDE DEF run
  <2>3. RunInv(run)
    BY <1>1, <1>2, <1>4, <2>1 DEF RunInv, Historic, MayUsePlaceholder
  <2> QED
    BY <1>1, <1>4, <2>1, <2>2, <2>3, MoveKeeps DEF zgw
<1> QED
  BY <1>3, <1>4 DEF CheckContent

\* A change that ends here is up to date, or has no content that could be shown.
LEMMA CheckVersionOutcomes ==
  ASSUME DocInv, NEW j \in Jobs, CheckVersion(j)
  PROVE  /\ j \in DOMAIN runs /\ runs[j].op = "update" /\ runs[j].step = "fetched"
         /\ UNCHANGED <<newest, corsa, register, adds, faults>>
         /\ \/ Processed(j) /\ Handled(runs[j].change)
            \/ NotProcessed(j)
            \/ /\ runs' = [runs EXCEPT ![j].sync = register, ![j].step = "ready"]
               /\ runs[j].seen.content = "full" /\ UNCHANGED <<due, lock>>
<1> DEFINE seen == runs[j].seen
<1>1. /\ j \in DOMAIN runs /\ runs[j].op = "update" /\ runs[j].step = "fetched"
      /\ UNCHANGED <<newest, corsa, register, adds, faults>>
  BY DEF CheckVersion, Running
<1>2. /\ runs[j] \in RunRow /\ RunInv(runs[j]) /\ runs[j].change \in 1..MaxVersie
      /\ seen \in Documents /\ register \in Entry \cup {NoEntry} /\ since \in 0..MaxVersie
  BY <1>1, OneRun, RunFields DEF DocInv, TypeOK
<1>3. shown \in [Zaken -> 0..MaxVersie]
  BY DEF DocInv, TypeOK
<1>4. runs[j].change <= seen.versie /\ Historic(seen)
  BY <1>1, <1>2 DEF RunInv
<1>5. ASSUME AlreadyUpToDate(seen) PROVE Handled(runs[j].change)
  <2>1. register \in Entry /\ seen.versie <= register.versie
    BY <1>2, <1>5 DEF AlreadyUpToDate
  <2>2. seen.versie \in Nat /\ register.versie \in Nat /\ shown[register.zaak] \in Nat /\ register # NoEntry
    BY <1>2, <1>3, <1>5, <2>1 DEF Documents, Entry, AlreadyUpToDate
  <2>3. \/ since = 0 \/ register.versie < since \/ shown[register.zaak] >= register.versie
    BY <2>2 DEF DocInv, RegisterInv
  <2> QED
    BY <1>2, <1>4, <2>1, <2>2, <2>3 DEF Handled
<1>6. ASSUME seen.content \notin {"parts", "full"} PROVE Handled(runs[j].change)
  <2>1. seen.versie \in Nat /\ seen.content = "none"
    BY <1>2, <1>6 DEF Documents
  <2> QED
    BY <1>2, <1>4, <2>1 DEF Handled, Historic
<1>7. \/ Processed(j) /\ (AlreadyUpToDate(seen) \/ seen.content \notin {"parts", "full"})
      \/ NotProcessed(j)
      \/ /\ runs' = [runs EXCEPT ![j].sync = register, ![j].step = "ready"]
         /\ seen.content = "full" /\ UNCHANGED <<due, lock>>
  <2>1. CASE AlreadyUpToDate(seen)
    BY <2>1 DEF CheckVersion
  <2>2. CASE ~AlreadyUpToDate(seen) /\ seen.content = "parts"
    BY <2>2 DEF CheckVersion
  <2>3. CASE ~AlreadyUpToDate(seen) /\ seen.content # "parts"
    BY <2>3 DEF CheckVersion
  <2> QED
    BY <2>1, <2>2, <2>3
<1> QED
  BY <1>1, <1>5, <1>6, <1>7

\* An update that goes on has a version newer than what is registered, and one that does not
\* is done.
LEMMA CheckVersionKeeps ==
  ASSUME DocInv, NEW j \in Jobs, CheckVersion(j)
  PROVE  DocInv'
<1>1. /\ j \in DOMAIN runs /\ runs[j].op = "update" /\ runs[j].step = "fetched"
      /\ UNCHANGED <<newest, corsa, register, adds, faults>>
  BY CheckVersionOutcomes
<1>2. runs[j] \in RunRow /\ RunInv(runs[j])
  BY <1>1, OneRun
<1>3. ASSUME Processed(j), Handled(runs[j].change) PROVE DocInv'
  BY <1>1, <1>3, EndKeeps DEF Processed
<1>4. ASSUME NotProcessed(j) PROVE DocInv'
  BY <1>1, <1>4, EndKeeps DEF NotProcessed
<1>5. ASSUME runs' = [runs EXCEPT ![j].sync = register, ![j].step = "ready"],
             runs[j].seen.content = "full", UNCHANGED <<due, lock>>
      PROVE  DocInv'
  <2> DEFINE run == [runs[j] EXCEPT !.sync = register, !.step = "ready"]
  <2>1. register \in Entry \cup {NoEntry} /\ runs[j] \in UpdateRun
    BY <1>1, <1>2 DEF DocInv, TypeOK, RunRow, AddRun
  <2>2. /\ run \in RunRow /\ run.op = "update" /\ run.zaak = runs[j].zaak /\ run.change = runs[j].change
        /\ run.seen = runs[j].seen /\ run.sync = register /\ run.step = "ready"
    BY <1>1, <2>1 DEF RunRow, UpdateRun
  <2>3. runs' = [runs EXCEPT ![j] = run]
    BY <1>1, <1>5
  <2> HIDE DEF run
  <2>4. RunInv(run)
    BY <1>1, <1>2, <1>5, <2>2 DEF RunInv, Historic
  <2> QED
    BY <1>1, <1>5, <2>2, <2>3, <2>4, MoveKeeps DEF zgw
<1> QED
  BY <1>3, <1>4, <1>5, CheckVersionOutcomes

-----------------------------------------------------------------------------
(* Sending. *)

\* What Corsa shows after a run sent what it read: nothing older, and in the zaak of the run
\* the version it read, or still nothing when that had no content.
LEMMA CorsaShows ==
  ASSUME DocInv, NEW j \in DOMAIN runs, runs[j].step = "ready", InCorsa(runs[j])
  PROVE  LET run == runs[j]
             version == IF run.seen.content = "full" THEN run.seen.versie ELSE 0
         IN  /\ Target(run) \in Zaken /\ version \in 0..document.versie
             /\ version # 0 => since # 0 /\ since <= version
             /\ shown' = [shown EXCEPT ![Target(run)] = version]
             /\ shown' \in [Zaken -> 0..MaxVersie]
             /\ \A z \in Zaken : shown[z] <= shown'[z]
             /\ added' \in [Zaken -> Nat] /\ listed' = listed
             /\ \A z \in Zaken : added'[z] = IF run.op = "add" /\ z = run.zaak THEN added[z] + 1 ELSE added[z]
<1> DEFINE run == runs[j]
           version == IF run.seen.content = "full" THEN run.seen.versie ELSE 0
<1>1. run \in RunRow /\ RunInv(run) /\ run.seen \in Documents /\ run.zaak \in Zaken
      /\ run.sync \in Entry \cup {NoEntry} /\ run.op \in {"add", "update"}
  BY OneRun, RunFields
<1>2. /\ shown \in [Zaken -> 0..MaxVersie] /\ added \in [Zaken -> Nat] /\ since \in 0..MaxVersie
      /\ document.versie \in 1..MaxVersie
  BY DEF DocInv, TypeOK, Documents
<1>3. Target(run) \in Zaken /\ (run.op = "add" => Target(run) = run.zaak)
  BY <1>1 DEF Target, Entry
<1>4. Historic(run.seen) /\ run.seen.content \in {"none", "full"} /\ run.seen.versie \in 1..MaxVersie
  BY <1>1 DEF RunInv, Documents
<1>5. version \in 0..document.versie /\ version \in 0..MaxVersie /\ (version # 0 => since # 0 /\ since <= version)
  BY <1>2, <1>4, ConstantsAssumption DEF Historic
<1>6. shown' = [shown EXCEPT ![Target(run)] = version]
  BY DEF InCorsa
<1>7. shown[Target(run)] <= version
  <2>1. shown[Target(run)] <= run.seen.versie
    BY <1>1, <1>3 DEF RunInv
  <2>2. shown[Target(run)] # 0 => since # 0 /\ since <= shown[Target(run)]
    BY <1>3 DEF DocInv, History
  <2>3. CASE run.seen.content = "none"
    <3>1. since = 0 \/ run.seen.versie < since
      BY <1>4, <2>3 DEF Historic
    <3>2. shown[Target(run)] \in Nat
      BY <1>2, <1>3
    <3> QED
      BY <1>2, <1>4, <2>1, <2>2, <2>3, <3>1, <3>2
  <2> QED
    BY <1>4, <2>1, <2>3
<1>8. shown' \in [Zaken -> 0..MaxVersie] /\ \A z \in Zaken : shown[z] <= shown'[z]
  BY <1>2, <1>3, <1>5, <1>6, <1>7
<1>9. added' = [added EXCEPT ![Target(run)] = IF run.op = "add" THEN added[Target(run)] + 1 ELSE added[Target(run)]]
  BY DEF InCorsa
<1>10. /\ added' \in [Zaken -> Nat]
       /\ \A z \in Zaken : added'[z] = IF run.op = "add" /\ z = run.zaak THEN added[z] + 1 ELSE added[z]
  BY <1>1, <1>2, <1>3, <1>9
<1> QED
  BY <1>3, <1>5, <1>6, <1>8, <1>10 DEF InCorsa

\* The parts of the invariant that are about what Corsa shows, when that gets newer.
LEMMA ShownNewer ==
  ASSUME DocInv, NEW z \in Zaken, NEW version \in 0..document.versie,
         version # 0 => since # 0 /\ since <= version,
         shown' = [shown EXCEPT ![z] = version], \A y \in Zaken : shown[y] <= shown'[y],
         UNCHANGED <<document, since, due, register>>
  PROVE  History' /\ RegisterInv' /\ DoneTrue'
<1>1. /\ shown \in [Zaken -> 0..MaxVersie] /\ since \in 0..MaxVersie /\ document.versie \in 1..MaxVersie
      /\ register \in Entry \cup {NoEntry}
  BY DEF DocInv, TypeOK, Documents
<1>2. History'
  BY <1>1 DEF DocInv, History
<1>3. \A y \in Zaken : shown[y] \in Nat /\ shown'[y] \in Nat
  BY <1>1
<1>4. ASSUME register # NoEntry
      PROVE  register.zaak \in Zaken /\ register.versie \in Nat /\ shown[register.zaak] <= shown'[register.zaak]
  BY <1>1, <1>4 DEF Entry
<1>5. RegisterInv'
  BY <1>3, <1>4 DEF DocInv, RegisterInv
<1>6. DoneTrue'
  BY <1>1, <1>3, <1>4 DEF DocInv, DoneTrue, Handled
<1> QED
  BY <1>2, <1>5, <1>6

\* What is sent is no older than what is shown.
LEMMA SendKeeps ==
  ASSUME DocInv, NEW j \in Jobs, Send(j)
  PROVE  DocInv'
<1> DEFINE version == IF runs[j].seen.content = "full" THEN runs[j].seen.versie ELSE 0
<1>1. /\ j \in DOMAIN runs /\ runs[j].step = "ready" /\ InCorsa(runs[j]) /\ Advance(j, "sent")
      /\ UNCHANGED <<document, since, due, lock, register, adds, faults>>
  BY DEF Send, zgw, newest
<1>2. runs[j] \in RunRow /\ RunInv(runs[j]) /\ \A z : ~Sent(z)
  BY <1>1, OneRun
<1>3. PICK run \in RunRow :
      /\ run = [runs[j] EXCEPT !.step = "sent"] /\ run.op = runs[j].op /\ run.zaak = runs[j].zaak /\ run.change = runs[j].change
      /\ run.seen = runs[j].seen /\ run.sync = runs[j].sync /\ run.step = "sent"
  BY <1>2, RunAt
<1>4. runs' = [runs EXCEPT ![j] = run]
  BY <1>1, <1>3 DEF Advance
<1>5. Target(run) = Target(runs[j])
  BY <1>3 DEF Target
<1>6. /\ Target(run) \in Zaken /\ version \in 0..document.versie
      /\ version # 0 => since # 0 /\ since <= version
      /\ shown' = [shown EXCEPT ![Target(run)] = version]
      /\ shown' \in [Zaken -> 0..MaxVersie] /\ \A z \in Zaken : shown[z] <= shown'[z]
      /\ added' \in [Zaken -> Nat] /\ listed' = listed
      /\ \A z \in Zaken : added'[z] = IF run.op = "add" /\ z = run.zaak THEN added[z] + 1 ELSE added[z]
  BY <1>1, <1>3, <1>5, CorsaShows
<1> HIDE DEF version
<1>7. shown'[Target(run)] = version
  BY <1>6 DEF DocInv, TypeOK
<1>8. RunInv(run)'
  BY <1>1, <1>2, <1>3, <1>7 DEF RunInv, Historic, Target, version
<1>9. /\ IsTable(runs', Jobs, AddRun \cup UpdateRun) /\ OwnsLock' /\ RunsInv'
      /\ \A z : Sent(z)' <=> run.op = "add" /\ run.zaak = z
  <2>1. j \in DOMAIN runs /\ lock' = lock
    BY <1>1
  <2>2. /\ IsTable(runs', Jobs, AddRun \cup UpdateRun) /\ OwnsLock' /\ RunsInv'
        /\ \A z : Sent(z)' <=> run.step = "sent" /\ run.op = "add" /\ run.zaak = z
    BY <1>4, <1>8, <2>1, RunMoves
  <2>3. run.step = "sent"
    BY <1>3
  <2> QED
    BY <2>2, <2>3
<1>10. TypeOK'
  BY <1>1, <1>6, <1>9 DEF DocInv, TypeOK
<1>11. History' /\ RegisterInv' /\ DoneTrue'
  BY <1>1, <1>6, ShownNewer
<1>12. Counted'
  <2>1. ASSUME NEW z \in Zaken
        PROVE  /\ register = NoEntry => added'[z] <= faults + (IF Sent(z)' THEN 1 ELSE 0)
               /\ register # NoEntry /\ register.zaak = z => added'[z] <= 1 + faults
    <3>1. added[z] \in Nat /\ faults \in Nat
      BY DEF DocInv, TypeOK
    <3>2. /\ register = NoEntry => added[z] <= faults
          /\ register # NoEntry /\ register.zaak = z => added[z] <= 1 + faults
      BY <1>2, <3>1 DEF DocInv, Counted
    <3>3. CASE run.op = "add" /\ run.zaak = z
      <4>1. register # NoEntry => register.zaak # z
        BY <1>1, <1>2, <1>3, <3>3 DEF RunInv
      <4> QED
        BY <1>6, <1>9, <3>1, <3>2, <3>3, <4>1
    <3>4. CASE ~(run.op = "add" /\ run.zaak = z)
      BY <1>6, <1>9, <3>1, <3>2, <3>4
    <3> QED
      BY <3>3, <3>4
  <2> QED
    BY <1>1, <2>1 DEF Counted
<1> QED
  BY <1>9, <1>10, <1>11, <1>12 DEF DocInv

\* The document is in Corsa, but nothing says so.
LEMMA SendFailsKeeps ==
  ASSUME DocInv, NEW j \in Jobs, SendFails(j)
  PROVE  DocInv'
<1> DEFINE version == IF runs[j].seen.content = "full" THEN runs[j].seen.versie ELSE 0
<1>1. /\ j \in DOMAIN runs /\ runs[j].step = "ready" /\ InCorsa(runs[j])
      /\ runs' = Drop(runs, j) /\ ReleaseLock(j) /\ faults' = faults + 1
      /\ UNCHANGED <<document, since, due, register, adds>>
  BY DEF SendFails, NotProcessed, Finish, newest
<1>2. \A z : ~Sent(z)
  BY <1>1, OneRun
<1>3. /\ Target(runs[j]) \in Zaken /\ version \in 0..document.versie
      /\ version # 0 => since # 0 /\ since <= version
      /\ shown' = [shown EXCEPT ![Target(runs[j])] = version]
      /\ shown' \in [Zaken -> 0..MaxVersie] /\ \A z \in Zaken : shown[z] <= shown'[z]
      /\ added' \in [Zaken -> Nat] /\ listed' = listed
      /\ \A z \in Zaken : added'[z] = IF runs[j].op = "add" /\ z = runs[j].zaak THEN added[z] + 1 ELSE added[z]
  BY <1>1, CorsaShows
<1> HIDE DEF version
<1>4. lock' \in Jobs \cup {Free}
  BY <1>1, LockReleased
<1>5. /\ IsTable(runs', Jobs, AddRun \cup UpdateRun)
      /\ OwnsLock' /\ RunsInv' /\ \A z : ~Sent(z)'
  BY <1>1, <1>4, RunEnds
<1>6. TypeOK'
  BY <1>1, <1>3, <1>4, <1>5 DEF DocInv, TypeOK
<1>7. History' /\ RegisterInv' /\ DoneTrue'
  BY <1>1, <1>3, ShownNewer
<1>8. Counted'
  <2>1. ASSUME NEW z \in Zaken
        PROVE  /\ register = NoEntry => added'[z] <= faults'
               /\ register # NoEntry /\ register.zaak = z => added'[z] <= 1 + faults'
    <3>1. added[z] \in Nat /\ faults \in Nat
      BY DEF DocInv, TypeOK
    <3>2. /\ register = NoEntry => added[z] <= faults
          /\ register # NoEntry /\ register.zaak = z => added[z] <= 1 + faults
      BY <1>2, <3>1 DEF DocInv, Counted
    <3> QED
      BY <1>1, <1>3, <3>1, <3>2
  <2>2. faults' \in Nat
    BY <1>1 DEF DocInv, TypeOK
  <2> QED
    BY <1>1, <1>5, <2>1, <2>2 DEF Counted
<1> QED
  BY <1>5, <1>6, <1>7, <1>8 DEF DocInv

\* The run records what it sent, unless the document is registered for another zaak.
LEMMA Recorded ==
  ASSUME DocInv, NEW j \in Jobs, Record(j)
  PROVE  /\ j \in DOMAIN runs /\ runs[j].step = "sent" /\ Processed(j)
         /\ UNCHANGED <<document, since, listed, shown, added, adds, faults>>
         /\ register' \in Entry /\ register' # NoEntry
         /\ \/ register' = register /\ runs[j].op = "add" /\ runs[j].change = 0
            \/ /\ register = NoEntry \/ register'.zaak = register.zaak
               /\ runs[j].op = "add" => register = NoEntry /\ register'.zaak = runs[j].zaak
               /\ register'.versie = runs[j].seen.versie
               /\ runs[j].change = 0 \/ (runs[j].change <= shown[register'.zaak] /\ ~register'.placeholder)
               /\ register'.versie <= document.versie
               /\ IF register'.placeholder THEN since = 0 \/ register'.versie < since
                  ELSE shown[register'.zaak] >= register'.versie
<1> DEFINE new == [zaak |-> Target(runs[j]), versie |-> runs[j].seen.versie,
                   placeholder |-> runs[j].op = "add" /\ runs[j].seen.content # "full"]
<1>1. /\ j \in DOMAIN runs /\ runs[j].step = "sent" /\ Processed(j) /\ register' = NewEntry(runs[j])
      /\ UNCHANGED <<document, since, listed, shown, added, adds, faults>>
  BY DEF Record, newest, corsa
<1>2. runs[j] \in RunRow /\ RunInv(runs[j])
  BY <1>1, OneRun
<1>3. /\ runs[j].op \in {"add", "update"} /\ runs[j].zaak \in Zaken /\ runs[j].seen \in Documents
      /\ runs[j].sync \in Entry \cup {NoEntry} /\ runs[j].sync = register
      /\ runs[j].op = "add" => runs[j].change = 0
      /\ runs[j].op = "update" => runs[j].seen.content = "full"
      /\ runs[j].change \in 0..MaxVersie
  BY <1>1, <1>2, RunFields DEF RunInv
<1>4. CASE runs[j].op = "add" /\ register # NoEntry
  BY <1>1, <1>3, <1>4 DEF NewEntry
<1>5. CASE ~(runs[j].op = "add" /\ register # NoEntry)
  <2>1. register' = new
    BY <1>1, <1>3, <1>5 DEF NewEntry
  <2>2. Target(runs[j]) \in Zaken
        /\ (register # NoEntry => Target(runs[j]) = register.zaak)
        /\ (runs[j].op = "add" => Target(runs[j]) = runs[j].zaak)
    BY <1>3, <1>5 DEF Target, Entry
  <2>3. runs[j].seen.versie \in 1..MaxVersie /\ runs[j].seen.content \in {"none", "full"}
    BY <1>1, <1>2, <1>3 DEF RunInv, Documents
  <2>4. /\ new \in Entry /\ new.zaak = Target(runs[j]) /\ new.versie = runs[j].seen.versie
        /\ new.placeholder <=> runs[j].op = "add" /\ runs[j].seen.content # "full"
    BY <2>2, <2>3 DEF Entry
  <2> HIDE DEF new
  <2>5. new # NoEntry
    BY <2>4, NoEntryAssumption
  <2>6. Historic(runs[j].seen) /\ shown[Target(runs[j])] =
          IF runs[j].seen.content = "full" THEN runs[j].seen.versie ELSE 0
    BY <1>1, <1>2 DEF RunInv
  <2>7. runs[j].change <= runs[j].seen.versie
    BY <1>1, <1>2 DEF RunInv
  <2>8. /\ new.versie <= document.versie
        /\ IF new.placeholder THEN since = 0 \/ new.versie < since ELSE shown[new.zaak] >= new.versie
    BY <1>3, <2>3, <2>4, <2>6 DEF Historic
  <2>9. runs[j].change = 0 \/ (runs[j].change <= shown[new.zaak] /\ ~new.placeholder)
    BY <1>3, <2>3, <2>4, <2>6, <2>7
  <2> QED
    BY <1>1, <1>3, <1>5, <2>1, <2>2, <2>4, <2>5, <2>8, <2>9
<1> QED
  BY <1>4, <1>5

\* What is registered was sent.
LEMMA RecordKeeps ==
  ASSUME DocInv, NEW j \in Jobs, Record(j)
  PROVE  DocInv'
<1>1. /\ j \in DOMAIN runs /\ runs[j].step = "sent" /\ runs' = Drop(runs, j) /\ ReleaseLock(j)
      /\ due' = due \ {runs[j].change}
      /\ UNCHANGED <<document, since, listed, shown, added, adds, faults>>
      /\ register' \in Entry /\ register' # NoEntry
  BY Recorded DEF Processed, Finish
<1>2. lock' \in Jobs \cup {Free}
  BY <1>1, LockReleased
<1>3. /\ IsTable(runs', Jobs, AddRun \cup UpdateRun)
      /\ OwnsLock' /\ RunsInv' /\ \A z : ~Sent(z)'
  BY <1>1, <1>2, RunEnds
<1>4. TypeOK'
  BY <1>1, <1>2, <1>3 DEF DocInv, TypeOK
<1>5. History'
  BY <1>1 DEF DocInv, History
<1>6. RegisterInv'
  BY <1>1, Recorded DEF DocInv, RegisterInv
<1>7. shown \in [Zaken -> 0..MaxVersie] /\ register \in Entry \cup {NoEntry} /\ since \in 0..MaxVersie
      /\ document.versie \in 1..MaxVersie
  BY DEF DocInv, TypeOK, Documents
<1>8. ASSUME register # NoEntry PROVE register'.zaak = register.zaak
  BY <1>8, Recorded
<1>9. PICK change \in 0..MaxVersie :
      change = runs[j].change /\ (change = 0 \/ change <= shown[register'.zaak])
  <2>1. runs[j].change \in 0..MaxVersie
    BY <1>1, OneRun, RunFields
  <2> QED
    BY <2>1, Recorded
<1>10. DoneTrue'
  <2>1. ASSUME NEW v \in 2..document.versie PROVE v \in due' \/ Handled(v)'
    <3>1. CASE v = runs[j].change
      <4>1. shown[register'.zaak] \in Nat /\ v \in Nat /\ change \in Nat /\ v # 0
        BY <1>1, <1>7, <1>9, <3>1, ConstantsAssumption DEF Entry
      <4>2. v <= shown[register'.zaak]
        BY <1>9, <3>1, <4>1
      <4> QED
        BY <1>1, <4>1, <4>2 DEF Handled
    <3>2. CASE v # runs[j].change
      <4>1. v \in due' \/ Handled(v)
        BY <1>1, <3>2 DEF DocInv, DoneTrue
      <4> QED
        BY <1>1, <1>8, <4>1 DEF Handled
    <3> QED
      BY <3>1, <3>2
  <2> QED
    BY <1>1, <2>1 DEF DoneTrue
<1>11. Counted'
  <2>1. ASSUME NEW z \in Zaken, register'.zaak = z PROVE added[z] <= 1 + faults
    <3>1. added[z] \in Nat /\ faults \in Nat
      BY DEF DocInv, TypeOK
    <3>2. register = NoEntry => added[z] <= faults + (IF Sent(z) THEN 1 ELSE 0)
      BY DEF DocInv, Counted
    <3>3. register # NoEntry /\ register.zaak = z => added[z] <= 1 + faults
      BY DEF DocInv, Counted
    <3> QED
      BY <1>8, <2>1, <3>1, <3>2, <3>3
  <2> QED
    BY <1>1, <2>1 DEF Counted
<1> QED
  BY <1>3, <1>4, <1>5, <1>6, <1>10, <1>11 DEF DocInv

\* A worker that dies, also after it sent, costs a fault.
LEMMA CrashKeeps ==
  ASSUME DocInv, NEW j \in Jobs, Crash(j)
  PROVE  DocInv'
<1>1. /\ j \in DOMAIN runs /\ runs' = Drop(runs, j) /\ faults' = faults + 1
      /\ UNCHANGED <<document, since, due, listed, shown, added, lock, register, adds>>
  BY DEF Crash, zgw, newest, corsa
<1>2. /\ IsTable(runs', Jobs, AddRun \cup UpdateRun)
      /\ OwnsLock' /\ RunsInv' /\ \A z : ~Sent(z)'
  BY <1>1, RunEnds DEF DocInv, TypeOK
<1>3. TypeOK'
  BY <1>1, <1>2 DEF DocInv, TypeOK
<1>4. History' /\ RegisterInv' /\ DoneTrue'
  BY <1>1 DEF DocInv, History, RegisterInv, DoneTrue, Handled
<1>5. Counted'
  <2>1. ASSUME NEW z \in Zaken
        PROVE  /\ register = NoEntry => added[z] <= faults'
               /\ register # NoEntry /\ register.zaak = z => added[z] <= 1 + faults'
    <3>1. added[z] \in Nat /\ faults \in Nat
      BY DEF DocInv, TypeOK
    <3>2. register = NoEntry => added[z] <= faults + (IF Sent(z) THEN 1 ELSE 0)
      BY DEF DocInv, Counted
    <3>3. register # NoEntry /\ register.zaak = z => added[z] <= 1 + faults
      BY DEF DocInv, Counted
    <3> QED
      BY <1>1, <3>1, <3>2, <3>3
  <2>2. faults' \in Nat
    BY <1>1 DEF DocInv, TypeOK
  <2> QED
    BY <1>1, <1>2, <2>1, <2>2 DEF Counted
<1> QED
  BY <1>2, <1>3, <1>4, <1>5 DEF DocInv

-----------------------------------------------------------------------------
(* The lock and the document. *)

\* The lock is only free when nothing runs.
LEMMA StartKeeps ==
  ASSUME DocInv, NEW j \in Jobs, NEW op \in {"add", "update"}, NEW z \in Zaken, NEW v,
         op = "add" => v = 0, op = "update" => v \in due, Start(j, op, z, v), adds' \in Nat
  PROVE  DocInv'
<1>0. PICK run : run = [op |-> op, zaak |-> z, change |-> v, step |-> "locked",
                        seen |-> document, sync |-> NoEntry]
  OBVIOUS
<1>1. /\ lock = Free /\ lock' = j /\ runs' = Put(runs, j, run)
      /\ UNCHANGED <<document, since, due, listed, shown, added, register, faults>>
  BY <1>0 DEF Start, TakeLock, zgw, newest, corsa
<1>2. DOMAIN runs = {}
  BY <1>1, OneRun
<1>3. document \in Documents /\ due \subseteq 1..MaxVersie
  BY DEF DocInv, TypeOK
<1>4. run \in RunRow
  BY <1>0, <1>3 DEF RunRow, AddRun, UpdateRun
<1>5. IsTable(runs', Jobs, AddRun \cup UpdateRun)
  BY <1>1, <1>4, PutIsTable DEF DocInv, TypeOK, RunRow
<1>6. DOMAIN runs' = {j} /\ runs'[j] = run
  BY <1>1, <1>2 DEF Put
<1>7. TypeOK'
  BY <1>1, <1>5 DEF DocInv, TypeOK
<1>8. History' /\ RegisterInv' /\ DoneTrue'
  BY <1>1 DEF DocInv, History, RegisterInv, DoneTrue, Handled
<1>9. RunInv(run)'
  <2>1. Historic(document)
    BY <1>3 DEF DocInv, History, Historic, Documents
  <2>2. v <= document.versie
    <3>1. document.versie \in Nat /\ \A w \in due : w <= document.versie
      BY <1>3, ConstantsAssumption DEF DocInv, History, Documents
    <3> QED
      BY <3>1
  <2>3. run.seen = document /\ run.change = v /\ run.step = "locked"
    BY <1>0
  <2> QED
    BY <1>1, <2>1, <2>2, <2>3 DEF RunInv, Historic
<1>10. OwnsLock' /\ RunsInv'
  BY <1>1, <1>6, <1>9 DEF OwnsLock, RunsInv
<1>11. Counted'
  <2>1. \A y : ~Sent(y) /\ ~Sent(y)'
    BY <1>0, <1>2, <1>6 DEF Sent
  <2> QED
    BY <1>1, <2>1 DEF DocInv, Counted
<1> QED
  BY <1>7, <1>8, <1>10, <1>11 DEF DocInv

\* The lock that expires is not that of a run.
LEMMA LockExpiresKeeps ==
  ASSUME DocInv, LockExpires
  PROVE  DocInv'
<1>1. /\ lock \notin DOMAIN runs /\ lock' = Free
      /\ UNCHANGED <<document, since, due, listed, shown, added, runs, register, adds, faults>>
  BY DEF LockExpires, zgw, newest, corsa
<1>2. DOMAIN runs = {}
  BY <1>1 DEF DocInv, OwnsLock
<1>3. OwnsLock' /\ RunsInv'
  BY <1>1, <1>2 DEF OwnsLock, RunsInv
<1>4. TypeOK'
  BY <1>1 DEF DocInv, TypeOK
<1>5. History' /\ RegisterInv' /\ DoneTrue' /\ Counted'
  BY <1>1 DEF DocInv, History, RegisterInv, DoneTrue, Handled, Counted, Sent
<1> QED
  BY <1>3, <1>4, <1>5 DEF DocInv

\* What was read stays as old as it was, when content comes with a newer version.
LEMMA EditKeeps ==
  ASSUME DocInv, EditDocument
  PROVE  DocInv'
<1>1. PICK d \in Documents :
        /\ d.versie = document.versie + 1
        /\ document.content # "none" => d.content # "none"
        /\ document' = d
        /\ since' = IF since = 0 /\ d.content # "none" THEN d.versie ELSE since
  BY DEF EditDocument
<1>2. /\ due' = due \cup {document.versie + 1}
      /\ UNCHANGED <<listed, shown, added, runs, lock, register, adds, faults>>
  BY DEF EditDocument, corsa
<1>3. /\ document \in Documents /\ document.versie \in Nat /\ d.versie \in 1..MaxVersie /\ since \in Nat
      /\ due \subseteq 1..MaxVersie /\ shown \in [Zaken -> 0..MaxVersie] /\ register \in Entry \cup {NoEntry}
      /\ since <= document.versie /\ (since = 0 <=> document.content = "none")
  BY ConstantsAssumption DEF DocInv, TypeOK, History, Documents
<1>4. /\ since' \in Nat /\ since' <= d.versie /\ (since' = 0 <=> d.content = "none")
      /\ since # 0 => since' = since
      /\ since' = 0 \/ since' = since \/ (since = 0 /\ since' = document.versie + 1)
  BY <1>1, <1>3
<1>5. TypeOK'
  <2>1. document.versie + 1 \in 1..MaxVersie
    BY <1>1, <1>3
  <2>2. due' \subseteq 1..MaxVersie
    BY <1>2, <1>3, <2>1
  <2>3. MaxVersie \in Nat
    BY ConstantsAssumption
  <2>4. since' \in 0..MaxVersie
    BY <1>3, <1>4, <2>3
  <2> QED
    BY <1>1, <1>2, <2>2, <2>4 DEF DocInv, TypeOK
<1>6. \A z \in Zaken : shown[z] \in Nat /\ shown[z] <= document.versie /\ (shown[z] # 0 => since # 0 /\ since <= shown[z])
  BY <1>3, ConstantsAssumption DEF DocInv, History
<1>7. History'
  <2>1. \A v \in due' : v <= d.versie
    BY <1>1, <1>2, <1>3 DEF DocInv, History
  <2>2. \A z \in Zaken : shown[z] <= d.versie /\ (shown[z] # 0 => since' # 0 /\ since' <= shown[z])
    BY <1>1, <1>3, <1>4, <1>6
  <2> QED
    BY <1>1, <1>2, <1>4, <2>1, <2>2 DEF History
<1>8. RegisterInv'
  <2>1. ASSUME register # NoEntry
        PROVE  /\ register.versie \in Nat /\ register.versie <= document.versie
               /\ IF register.placeholder THEN since = 0 \/ register.versie < since
                  ELSE shown[register.zaak] >= register.versie
    BY <1>3, <2>1 DEF DocInv, RegisterInv, Entry
  <2> QED
    BY <1>1, <1>2, <1>3, <1>4, <2>1 DEF RegisterInv
<1>9. DoneTrue'
  <2>1. ASSUME NEW v \in 2..d.versie PROVE v \in due' \/ Handled(v)'
    <3>1. CASE v = document.versie + 1
      BY <1>2, <3>1
    <3>2. CASE v # document.versie + 1
      <4>1. v \in 2..document.versie
        BY <1>1, <1>3, <3>2
      <4>2. v \in due \/ Handled(v)
        BY <4>1 DEF DocInv, DoneTrue
      <4> QED
        BY <1>2, <1>3, <1>4, <4>1, <4>2 DEF Handled
    <3> QED
      BY <3>1, <3>2
  <2> QED
    BY <1>1, <2>1 DEF DoneTrue
<1>10. RunsInv'
  <2>1. ASSUME NEW j \in DOMAIN runs PROVE RunInv(runs[j])'
    <3>1. PICK run \in RunRow : run = runs[j] /\ RunInv(run)
      BY OneRun
    <3>2. run.seen \in Documents /\ run.change \in Nat
      BY <3>1, RunFields, ConstantsAssumption
    <3>3. Historic(run.seen)'
      <4>1. run.seen.versie \in Nat /\ Historic(run.seen)
        BY <3>1, <3>2 DEF RunInv, Documents
      <4> QED
        BY <1>1, <1>3, <1>4, <4>1 DEF Historic
    <3>4. run.change <= d.versie
      BY <1>1, <1>3, <3>1, <3>2 DEF RunInv
    <3>5. RunInv(run)'
      BY <1>1, <1>2, <3>1, <3>3, <3>4 DEF RunInv, Target
    <3> QED
      BY <1>2, <3>1, <3>5
  <2> QED
    BY <1>2, <2>1 DEF RunsInv
<1>11. OwnsLock' /\ Counted'
  BY <1>2 DEF DocInv, OwnsLock, Counted, Sent
<1> QED
  BY <1>5, <1>7, <1>8, <1>9, <1>10, <1>11 DEF DocInv

\* Completing an upload makes no version that was read newer.
LEMMA CompleteKeeps ==
  ASSUME DocInv, CompleteUpload
  PROVE  DocInv'
<1>1. /\ document.content = "parts" /\ document \in Documents
      /\ document' = [document EXCEPT !.content = "full"]
      /\ UNCHANGED <<since, due, listed, shown, added, runs, lock, register, adds, faults>>
  BY DEF CompleteUpload, corsa, DocInv, TypeOK
<1>2. document' \in Documents /\ document'.versie = document.versie /\ document'.content = "full"
  BY <1>1 DEF Documents
<1>3. TypeOK'
  BY <1>1, <1>2 DEF DocInv, TypeOK
<1>4. History' /\ RegisterInv' /\ DoneTrue'
  BY <1>1, <1>2 DEF DocInv, History, RegisterInv, DoneTrue, Handled
<1>5. RunsInv'
  BY <1>1, <1>2 DEF DocInv, RunsInv, RunInv, Historic, Target
<1>6. OwnsLock' /\ Counted'
  BY <1>1 DEF DocInv, OwnsLock, Counted, Sent
<1> QED
  BY <1>3, <1>4, <1>5, <1>6 DEF DocInv

-----------------------------------------------------------------------------
\* At first nothing runs and nothing is registered or shown.
LEMMA InitDocInv == Init => DocInv
<1> SUFFICES ASSUME Init PROVE DocInv
  OBVIOUS
<1>1. /\ document \in Documents /\ document.versie = 1
      /\ since = IF document.content = "none" THEN 0 ELSE 1
      /\ due = {} /\ runs = Empty /\ lock = Free /\ register = NoEntry /\ listed \subseteq Zaken
      /\ shown = [z \in Zaken |-> 0] /\ added = [z \in Zaken |-> 0] /\ adds = 0 /\ faults = 0
  BY DEF Init
<1>2. 1 \in 1..MaxVersie /\ MaxVersie \in Nat
  BY <1>1, ConstantsAssumption DEF Documents
<1>3. DOMAIN runs = {}
  BY <1>1 DEF Empty
<1>4. TypeOK
  BY <1>1, <1>2, EmptyIsTable DEF TypeOK
<1>5. OwnsLock /\ RunsInv /\ \A z : ~Sent(z)
  BY <1>3 DEF OwnsLock, RunsInv, Sent
<1>6. History /\ RegisterInv /\ DoneTrue
  BY <1>1 DEF History, RegisterInv, DoneTrue
<1>7. Counted
  BY <1>1, <1>5 DEF Counted
<1> QED
  BY <1>4, <1>5, <1>6, <1>7 DEF DocInv

\* The invariant is inductive.
LEMMA StepDocInv == DocInv /\ [Next]_vars => DocInv'
<1> SUFFICES ASSUME DocInv, [Next]_vars PROVE DocInv'
  OBVIOUS
<1>1. CASE EditDocument
  BY <1>1, EditKeeps
<1>2. CASE CompleteUpload
  BY <1>2, CompleteKeeps
<1>3. CASE LockExpires
  BY <1>3, LockExpiresKeeps
<1>4. ASSUME NEW j \in Jobs, NEW z \in Zaken, StartAdd(j, z) PROVE DocInv'
  <2>1. adds' \in Nat
    BY <1>4 DEF StartAdd, DocInv, TypeOK
  <2> QED
    BY <1>4, <2>1, StartKeeps DEF StartAdd
<1>5. ASSUME NEW j \in Jobs, NEW z \in Zaken, NEW v \in 1..MaxVersie, StartUpdate(j, z, v) PROVE DocInv'
  <2>1. adds' \in Nat
    BY <1>5 DEF StartUpdate, DocInv, TypeOK
  <2> QED
    BY <1>5, <2>1, StartKeeps DEF StartUpdate
<1>6. ASSUME NEW j \in Jobs, GiveUp(j) PROVE DocInv'
  BY <1>6, EndKeeps DEF GiveUp, NotProcessed
<1>7. ASSUME NEW j \in Jobs, Run(j) PROVE DocInv'
  BY <1>6, <1>7, CheckRegisterKeeps, FetchKeeps, CheckContentKeeps, CheckVersionKeeps, SendKeeps,
     SendFailsKeeps, RecordKeeps, CrashKeeps DEF Run
<1>8. CASE UNCHANGED vars
  BY <1>8 DEF vars, zgw, newest, corsa, DocInv, TypeOK, OwnsLock, History, RegisterInv, DoneTrue, Handled,
              RunsInv, RunInv, Historic, Target, Counted, Sent
<1> QED
  BY <1>1, <1>2, <1>3, <1>4, <1>5, <1>7, <1>8 DEF Next

\* The invariant holds in every state.
LEMMA DocInvHolds == Spec => []DocInv
BY InitDocInv, StepDocInv, PTL DEF Spec

-----------------------------------------------------------------------------
\* Whatever runs do, a document of the register and a run have a zaak and a version, and no
\* run is at a step that what it does has not.
THEOREM DocumentTypesHold == Spec => []TypeOK
<1>1. DocInv => TypeOK
  BY DEF DocInv
<1> QED
  BY <1>1, DocInvHolds, PTL

\* Corsa shows what document_syncs says, or something newer, in the zaak that it says.
THEOREM RegisterTrueHolds == Spec => []RegisterTrue
<1>1. DocInv => RegisterTrue
  BY DEF DocInv, RegisterInv, RegisterTrue
<1> QED
  BY <1>1, DocInvHolds, PTL

\* Only a worker that died or a call that timed out adds a document twice to its zaak.
THEOREM RegisteredOnceHolds == Spec => []RegisteredOnce
<1>1. ASSUME DocInv PROVE RegisteredOnce
  <2>1. ASSUME NEW z \in Zaken, register = NoEntry \/ register.zaak = z PROVE added[z] <= 1 + faults
    <3>1. added[z] \in Nat /\ faults \in Nat
      BY <1>1 DEF DocInv, TypeOK
    <3>2. register = NoEntry => added[z] <= faults + (IF Sent(z) THEN 1 ELSE 0)
      BY <1>1 DEF DocInv, Counted
    <3>3. register # NoEntry /\ register.zaak = z => added[z] <= 1 + faults
      BY <1>1 DEF DocInv, Counted
    <3> QED
      BY <2>1, <3>1, <3>2, <3>3
  <2> QED
    BY <2>1 DEF RegisteredOnce
<1> QED
  BY <1>1, DocInvHolds, PTL

\* When the notification of every change is processed, Corsa shows the newest version,
\* whichever of them sent it.
THEOREM NewestArrivesHolds == Spec => []NewestArrives
<1>1. ASSUME DocInv, register # NoEntry, document.content = "full", due = {}
      PROVE  shown[register.zaak] = document.versie
  <2>1. /\ document.versie \in Nat /\ document.versie >= 1 /\ since \in Nat
        /\ register.zaak \in Zaken /\ register.versie \in Nat /\ register.versie >= 1
        /\ shown[register.zaak] \in Nat
    BY <1>1, ConstantsAssumption DEF DocInv, TypeOK, Documents, Entry
  <2>2. since # 0 /\ since <= document.versie /\ shown[register.zaak] <= document.versie
    BY <1>1, <2>1 DEF DocInv, History
  <2>3. CASE document.versie = 1
    BY <1>1, <2>1, <2>2, <2>3 DEF DocInv, RegisterInv
  <2>4. CASE document.versie # 1
    <3>1. document.versie \in 2..document.versie
      BY <2>1, <2>4
    <3>2. Handled(document.versie)
      BY <1>1, <3>1 DEF DocInv, DoneTrue
    <3> QED
      BY <2>1, <2>2, <3>2 DEF Handled
  <2> QED
    BY <2>3, <2>4
<1>2. DocInv => NewestArrives
  BY <1>1 DEF NewestArrives
<1> QED
  BY <1>2, DocInvHolds, PTL

\* The steps at which something reaches Corsa.
LEMMA ShownChanges ==
  ASSUME DocInv, [Next]_vars
  PROVE  \/ shown' = shown
         \/ \E j \in DOMAIN runs : runs[j].step = "ready" /\ InCorsa(runs[j])
              /\ UNCHANGED <<document, since, due, register>>
BY DEF Next, Run, EditDocument, CompleteUpload, LockExpires, StartAdd, StartUpdate, Start, CheckRegister,
       Fetch, CheckContent, CheckVersion, Send, SendFails, GiveUp, NotProcessed, Record, Crash,
       corsa, zgw, newest, vars

\* No step makes Corsa show an older version, or a placeholder in place of a version.
THEOREM NeverOlderHolds == Spec => NeverOlder
<1>1. ASSUME DocInv, [Next]_vars PROVE \A z \in Zaken : shown'[z] >= shown[z]
  <2>1. shown \in [Zaken -> 0..MaxVersie]
    BY <1>1 DEF DocInv, TypeOK
  <2>2. CASE shown' = shown
    BY <2>1, <2>2, ConstantsAssumption
  <2>3. CASE \E j \in DOMAIN runs : runs[j].step = "ready" /\ InCorsa(runs[j])
    <3>1. \A z \in Zaken : shown[z] <= shown'[z]
      BY <1>1, <2>3, CorsaShows
    <3>2. shown' \in [Zaken -> 0..MaxVersie]
      BY <1>1, <2>3, CorsaShows
    <3> QED
      BY <2>1, <3>1, <3>2, ConstantsAssumption
  <2> QED
    BY <1>1, <2>2, <2>3, ShownChanges
<1> QED
  BY <1>1, DocInvHolds, PTL DEF Spec, NeverOlder

-----------------------------------------------------------------------------
(* The refinement. *)

Home == IF register = NoEntry THEN NoEntry ELSE register.zaak

\* The first state is a first state of the promise.
LEMMA InitPromise == Init => Promise!Init
BY DEF Init, Promise!Init

\* The home stays, when the register stays or gets its first row.
LEMMA HomeKept ==
  ASSUME UNCHANGED register
  PROVE  Promise!KeepsHome /\ Home' = Home
BY DEF Promise!KeepsHome, Home

\* A step that changes nothing the promise is about.
LEMMA Stutters ==
  ASSUME UNCHANGED <<document, since, due, shown, register>>
  PROVE  UNCHANGED Promise!vars
BY DEF Promise!vars

\* What reaches Corsa is a version that came with content, or changes nothing.
LEMMA ShowPromise ==
  ASSUME DocInv, NEW j \in DOMAIN runs, runs[j].step = "ready", InCorsa(runs[j]),
         UNCHANGED <<document, since, due, register>>
  PROVE  [Promise!Next]_(Promise!vars)
<1> DEFINE version == IF runs[j].seen.content = "full" THEN runs[j].seen.versie ELSE 0
<1>1. /\ Target(runs[j]) \in Zaken /\ version \in 0..document.versie
      /\ version # 0 => since # 0 /\ since <= version
      /\ shown' = [shown EXCEPT ![Target(runs[j])] = version]
      /\ shown' \in [Zaken -> 0..MaxVersie]
      /\ \A z \in Zaken : shown[z] <= shown'[z]
  BY CorsaShows
<1> HIDE DEF version
<1>2. shown \in [Zaken -> 0..MaxVersie] /\ since \in Nat /\ document.versie \in Nat /\ MaxVersie \in Nat
  BY ConstantsAssumption DEF DocInv, TypeOK, Documents
<1>3. CASE version = 0
  <2>1. shown[Target(runs[j])] = 0
    BY <1>1, <1>2, <1>3
  <2>2. shown' = shown
    BY <1>1, <1>2, <1>3, <2>1
  <2> QED
    BY <2>2, Stutters
<1>4. CASE version # 0
  <2>1. version \in since..document.versie /\ version >= shown[Target(runs[j])] /\ since # 0
    BY <1>1, <1>2, <1>4
  <2>2. UNCHANGED <<document.versie, since, due, IF register = NoEntry THEN NoEntry ELSE register.zaak>>
    OBVIOUS
  <2>3. Promise!Shows
    BY <1>1, <2>1, <2>2 DEF Promise!Shows
  <2> QED
    BY <2>2, <2>3, HomeKept DEF Promise!Next, Promise!Deliver
<1> QED
  BY <1>3, <1>4

\* A run that ends without its register row changes nothing, or the change it is about is done.
LEMMA EndPromise ==
  ASSUME DocInv, NEW j \in DOMAIN runs, UNCHANGED <<document, since, shown, register>>,
         due' = due \/ (due' = due \ {runs[j].change} /\ (runs[j].change = 0 \/ Handled(runs[j].change)))
  PROVE  [Promise!Next]_(Promise!vars)
<1>1. CASE due' = due
  BY <1>1, Stutters
<1>2. CASE due' = due \ {runs[j].change} /\ runs[j].change \notin due
  <2>1. due' = due
    BY <1>2
  <2> QED
    BY <2>1, Stutters
<1>3. CASE due' = due \ {runs[j].change} /\ runs[j].change \in due
  <2> DEFINE v == runs[j].change
  <2>1. v # 0
    BY <1>3 DEF DocInv, TypeOK
  <2>2. Handled(v)
    BY <1>3, <2>1
  <2>3. register \in Entry \cup {NoEntry}
    BY DEF DocInv, TypeOK
  <2>4. since = 0 \/ v < since \/ (Home' \in Zaken /\ shown[Home'] >= v)
    BY <2>2, <2>3 DEF Handled, Home, Entry
  <2>5. due' = due \ {v} /\ v \in due
    BY <1>3
  <2> HIDE DEF v
  <2>6. Promise!Ends
    BY <2>4, <2>5 DEF Promise!Ends, Promise!Arrived, Home
  <2> QED
    BY <2>6, HomeKept DEF Promise!Next, Promise!Deliver
<1> QED
  BY <1>1, <1>2, <1>3

\* The run that records what it sent gives the document its home, or finds it there.
LEMMA RecordPromise ==
  ASSUME DocInv, NEW j \in Jobs, Record(j)
  PROVE  [Promise!Next]_(Promise!vars)
<1> DEFINE v == runs[j].change
<1>1. /\ j \in DOMAIN runs /\ due' = due \ {v} /\ UNCHANGED <<document, since, shown>>
      /\ register' \in Entry /\ register' # NoEntry
      /\ register = NoEntry \/ register'.zaak = register.zaak
      /\ v = 0 \/ v <= shown[register'.zaak]
  BY Recorded DEF Processed
<1>2. Promise!KeepsHome /\ Home' \in Zaken /\ Home' = register'.zaak
  BY <1>1 DEF Promise!KeepsHome, Home, Entry
<1>3. CASE v \notin due
  <2>1. due' = due
    BY <1>1, <1>3
  <2> QED
    BY <1>1, <1>2, <2>1 DEF Promise!Next, Promise!Deliver
<1>4. CASE v \in due
  <2>1. v \in 1..MaxVersie /\ MaxVersie \in Nat /\ shown \in [Zaken -> 0..MaxVersie]
    BY <1>4, ConstantsAssumption DEF DocInv, TypeOK
  <2>2. v \in Nat /\ v # 0 /\ shown[Home'] \in Nat
    BY <1>2, <2>1
  <2>3. shown[Home'] >= v
    BY <1>1, <1>2, <2>2
  <2> HIDE DEF v
  <2>4. Promise!Ends
    BY <1>1, <1>2, <1>4, <2>3 DEF Promise!Ends, Promise!Arrived, Home
  <2> QED
    BY <1>1, <1>2, <2>4 DEF Promise!Next, Promise!Deliver
<1> QED
  BY <1>3, <1>4

\* A change of the document is one of the promise.
LEMMA EditPromise ==
  ASSUME DocInv, EditDocument
  PROVE  [Promise!Next]_(Promise!vars)
<1>1. PICK d \in Documents :
        /\ d.versie = document.versie + 1 /\ document' = d
        /\ since' = IF since = 0 /\ d.content # "none" THEN d.versie ELSE since
  BY DEF EditDocument
<1>2. due' = due \cup {document.versie + 1} /\ UNCHANGED <<shown, register>>
  BY DEF EditDocument, corsa
<1>3. Promise!Edit
  BY <1>1, <1>2 DEF Promise!Edit
<1> QED
  BY <1>3 DEF Promise!Next

\* Every step is one of the promise, or a stutter.
LEMMA StepPromise ==
  ASSUME DocInv, [Next]_vars
  PROVE  [Promise!Next]_(Promise!vars)
<1>1. CASE EditDocument
  BY <1>1, EditPromise
<1>2. CASE CompleteUpload
  <2>1. document' = [document EXCEPT !.content = "full"] /\ UNCHANGED <<since, due, shown, register>>
    BY <1>2 DEF CompleteUpload, corsa
  <2>2. document'.versie = document.versie
    BY <2>1 DEF DocInv, TypeOK, Documents
  <2> QED
    BY <2>1, <2>2 DEF Promise!vars
<1>3. CASE LockExpires \/ UNCHANGED vars
  BY <1>3, Stutters DEF LockExpires, vars, zgw, newest, corsa
<1>4. ASSUME NEW j \in Jobs, NEW op, NEW z, NEW v, Start(j, op, z, v) PROVE [Promise!Next]_(Promise!vars)
  BY <1>4, Stutters DEF Start, zgw, newest, corsa
<1>5. ASSUME NEW j \in Jobs, Run(j) PROVE [Promise!Next]_(Promise!vars)
  <2>1. CASE CheckRegister(j)
    <3>1. /\ j \in DOMAIN runs /\ runs[j].op = "add" /\ UNCHANGED <<document, since, shown, register>>
          /\ due' = due \/ due' = due \ {runs[j].change}
      BY <2>1 DEF CheckRegister, Running, Processed, newest, corsa
    <3>2. runs[j].change = 0
      BY <3>1, OneRun, RunFields
    <3> QED
      BY <3>1, <3>2, EndPromise
  <2>2. CASE CheckVersion(j)
    <3>1. /\ j \in DOMAIN runs /\ UNCHANGED <<document, since, shown, register>>
          /\ \/ due' = due \ {runs[j].change} /\ Handled(runs[j].change)
             \/ due' = due
      BY <2>2, CheckVersionOutcomes DEF Processed, NotProcessed, newest, corsa
    <3> QED
      BY <3>1, EndPromise
  <2>3. CASE Fetch(j) \/ CheckContent(j) \/ GiveUp(j) \/ Crash(j)
    BY <2>3, Stutters DEF Fetch, CheckContent, GiveUp, Crash, NotProcessed, zgw, newest, corsa
  <2>4. CASE Send(j) \/ SendFails(j)
    <3>1. /\ j \in DOMAIN runs /\ runs[j].step = "ready" /\ InCorsa(runs[j])
          /\ UNCHANGED <<document, since, due, register>>
      BY <2>4 DEF Send, SendFails, NotProcessed, zgw, newest
    <3> QED
      BY <3>1, ShowPromise
  <2>5. CASE Record(j)
    BY <2>5, RecordPromise
  <2> QED
    BY <1>5, <2>1, <2>2, <2>3, <2>4, <2>5 DEF Run
<1> QED
  BY <1>1, <1>2, <1>3, <1>4, <1>5 DEF Next, StartAdd, StartUpdate

\* Jobs, their lock, the register and what goes wrong are all within the promise.
THEOREM KeepsPromiseHolds == Spec => KeepsPromise
<1>1. DocInv /\ [Next]_vars => [Promise!Next]_(Promise!vars)
  BY StepPromise
<1> QED
  BY <1>1, InitPromise, DocInvHolds, PTL DEF Spec, KeepsPromise, Promise!Spec
=============================================================================
