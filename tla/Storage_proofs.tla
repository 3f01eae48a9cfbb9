----------------------------- MODULE Storage_proofs -----------------------------
(***************************************************************************)
(* Theorems about what is stored outside the database: the local storage   *)
(* of a Sync Module, the storage directories, and the folders of a cloud   *)
(* provider; for any number of items, files, directories and requests.     *)
(***************************************************************************)
EXTENDS SyncModuleStorage, StorageFolders, CloudFolders, FiniteSetTheorems, TLAPS

-----------------------------------------------------------------------------
(* Finite sets                                                             *)

\* The values of a function on a finite set are finitely many.
LEMMA FiniteRange ==
    ASSUME NEW S, IsFiniteSet(S), NEW g, DOMAIN g = S
    PROVE  IsFiniteSet({g[x] : x \in S})
<1> DEFINE T == {g[x] : x \in S}
           f == [x \in S |-> g[x]]
<1>1. f \in Surjection(S, T)
  BY DEF Surjection
<1> QED BY <1>1, FS_Surjection

\* A finite set lacks one of the first numbers, one more than it has members.
LEMMA OneIsLeft ==
    ASSUME NEW S, IsFiniteSet(S)
    PROVE  \E n \in 1..(Cardinality(S) + 1) : n \notin S
<1>1. Cardinality(S) \in Nat
  BY FS_CardinalityType
<1>2. Cardinality(1..(Cardinality(S) + 1)) = Cardinality(S) + 1
  BY <1>1, FS_Interval
<1>3. 1..(Cardinality(S) + 1) \in SUBSET S => Cardinality(S) + 1 <= Cardinality(S)
  BY <1>2, FS_Subset
<1> QED BY <1>1, <1>3

\* What a row id is taken by.
TakenIds(i) ==
    {rows[k].id : k \in DOMAIN rows \cap {i}} \cup {f[2] : f \in files}
      \cup {task[t].id : t \in ItemJobs}
      \cup {refresh[r].seen[i].id : r \in {q \in Refreshers : i \in DOMAIN refresh[q].seen}}

LEMMA UnusedIsNew ==
    ASSUME TypeOK, NEW i
    PROVE  /\ Unused(i) \in Nat \ {0}
           /\ \A f \in files : f[2] # Unused(i)
           /\ \A t \in ItemJobs : task[t].id # Unused(i)
<1> DEFINE A == {rows[k].id : k \in DOMAIN rows \cap {i}}
           B == {f[2] : f \in files}
           C == {task[t].id : t \in ItemJobs}
           R == {q \in Refreshers : i \in DOMAIN refresh[q].seen}
           D == {refresh[r].seen[i].id : r \in R}
<1>1. IsFiniteSet(A)
  <2>1. A \in SUBSET {rows[i].id}
    OBVIOUS
  <2> QED BY <2>1, FS_Singleton, FS_Subset
<1>2. IsFiniteSet(B)
  <2> DEFINE g == [f \in files |-> f[2]]
  <2>1. IsFiniteSet({g[f] : f \in files})
    BY FiniteRange DEF TypeOK
  <2> QED BY <2>1
<1>3. IsFiniteSet(C)
  <2> DEFINE g == [t \in ItemJobs |-> task[t].id]
  <2>1. IsFiniteSet({g[t] : t \in ItemJobs})
    BY FiniteRange, SyncModuleStorageAssumption
  <2> QED BY <2>1
<1>4. IsFiniteSet(D)
  <2> DEFINE g == [r \in R |-> refresh[r].seen[i].id]
  <2>1. IsFiniteSet(R)
    BY FS_Subset, SyncModuleStorageAssumption
  <2>2. IsFiniteSet({g[r] : r \in R})
    BY <2>1, FiniteRange
  <2> QED BY <2>2
<1>5. IsFiniteSet(A \cup B \cup C \cup D)
  BY <1>1, <1>2, <1>3, <1>4, FS_Union
<1>6. TakenIds(i) = A \cup B \cup C \cup D
  BY DEF TakenIds
<1> HIDE DEF A, B, C, D
<1>7. \E n \in 1..(Cardinality(TakenIds(i)) + 1) : n \notin TakenIds(i)
  BY <1>5, <1>6, OneIsLeft
<1>8. Unused(i) = CHOOSE n \in 1..(Cardinality(TakenIds(i)) + 1) : n \notin TakenIds(i)
  BY DEF Unused, TakenIds
<1>9. Unused(i) \in 1..(Cardinality(TakenIds(i)) + 1) /\ Unused(i) \notin TakenIds(i)
  BY <1>7, <1>8
<1>10. Cardinality(TakenIds(i)) \in Nat
  BY <1>5, <1>6, FS_CardinalityType
<1>11. B \subseteq TakenIds(i) /\ C \subseteq TakenIds(i)
  BY <1>6
<1> USE DEF B, C
<1> QED BY <1>9, <1>10, <1>11

-----------------------------------------------------------------------------
LEMMA TaskUpdate ==
    ASSUME TypeOK, NEW t \in ItemJobs, NEW j \in ItemJob, task' = [task EXCEPT ![t] = j]
    PROVE  /\ task' \in [ItemJobs -> ItemJob]
           /\ task'[t] = j
           /\ \A u \in ItemJobs \ {t} : task'[u] = task[u]
BY DEF TypeOK

LEMMA RefreshUpdate ==
    ASSUME TypeOK, NEW r \in Refreshers, NEW j, j \in RefreshJob({j.seen}), IsTable(j.seen, SeenRow),
           j.try <= Tried(j.pc),
           refresh' = [refresh EXCEPT ![r] = j]
    PROVE  /\ refresh' \in [Refreshers -> RefreshJob({refresh'[q].seen : q \in Refreshers})]
           /\ \A q \in Refreshers :
                /\ IsTable(refresh'[q].seen, SeenRow)
                /\ refresh'[q].try <= Tried(refresh'[q].pc)
<1>1. \A q \in Refreshers : refresh'[q] = IF q = r THEN j ELSE refresh[q]
  BY DEF TypeOK
<1>2. \A q \in Refreshers : refresh'[q] \in RefreshJob({refresh'[q].seen})
  BY <1>1 DEF TypeOK, RefreshJob
<1>3. refresh' = [q \in Refreshers |-> refresh'[q]]
  BY DEF TypeOK
<1> QED BY <1>1, <1>2, <1>3 DEF TypeOK, RefreshJob

\* Steps that leave rows, files and item jobs alone.
LEMMA RefreshMoves ==
    ASSUME ModuleInv, TypeOK', UNCHANGED <<rows, files, task>>, hazards \subseteq hazards'
    PROVE  ModuleInv'
BY DEF ModuleInv, CopiesExist, CopiesKeepTheirRows, NewIsClean, BusyHasDownload,
       DownloadsHaveRows, HasRow, Downloads, At

LEMMA NoJobs ==
    /\ NoRefresh \in RefreshJob({NoRefresh.seen}) /\ IsTable(NoRefresh.seen, SeenRow)
    /\ NoRefresh.try = 0 /\ NoRefresh.pc = "free"
    /\ NoTask \in ItemJob /\ NoTask.try = 0 /\ NoTask.pc = "free" /\ NoTask.error = FALSE
<1>1. (CHOOSE i \in Items : TRUE) \in Items
  BY SyncModuleStorageAssumption
<1> QED BY <1>1 DEF NoRefresh, RefreshJob, RefreshPCs, IsTable, NoRows, NoTask, ItemJob, TaskPCs, Kinds

LEMMA ReadTable ==
    ASSUME IsTable(rows, Row)
    PROVE  IsTable(Read, SeenRow)
<1>1. /\ DOMAIN Read = DOMAIN rows
      /\ \A i \in DOMAIN rows : Read[i] = [id |-> rows[i].id, present |-> rows[i].present,
                                           fetched |-> rows[i].status # "available"]
  BY DEF Read
<1>2. \A i \in DOMAIN rows : rows[i].id \in Nat \ {0} /\ rows[i].present \in BOOLEAN
  BY DEF IsTable, Row
<1>3. \A i \in DOMAIN rows : Read[i] \in SeenRow
  <2>1. ASSUME NEW a \in Nat \ {0}, NEW p \in BOOLEAN, NEW f \in BOOLEAN
        PROVE  [id |-> a, present |-> p, fetched |-> f] \in SeenRow
    BY <2>1 DEF SeenRow
  <2>2. \A i \in DOMAIN rows : (rows[i].status # "available") \in BOOLEAN
    OBVIOUS
  <2> QED BY <1>1, <1>2, <2>1, <2>2, Zenon
<1>4. Read = [i \in DOMAIN rows |-> Read[i]]
  BY DEF Read
<1> QED BY <1>1, <1>3, <1>4 DEF IsTable

\* The refresh steps that commit no rows.
LEMMA RefreshQuietStep ==
    ASSUME ModuleInv, NEW r \in Refreshers,
           \/ RequestRefresh(r) \/ Periodic(r) \/ StartRefresh(r) \/ PollManifest(r)
           \/ PollFails(r) \/ ReadItems(r) \/ RefreshConflicts(r) \/ RefreshCutOff(r)
    PROVE  ModuleInv'
<1>1. TypeOK /\ refresh[r] \in RefreshJob({refresh[r].seen}) /\ IsTable(refresh[r].seen, SeenRow)
  BY DEF ModuleInv, TypeOK, RefreshJob
<1>2. refresh[r].try \in Nat /\ refresh[r].try <= Tried(refresh[r].pc)
  BY <1>1 DEF RefreshJob, TypeOK
<1>3. /\ UNCHANGED <<rows, files, task, drive, changes>> /\ hazards \subseteq hazards'
      /\ hazards' \subseteq Hazards /\ status' \in ModuleStatuses
  BY <1>1 DEF RequestRefresh, Periodic, StartRefresh, PollManifest, PollFails, ReadItems,
     RefreshConflicts, RefreshCutOff, TypeOK, Hazards, ModuleStatuses
<1>4. ASSUME NEW j, j \in RefreshJob({j.seen}), IsTable(j.seen, SeenRow), j.try <= Tried(j.pc),
             refresh' = [refresh EXCEPT ![r] = j]
      PROVE  ModuleInv'
  <2>1. TypeOK'
    BY <1>1, <1>3, <1>4, RefreshUpdate DEF TypeOK
  <2> QED BY <1>3, <2>1, RefreshMoves
<1>5. CASE PollFails(r) \/ RefreshConflicts(r) \/ RefreshCutOff(r)
  BY <1>4, <1>5, NoJobs DEF PollFails, RefreshConflicts, RefreshCutOff, Tried
<1>6. CASE RequestRefresh(r) \/ Periodic(r)
  <2> DEFINE j == [refresh[r] EXCEPT !.pc = "queued"]
  <2>1. /\ j \in RefreshJob({j.seen}) /\ j.seen = refresh[r].seen /\ j.pc = "queued"
        /\ j.try = refresh[r].try
    BY <1>1 DEF RefreshJob, RefreshPCs
  <2>2. refresh' = [refresh EXCEPT ![r] = j] /\ refresh[r].pc = "free"
    BY <1>1, <1>6 DEF RequestRefresh, Periodic, TypeOK
  <2>3. j.try <= Tried(j.pc)
    BY <1>2, <2>1, <2>2 DEF Tried, MaxTries
  <2> HIDE DEF j
  <2> QED BY <1>1, <1>4, <2>1, <2>2, <2>3
<1>7. CASE StartRefresh(r)
  <2> DEFINE j == [refresh[r] EXCEPT !.pc = "polling", !.try = refresh[r].try + 1]
  <2>1. /\ j.seen = refresh[r].seen /\ j.pc = "polling" /\ j.try = refresh[r].try + 1
    BY <1>1 DEF RefreshJob
  <2>4. j \in RefreshJob({j.seen})
    <3>1. ASSUME NEW n \in Nat
          PROVE  [refresh[r] EXCEPT !.pc = "polling", !.try = n] \in RefreshJob({refresh[r].seen})
      BY <1>1 DEF RefreshJob, RefreshPCs
    <3>2. refresh[r].try + 1 \in Nat
      BY <1>2
    <3> QED BY <2>1, <3>1, <3>2
  <2>2. refresh' = [refresh EXCEPT ![r] = j] /\ refresh[r].pc = "queued"
    BY <1>1, <1>7 DEF StartRefresh, TypeOK
  <2>3. j.try <= Tried(j.pc)
    BY <1>2, <2>1, <2>2 DEF Tried, MaxTries
  <2> HIDE DEF j
  <2> QED BY <1>1, <1>4, <2>1, <2>2, <2>3, <2>4
<1>8. CASE PollManifest(r)
  <2> DEFINE j == [refresh[r] EXCEPT !.pc = "polled", !.manifest = drive]
  <2>1. /\ j \in RefreshJob({j.seen}) /\ j.seen = refresh[r].seen /\ j.pc = "polled"
        /\ j.try = refresh[r].try
    BY <1>1 DEF RefreshJob, RefreshPCs, TypeOK
  <2>2. refresh' = [refresh EXCEPT ![r] = j] /\ refresh[r].pc = "polling"
    BY <1>1, <1>8 DEF PollManifest, TypeOK
  <2>3. j.try <= Tried(j.pc)
    BY <1>2, <2>1, <2>2 DEF Tried, MaxTries
  <2> HIDE DEF j
  <2> QED BY <1>1, <1>4, <2>1, <2>2, <2>3
<1>9. CASE ReadItems(r)
  <2> DEFINE j == [refresh[r] EXCEPT !.pc = "reconciling", !.seen = Read]
  <2>1. /\ j \in RefreshJob({j.seen}) /\ j.seen = Read /\ j.pc = "reconciling"
        /\ j.try = refresh[r].try
    BY <1>1 DEF RefreshJob, RefreshPCs
  <2>2. refresh' = [refresh EXCEPT ![r] = j] /\ refresh[r].pc = "polled"
    BY <1>1, <1>9 DEF ReadItems, TypeOK
  <2>3. IsTable(Read, SeenRow)
    BY <1>1, ReadTable DEF TypeOK
  <2> HIDE DEF j
  <2> QED BY <1>2, <1>4, <2>1, <2>2, <2>3 DEF Tried, MaxTries
<1> QED BY <1>5, <1>6, <1>7, <1>8, <1>9

\* Job t goes on, or ends; the row it is busy with is not left behind, unless
\* that is on record.
LEMMA TaskMoves ==
    ASSUME ModuleInv, NEW t \in ItemJobs, NEW j \in ItemJob, task' = [task EXCEPT ![t] = j],
           j.try <= Tried(j.pc), j.pc \notin {"preparing", "downloading", "written"},
           j.error => j.pc \in {"deleting", "deleted"}, j.pc # "free" => j.id # 0,
           UNCHANGED <<changes, rows, files, status, refresh>>, drive' \subseteq Items,
           hazards' \in {hazards, hazards \cup {"cut_off"}},
           Downloads(t) => "cut_off" \in hazards' \/ ~HasRow(task[t].item, task[t].id)
    PROVE  ModuleInv'
<1>1. /\ task' \in [ItemJobs -> ItemJob]
      /\ task'[t] = j
      /\ \A u \in ItemJobs \ {t} : task'[u] = task[u]
  BY TaskUpdate DEF ModuleInv
<1>2. hazards \subseteq hazards' /\ hazards' \subseteq Hazards
  BY DEF ModuleInv, TypeOK, Hazards
<1>3. TypeOK'
  BY <1>1, <1>2 DEF ModuleInv, TypeOK
<1>4. CopiesExist' /\ CopiesKeepTheirRows'
  BY <1>2 DEF ModuleInv, CopiesExist, CopiesKeepTheirRows, HasRow
<1>5. \A u \in ItemJobs : /\ task'[u].pc = "written" => <<task'[u].item, task'[u].id>> \in files'
                          /\ task'[u].error => task'[u].pc \in {"deleting", "deleted"}
                          /\ task'[u].pc # "free" => task'[u].id # 0
  BY <1>1 DEF ModuleInv
<1>6. \A u \in ItemJobs : Downloads(u)' => u # t /\ Downloads(u)
  BY <1>1 DEF Downloads
<1>7. NewIsClean'
  BY <1>1, <1>6 DEF ModuleInv, NewIsClean, At
<1>8. BusyHasDownload'
  <2>1. SUFFICES ASSUME "cut_off" \notin hazards', NEW i \in DOMAIN rows,
                        rows[i].status \in {"preparing", "downloading"}
                 PROVE  \E u \in ItemJobs : Downloads(u)' /\ At(u, i, rows[i].id)'
    BY DEF BusyHasDownload
  <2>2. PICK u \in ItemJobs : Downloads(u) /\ At(u, i, rows[i].id)
    BY <1>2, <2>1 DEF ModuleInv, BusyHasDownload
  <2>3. u # t
    BY <2>1, <2>2 DEF At, HasRow
  <2>4. Downloads(u)' /\ At(u, i, rows[i].id)'
    BY <1>1, <2>2, <2>3 DEF Downloads, At
  <2> QED BY <2>4
<1>9. DownloadsHaveRows'
  BY <1>1, <1>2, <1>6 DEF ModuleInv, DownloadsHaveRows, HasRow
<1> QED BY <1>3, <1>4, <1>5, <1>7, <1>8, <1>9 DEF ModuleInv

\* What a job in a slot gives away of itself.
LEMMA TaskFacts ==
    ASSUME ModuleInv, NEW t \in ItemJobs
    PROVE  /\ TypeOK /\ task[t] \in ItemJob /\ task[t].try \in Nat
           /\ task[t].try <= Tried(task[t].pc)
           /\ task[t].error => task[t].pc \in {"deleting", "deleted"}
           /\ task[t].pc # "free" => task[t].id # 0
           /\ task[t].pc = "written" => <<task[t].item, task[t].id>> \in files
           /\ task \in [ItemJobs -> ItemJob]
           /\ hazards \subseteq Hazards /\ drive \subseteq Items
<1>1. task[t] \in ItemJob
  BY DEF ModuleInv, TypeOK
<1> QED BY <1>1 DEF ModuleInv, TypeOK, ItemJob

\* The steps that write to no row and no file.
LEMMA TaskQuietStep ==
    ASSUME ModuleInv, NEW t \in ItemJobs,
           \/ \E i \in Items, kind \in Kinds : Request(t, i, kind)
           \/ TaskSkipped(t) \/ StartDelete(t) \/ DeleteOnDrive(t) \/ TaskRowVanished(t)
           \/ WriteFails(t) \/ TaskCutOff(t)
    PROVE  ModuleInv'
<1>1. /\ TypeOK /\ task[t] \in ItemJob /\ task[t].try \in Nat
      /\ task[t].try <= Tried(task[t].pc)
      /\ task[t].error => task[t].pc \in {"deleting", "deleted"}
      /\ task[t].pc # "free" => task[t].id # 0
      /\ task \in [ItemJobs -> ItemJob]
      /\ drive \subseteq Items
  BY TaskFacts
<1>2. ASSUME NEW i \in Items, NEW kind \in Kinds, Request(t, i, kind) PROVE ModuleInv'
  <2> DEFINE j == [NoTask EXCEPT !.pc = "queued", !.kind = kind, !.item = i, !.id = rows[i].id]
  <2>1. i \in DOMAIN rows /\ rows[i].id \in Nat \ {0}
    BY <1>1, <1>2 DEF Request, TypeOK, IsTable, Row
  <2>2. /\ j \in ItemJob /\ j.pc = "queued" /\ j.id = rows[i].id /\ j.try = 0 /\ j.error = FALSE
    BY <2>1, NoJobs DEF ItemJob, TaskPCs
  <2>3. j.try <= Tried(j.pc)
    BY <2>2 DEF Tried, MaxTries
  <2>4. task' = [task EXCEPT ![t] = j] /\ ~Downloads(t)
    BY <1>2 DEF Request, Downloads
  <2> HIDE DEF j
  <2> QED BY <1>1, <1>2, <2>1, <2>2, <2>3, <2>4, TaskMoves DEF Request
<1>3. CASE TaskSkipped(t) \/ TaskRowVanished(t) \/ WriteFails(t) \/ TaskCutOff(t)
  <2>1. task' = [task EXCEPT ![t] = NoTask] /\ NoTask.try <= Tried(NoTask.pc)
    BY <1>3, NoJobs DEF TaskSkipped, TaskRowVanished, WriteFails, TaskCutOff, TaskEnds, Tried
  <2> QED BY <1>1, <1>3, <2>1, NoJobs, TaskMoves
          DEF TaskSkipped, TaskRowVanished, WriteFails, TaskCutOff, Downloads
<1>4. CASE StartDelete(t)
  <2> DEFINE e == rows[task[t].item].status = "error"
             j == [task[t] EXCEPT !.pc = "deleting", !.try = task[t].try + 1, !.error = e]
  <2>1. j.pc = "deleting" /\ j.id = task[t].id /\ j.try = task[t].try + 1 /\ task[t].pc = "queued"
    BY <1>1, <1>4 DEF ItemJob, StartDelete
  <2>2. j \in ItemJob
    <3>1. ASSUME NEW n \in Nat, NEW b \in BOOLEAN
          PROVE  [task[t] EXCEPT !.pc = "deleting", !.try = n, !.error = b] \in ItemJob
      BY <1>1 DEF ItemJob, TaskPCs
    <3>2. task[t].try + 1 \in Nat
      BY <1>1
    <3>3. e \in BOOLEAN
      OBVIOUS
    <3> HIDE DEF e
    <3> QED BY <3>1, <3>2, <3>3
  <2>3. j.try <= Tried(j.pc)
    BY <1>1, <2>1 DEF Tried, MaxTries
  <2>4. task' = [task EXCEPT ![t] = j] /\ ~Downloads(t)
    BY <1>1, <1>4 DEF StartDelete, Downloads
  <2> HIDE DEF j
  <2> QED BY <1>1, <1>4, <2>1, <2>2, <2>3, <2>4, TaskMoves DEF StartDelete
<1>5. CASE DeleteOnDrive(t)
  <2> DEFINE j == [task[t] EXCEPT !.pc = "deleted"]
  <2>1. /\ j.pc = "deleted" /\ j.id = task[t].id /\ j.try = task[t].try /\ j \in ItemJob
        /\ task[t].pc = "deleting"
    BY <1>1, <1>5 DEF ItemJob, TaskPCs, DeleteOnDrive
  <2>2. j.try <= Tried(j.pc)
    BY <1>1, <2>1 DEF Tried, MaxTries
  <2>3. task' = [task EXCEPT ![t] = j] /\ ~Downloads(t) /\ drive' \subseteq Items
    BY <1>1, <1>5 DEF DeleteOnDrive, Downloads
  <2> HIDE DEF j
  <2> QED BY <1>1, <1>5, <2>1, <2>2, <2>3, TaskMoves DEF DeleteOnDrive
<1> QED BY <1>2, <1>3, <1>4, <1>5

\* Job t writes the row w over its own, which is there: it goes on with the
\* download that w is busy with, or ends.
LEMMA RowWritten ==
    ASSUME ModuleInv, NEW t \in ItemJobs, NEW j \in ItemJob, task' = [task EXCEPT ![t] = j],
           HasRow(task[t].item, task[t].id), NEW w \in Row, w.id = task[t].id,
           rows' = [rows EXCEPT ![task[t].item] = w], w.status # "available",
           w.copy = TRUE => rows[task[t].item].copy = TRUE \/ <<task[t].item, task[t].id>> \in files,
           j.pc \in {"free", "preparing", "downloading"}, j.try <= Tried(j.pc), j.error = FALSE,
           w.status \in {"preparing", "downloading"} => j.pc # "free",
           j.pc # "free" => At(t, j.item, j.id) /\ j.id # 0,
           UNCHANGED <<drive, changes, files, status, refresh, hazards>>
    PROVE  ModuleInv'
<1> DEFINE c == task[t].item
<1>1. /\ task' \in [ItemJobs -> ItemJob]
      /\ task'[t] = j
      /\ \A u \in ItemJobs \ {t} : task'[u] = task[u]
  BY TaskUpdate DEF ModuleInv
<1>2. /\ DOMAIN rows' = DOMAIN rows /\ c \in DOMAIN rows
      /\ rows'[c] = w /\ \A i \in DOMAIN rows \ {c} : rows'[i] = rows[i]
      /\ \A i \in DOMAIN rows : rows'[i].id = rows[i].id
  BY DEF ModuleInv, TypeOK, IsTable, HasRow
<1>3. \A i, id : HasRow(i, id)' <=> HasRow(i, id)
  BY <1>2 DEF HasRow
<1>4. TypeOK'
  <2>1. IsTable(rows, Row)'
    BY <1>2 DEF ModuleInv, TypeOK, IsTable
  <2> QED BY <1>1, <2>1 DEF ModuleInv, TypeOK
<1>5. CopiesExist' /\ CopiesKeepTheirRows'
  BY <1>2, <1>3 DEF ModuleInv, CopiesExist, CopiesKeepTheirRows, HasRow
<1>6. \A u \in ItemJobs : /\ task'[u].pc = "written" => <<task'[u].item, task'[u].id>> \in files'
                          /\ task'[u].error => task'[u].pc \in {"deleting", "deleted"}
                          /\ task'[u].pc # "free" => task'[u].id # 0
  BY <1>1 DEF ModuleInv
<1>7. NewIsClean'
  <2>1. SUFFICES ASSUME NEW i \in DOMAIN rows, rows'[i].status = "available"
                 PROVE  /\ <<i, rows[i].id>> \notin files
                        /\ \A u \in ItemJobs : ~(Downloads(u)' /\ At(u, i, rows[i].id)')
    BY <1>2 DEF NewIsClean, At
  <2>2. i # c /\ rows[i].status = "available"
    BY <1>2, <2>1
  <2>3. /\ <<i, rows[i].id>> \notin files
        /\ \A u \in ItemJobs : ~(Downloads(u) /\ At(u, i, rows[i].id))
    BY <2>1, <2>2 DEF ModuleInv, NewIsClean
  <2>4. ASSUME NEW u \in ItemJobs, Downloads(u)', At(u, i, rows[i].id)' PROVE FALSE
    BY <1>1, <1>2, <2>1, <2>2, <2>3, <2>4 DEF Downloads, At
  <2> QED BY <2>3, <2>4
<1>8. BusyHasDownload'
  <2>1. SUFFICES ASSUME "cut_off" \notin hazards, NEW i \in DOMAIN rows,
                        rows'[i].status \in {"preparing", "downloading"}
                 PROVE  \E u \in ItemJobs : Downloads(u)' /\ At(u, i, rows[i].id)'
    BY <1>2 DEF BusyHasDownload, At
  <2>2. CASE i = c
    <3>1. Downloads(t)' /\ At(t, i, rows[i].id)'
      BY <1>1, <1>2, <2>1, <2>2 DEF Downloads, At, HasRow
    <3> QED BY <3>1
  <2>3. CASE i # c
    <3>1. PICK u \in ItemJobs : Downloads(u) /\ At(u, i, rows[i].id)
      BY <1>2, <2>1, <2>3 DEF ModuleInv, BusyHasDownload
    <3>2. u # t
      BY <2>3, <3>1 DEF At
    <3>3. Downloads(u)' /\ At(u, i, rows[i].id)'
      BY <1>1, <1>2, <2>1, <3>1, <3>2 DEF Downloads, At
    <3> QED BY <3>3
  <2> QED BY <2>2, <2>3
<1>9. DownloadsHaveRows'
  BY <1>1, <1>3 DEF ModuleInv, DownloadsHaveRows, Downloads, At
<1> QED BY <1>4, <1>5, <1>6, <1>7, <1>8, <1>9 DEF ModuleInv

\* A row's status is written, and that it has a copy.
LEMMA RowFields ==
    ASSUME TypeOK, NEW i \in DOMAIN rows, NEW st \in ItemStatuses
    PROVE  /\ rows[i] \in Row
           /\ LET w == [rows[i] EXCEPT !.status = st] IN
                w \in Row /\ w.id = rows[i].id /\ w.status = st /\ w.copy = rows[i].copy
           /\ LET w == [rows[i] EXCEPT !.status = st, !.copy = TRUE] IN
                w \in Row /\ w.id = rows[i].id /\ w.status = st
           /\ [rows EXCEPT ![i].status = st] = [rows EXCEPT ![i] = [rows[i] EXCEPT !.status = st]]
<1>1. rows[i] \in Row
  BY DEF TypeOK, IsTable
<1> QED BY <1>1 DEF Row

LEMMA RowStep ==
    ASSUME ModuleInv, NEW t \in ItemJobs,
           StartDownload(t) \/ Prepare(t) \/ CommitDownload(t) \/ TaskFails(t)
    PROVE  ModuleInv'
<1> DEFINE c == task[t].item
<1>1. /\ TypeOK /\ task[t] \in ItemJob /\ task[t].try \in Nat
      /\ task[t].try <= Tried(task[t].pc)
      /\ task[t].error => task[t].pc \in {"deleting", "deleted"}
      /\ task[t].pc # "free" => task[t].id # 0
      /\ task[t].pc = "written" => <<task[t].item, task[t].id>> \in files
      /\ task \in [ItemJobs -> ItemJob]
      /\ drive \subseteq Items
  BY TaskFacts
<1>2. HasRow(c, task[t].id)
  BY DEF StartDownload, Prepare, CommitDownload, TaskFails
<1>3. c \in DOMAIN rows /\ rows[c].id = task[t].id /\ rows[c] \in Row
  BY <1>1, <1>2, RowFields DEF HasRow, ItemStatuses
<1>4. CASE StartDownload(t)
  <2> DEFINE w == [rows[c] EXCEPT !.status = "preparing"]
             j == [task[t] EXCEPT !.pc = "preparing", !.try = task[t].try + 1]
  <2>1. w \in Row /\ w.id = task[t].id /\ w.status = "preparing" /\ w.copy = rows[c].copy
    BY <1>1, <1>3, RowFields DEF ItemStatuses
  <2>2. /\ j.pc = "preparing" /\ j.id = task[t].id /\ j.item = c /\ j.try = task[t].try + 1
        /\ j.error = task[t].error /\ task[t].pc = "queued"
    BY <1>1, <1>4 DEF ItemJob, StartDownload
  <2>3. j \in ItemJob
    <3>1. ASSUME NEW n \in Nat
          PROVE  [task[t] EXCEPT !.pc = "preparing", !.try = n] \in ItemJob
      BY <1>1 DEF ItemJob, TaskPCs
    <3>2. task[t].try + 1 \in Nat
      BY <1>1
    <3> QED BY <3>1, <3>2
  <2>4. j.try <= Tried(j.pc)
    BY <1>1, <2>2 DEF Tried, MaxTries
  <2>5. task' = [task EXCEPT ![t] = j] /\ rows' = [rows EXCEPT ![c] = w]
    BY <1>1, <1>3, <1>4 DEF StartDownload
  <2>6. j.error = FALSE
    BY <1>1, <2>2, <2>3 DEF ItemJob
  <2> HIDE DEF w, j
  <2> QED BY <1>1, <1>2, <1>4, <2>1, <2>2, <2>3, <2>4, <2>5, <2>6, RowWritten DEF StartDownload, At
<1>5. CASE Prepare(t)
  <2> DEFINE w == [rows[c] EXCEPT !.status = "downloading"]
             j == [task[t] EXCEPT !.pc = "downloading"]
  <2>1. w \in Row /\ w.id = task[t].id /\ w.status = "downloading" /\ w.copy = rows[c].copy
    BY <1>1, <1>3, RowFields DEF ItemStatuses
  <2>2. /\ j.pc = "downloading" /\ j.id = task[t].id /\ j.item = c /\ j.try = task[t].try
        /\ j.error = task[t].error /\ task[t].pc = "preparing" /\ j \in ItemJob
    BY <1>1, <1>5 DEF ItemJob, TaskPCs, Prepare
  <2>3. j.try <= Tried(j.pc) /\ j.error = FALSE
    BY <1>1, <2>2 DEF Tried, MaxTries, ItemJob
  <2>4. task' = [task EXCEPT ![t] = j] /\ rows' = [rows EXCEPT ![c] = w]
    BY <1>1, <1>3, <1>5 DEF Prepare
  <2> HIDE DEF w, j
  <2> QED BY <1>1, <1>2, <1>5, <2>1, <2>2, <2>3, <2>4, RowWritten DEF Prepare, At
<1>6. NoTask.try <= Tried(NoTask.pc)
  BY NoJobs DEF Tried
<1>7. CASE CommitDownload(t)
  <2> DEFINE w == [rows[c] EXCEPT !.status = "downloaded", !.copy = TRUE]
  <2>1. w \in Row /\ w.id = task[t].id /\ w.status = "downloaded"
    BY <1>1, <1>3, RowFields DEF ItemStatuses
  <2>2. task' = [task EXCEPT ![t] = NoTask] /\ rows' = [rows EXCEPT ![c] = w]
    BY <1>1, <1>3, <1>7 DEF CommitDownload, TaskEnds
  <2>3. <<task[t].item, task[t].id>> \in files
    BY <1>1, <1>7 DEF CommitDownload
  <2> HIDE DEF w
  <2> QED BY <1>2, <1>6, <1>7, <2>1, <2>2, <2>3, NoJobs, RowWritten DEF CommitDownload
<1>8. CASE TaskFails(t) /\ ~task[t].error
  <2> DEFINE w == [rows[c] EXCEPT !.status = "error"]
  <2>1. w \in Row /\ w.id = task[t].id /\ w.status = "error" /\ w.copy = rows[c].copy
    BY <1>1, <1>3, RowFields DEF ItemStatuses
  <2>2. task' = [task EXCEPT ![t] = NoTask] /\ rows' = [rows EXCEPT ![c] = w]
    BY <1>1, <1>3, <1>8 DEF TaskFails, TaskEnds
  <2> HIDE DEF w
  <2> QED BY <1>2, <1>6, <1>8, <2>1, <2>2, NoJobs, RowWritten DEF TaskFails
<1>9. CASE TaskFails(t) /\ task[t].error
  <2>1. task' = [task EXCEPT ![t] = NoTask] /\ ~Downloads(t)
    BY <1>1, <1>9 DEF TaskFails, TaskEnds, Downloads
  <2> QED BY <1>1, <1>6, <1>9, <2>1, NoJobs, TaskMoves DEF TaskFails
<1> QED BY <1>4, <1>5, <1>7, <1>8, <1>9

LEMMA WriteFileStep ==
    ASSUME ModuleInv, NEW t \in ItemJobs, WriteFile(t)
    PROVE  ModuleInv'
<1> DEFINE j == [task[t] EXCEPT !.pc = "written"]
           f == <<task[t].item, task[t].id>>
<1>1. /\ TypeOK /\ task[t] \in ItemJob /\ task[t].try \in Nat
      /\ task[t].try <= Tried(task[t].pc)
      /\ task[t].error => task[t].pc \in {"deleting", "deleted"}
      /\ task[t].pc # "free" => task[t].id # 0
      /\ task \in [ItemJobs -> ItemJob]
  BY TaskFacts
<1>2. /\ j.pc = "written" /\ j.id = task[t].id /\ j.item = task[t].item /\ j.try = task[t].try
      /\ j.error = task[t].error /\ task[t].pc = "downloading" /\ j \in ItemJob
      /\ files' = files \cup {f}
      /\ UNCHANGED <<drive, changes, rows, status, refresh, hazards>>
  BY <1>1 DEF ItemJob, TaskPCs, WriteFile
<1>3. task' = [task EXCEPT ![t] = j]
  BY <1>1 DEF WriteFile
<1> HIDE DEF j
<1>4. /\ task' \in [ItemJobs -> ItemJob]
      /\ task'[t] = j
      /\ \A u \in ItemJobs \ {t} : task'[u] = task[u]
  BY <1>1, <1>2, <1>3, TaskUpdate
<1>5. TypeOK'
  <2>1. IsFiniteSet(files')
    BY <1>1, <1>2, FS_AddElement DEF TypeOK
  <2>2. j.try <= Tried(j.pc)
    BY <1>1, <1>2 DEF Tried, MaxTries
  <2>3. f \in Items \X (Nat \ {0})
    BY <1>1, <1>2 DEF ItemJob
  <2> QED BY <1>1, <1>2, <1>4, <2>1, <2>2, <2>3 DEF TypeOK
<1>6. CopiesExist'
  BY <1>2 DEF ModuleInv, CopiesExist
<1>7. CopiesKeepTheirRows'
  BY <1>2 DEF ModuleInv, CopiesKeepTheirRows, DownloadsHaveRows, Downloads, HasRow
<1>8. \A u \in ItemJobs : /\ task'[u].pc = "written" => <<task'[u].item, task'[u].id>> \in files'
                          /\ task'[u].error => task'[u].pc \in {"deleting", "deleted"}
                          /\ task'[u].pc # "free" => task'[u].id # 0
  BY <1>1, <1>2, <1>4 DEF ModuleInv
<1>9. \A u \in ItemJobs : /\ Downloads(u)' <=> Downloads(u)
                          /\ task'[u].item = task[u].item /\ task'[u].id = task[u].id
  BY <1>2, <1>4 DEF Downloads
<1>10. NewIsClean'
  BY <1>2, <1>9 DEF ModuleInv, NewIsClean, Downloads, At
<1>11. BusyHasDownload' /\ DownloadsHaveRows'
  BY <1>2, <1>9 DEF ModuleInv, BusyHasDownload, DownloadsHaveRows, At, HasRow
<1> QED BY <1>5, <1>6, <1>7, <1>8, <1>10, <1>11 DEF ModuleInv

LEMMA CommitDeleteStep ==
    ASSUME ModuleInv, NEW t \in ItemJobs, CommitDelete(t)
    PROVE  ModuleInv'
<1> DEFINE c == task[t].item
<1>1. /\ TypeOK /\ task[t].pc = "deleted"
      /\ task' = [task EXCEPT ![t] = NoTask] /\ NoTask \in ItemJob /\ NoTask.pc = "free"
      /\ NoTask.try = 0 /\ NoTask.error = FALSE
      /\ hazards' = hazards \cup {"deleted"} /\ hazards' \subseteq Hazards
      /\ UNCHANGED <<drive, changes, files, status, refresh>>
  BY TaskFacts, NoJobs DEF CommitDelete, TaskEnds, Hazards
<1>2. /\ task' \in [ItemJobs -> ItemJob]
      /\ task'[t] = NoTask
      /\ \A u \in ItemJobs \ {t} : task'[u] = task[u]
  BY <1>1, TaskUpdate
<1>3. /\ DOMAIN rows' \subseteq DOMAIN rows
      /\ \A i \in DOMAIN rows' : rows'[i] = rows[i]
      /\ IsTable(rows, Row)'
  BY <1>1 DEF CommitDelete, TypeOK, IsTable
<1>4. TypeOK'
  BY <1>1, <1>2, <1>3 DEF TypeOK, Tried
<1>5. CopiesExist' /\ CopiesKeepTheirRows' /\ DownloadsHaveRows'
  BY <1>1, <1>3 DEF ModuleInv, CopiesExist, CopiesKeepTheirRows, DownloadsHaveRows
<1>6. \A u \in ItemJobs : /\ task'[u].pc = "written" => <<task'[u].item, task'[u].id>> \in files'
                          /\ task'[u].error => task'[u].pc \in {"deleting", "deleted"}
                          /\ task'[u].pc # "free" => task'[u].id # 0
  BY <1>1, <1>2 DEF ModuleInv
<1>7. \A u \in ItemJobs : /\ Downloads(u)' <=> Downloads(u)
                          /\ Downloads(u) => task'[u] = task[u]
  BY <1>1, <1>2 DEF Downloads
<1>8. NewIsClean'
  BY <1>1, <1>3, <1>7 DEF ModuleInv, NewIsClean, At
<1>9. BusyHasDownload'
  BY <1>1, <1>3, <1>7 DEF ModuleInv, BusyHasDownload, At
<1> QED BY <1>4, <1>5, <1>6, <1>8, <1>9 DEF ModuleInv

LEMMA CommitRefreshStep ==
    ASSUME ModuleInv, NEW r \in Refreshers, CommitRefresh(r)
    PROVE  ModuleInv'
<1> DEFINE s == refresh[r].seen
           dropped == {i \in Dropped(r) : HasRow(i, s[i].id)}
<1>1. /\ TypeOK /\ IsTable(rows, Row) /\ IsTable(s, SeenRow)
      /\ refresh[r].manifest \subseteq Items /\ Added(r) \subseteq Items
  BY DEF ModuleInv, TypeOK, RefreshJob, Added
<1>2. /\ rows' = [i \in (DOMAIN rows \ dropped) \cup Added(r) |->
                    IF i \in Added(r) THEN Fresh(i)
                    ELSE IF i \in Flipped(r) THEN [rows[i] EXCEPT !.present = i \in refresh[r].manifest]
                    ELSE rows[i]]
      /\ hazards' = (IF \E i \in dropped : ~s[i].fetched /\ rows[i].status # "available"
                     THEN hazards \cup {"raced"} ELSE hazards)
      /\ status' = "idle" /\ refresh' = [refresh EXCEPT ![r] = NoRefresh]
      /\ UNCHANGED <<drive, changes, files, task>>
      /\ Added(r) \cap DOMAIN rows = {}
  BY DEF CommitRefresh, Conflict
<1>3. /\ dropped \subseteq DOMAIN rows
      /\ \A i \in dropped : ~s[i].fetched
  BY DEF Dropped, HasRow
<1> HIDE DEF dropped
<1>4. \A i \in Added(r) :
        /\ rows'[i] = Fresh(i) /\ rows'[i] \in Row /\ rows'[i].id \in Nat \ {0}
        /\ rows'[i].status = "available" /\ rows'[i].copy = FALSE
        /\ <<i, rows'[i].id>> \notin files
        /\ \A t \in ItemJobs : task[t].id # rows'[i].id
  BY <1>1, <1>2, UnusedIsNew DEF Fresh, Row, ItemStatuses
<1>5. \A i \in DOMAIN rows \ dropped :
        /\ rows'[i] \in Row /\ rows'[i].id = rows[i].id
        /\ rows'[i].status = rows[i].status /\ rows'[i].copy = rows[i].copy
  <2> SUFFICES ASSUME NEW i \in DOMAIN rows \ dropped
               PROVE  /\ rows'[i] \in Row /\ rows'[i].id = rows[i].id
                      /\ rows'[i].status = rows[i].status /\ rows'[i].copy = rows[i].copy
    OBVIOUS
  <2>1. rows[i] \in Row
    BY <1>1 DEF IsTable
  <2>2. ASSUME NEW b \in BOOLEAN
        PROVE  LET w == [rows[i] EXCEPT !.present = b]
               IN  w \in Row /\ w.id = rows[i].id /\ w.status = rows[i].status
                     /\ w.copy = rows[i].copy
    BY <2>1 DEF Row
  <2>3. (i \in refresh[r].manifest) \in BOOLEAN
    OBVIOUS
  <2>4. \/ rows'[i] = rows[i]
        \/ rows'[i] = [rows[i] EXCEPT !.present = i \in refresh[r].manifest]
    BY <1>2
  <2> QED BY <2>1, <2>2, <2>3, <2>4
<1>6. DOMAIN rows' = (DOMAIN rows \ dropped) \cup Added(r)
  BY <1>2
<1>7. IsTable(rows, Row)'
  <2>1. rows' = [i \in DOMAIN rows' |-> rows'[i]]
    BY <1>2
  <2>2. \A i \in DOMAIN rows' : rows'[i] \in Row
    BY <1>4, <1>5, <1>6
  <2> QED BY <1>1, <1>6, <2>1, <2>2 DEF IsTable
<1>8. TypeOK'
  <2>1. hazards' \subseteq Hazards
    BY <1>1, <1>2 DEF TypeOK, Hazards
  <2>2. NoRefresh.try <= Tried(NoRefresh.pc)
    BY NoJobs DEF Tried
  <2> QED BY <1>1, <1>2, <1>7, <2>1, <2>2, NoJobs, RefreshUpdate DEF TypeOK, ModuleStatuses
<1>9. CopiesExist'
  BY <1>2, <1>4, <1>5, <1>6 DEF ModuleInv, CopiesExist
<1>10. hazards \subseteq hazards'
  BY <1>2
<1>11. ASSUME hazards' \cap {"deleted", "raced"} = {}, NEW i, NEW id, HasRow(i, id),
              \/ <<i, id>> \in files
              \/ \E t \in ItemJobs : Downloads(t) /\ At(t, i, id)
       PROVE  HasRow(i, id)'
  <2>1. i \in DOMAIN rows /\ rows[i].id = id /\ rows[i].status # "available"
    BY <1>11 DEF HasRow, ModuleInv, NewIsClean
  <2>2. i \notin dropped
    BY <1>2, <1>3, <1>11, <2>1
  <2> QED BY <1>5, <1>6, <2>1, <2>2 DEF HasRow
<1>12. CopiesKeepTheirRows'
  <2>1. SUFFICES ASSUME hazards' \cap {"deleted", "raced"} = {}, NEW f \in files
                 PROVE  HasRow(f[1], f[2])'
    BY <1>2 DEF CopiesKeepTheirRows
  <2>2. f = <<f[1], f[2]>> /\ HasRow(f[1], f[2])
    BY <1>1, <1>10, <2>1 DEF TypeOK, ModuleInv, CopiesKeepTheirRows
  <2> QED BY <1>11, <2>1, <2>2
<1>13. DownloadsHaveRows'
  <2>1. SUFFICES ASSUME hazards' \cap {"deleted", "raced"} = {}, NEW t \in ItemJobs, Downloads(t)
                 PROVE  HasRow(task[t].item, task[t].id)'
    BY <1>2 DEF DownloadsHaveRows, Downloads, HasRow
  <2>2. HasRow(task[t].item, task[t].id)
    BY <1>10, <2>1 DEF ModuleInv, DownloadsHaveRows
  <2> QED BY <1>2, <1>11, <2>1, <2>2 DEF At, HasRow
<1>14. NewIsClean'
  BY <1>2, <1>4, <1>5, <1>6 DEF ModuleInv, NewIsClean, Downloads, At
<1>15. BusyHasDownload'
  <2>1. ASSUME "cut_off" \notin hazards', NEW i \in DOMAIN rows',
               rows'[i].status \in {"preparing", "downloading"}
        PROVE  \E t \in ItemJobs : Downloads(t) /\ At(t, i, rows'[i].id)
    <3>1. i \in DOMAIN rows \ dropped
      BY <1>4, <1>6, <2>1
    <3> QED BY <1>5, <1>10, <2>1, <3>1 DEF ModuleInv, BusyHasDownload, At
  <2>2. task' = task
    BY <1>2
  <2> QED BY <2>1, <2>2 DEF BusyHasDownload, Downloads, At
<1> QED BY <1>2, <1>8, <1>9, <1>12, <1>13, <1>14, <1>15 DEF ModuleInv

LEMMA DriveStep ==
    ASSUME ModuleInv, NEW i \in Items, DriveChanges(i)
    PROVE  ModuleInv'
<1>1. changes \in Nat /\ changes + 1 \in 0..MaxChanges
  BY SyncModuleStorageAssumption DEF ModuleInv, TypeOK, DriveChanges
<1>2. TypeOK'
  BY <1>1 DEF ModuleInv, TypeOK, DriveChanges
<1> QED BY <1>2, RefreshMoves DEF DriveChanges

\* Jobs under way go back to the queue with their arguments, or end.
LEMMA CrashStep ==
    ASSUME ModuleInv, WorkerCrash
    PROVE  ModuleInv'
<1> DEFINE BareTask(t) == [NoTask EXCEPT !.kind = task[t].kind, !.item = task[t].item,
                                         !.id = task[t].id]
<1>1. /\ TypeOK /\ UNCHANGED <<drive, changes, rows, files, status>>
      /\ hazards' = hazards \cup {"cut_off"} /\ hazards' \subseteq Hazards
  BY DEF WorkerCrash, ModuleInv, TypeOK, Hazards
<1>2. ASSUME NEW t \in ItemJobs
      PROVE  /\ task'[t] \in ItemJob /\ task'[t].try <= Tried(task'[t].pc)
             /\ ~task'[t].error \/ task'[t] = task[t]
             /\ task'[t].pc # "free" => task'[t].id = task[t].id /\ task[t].pc # "free"
             /\ task'[t].pc \in {"free", "queued"}
  <2>1. /\ task[t] \in ItemJob /\ task[t].try \in Nat /\ task[t].try <= Tried(task[t].pc)
    BY TaskFacts
  <2>2. CASE task[t].pc \in {"free", "queued"}
    BY <2>1, <2>2 DEF WorkerCrash
  <2>3. CASE task[t].pc \notin {"free", "queued"}
    <3> DEFINE q == [BareTask(t) EXCEPT !.pc = "queued", !.try = task[t].try]
    <3>1. /\ BareTask(t) \in ItemJob /\ BareTask(t).pc = "free" /\ BareTask(t).try = 0
          /\ BareTask(t).error = FALSE
      BY <2>1, NoJobs DEF ItemJob
    <3>2. /\ q \in ItemJob /\ q.pc = "queued" /\ q.try = task[t].try /\ q.id = task[t].id
          /\ q.error = FALSE
      BY <2>1, NoJobs DEF ItemJob, TaskPCs
    <3>3. task'[t] = IF task[t].try < MaxTries THEN q ELSE BareTask(t)
      BY <2>3 DEF WorkerCrash, Again
    <3> HIDE DEF q, BareTask
    <3> QED BY <2>1, <2>3, <3>1, <3>2, <3>3 DEF Tried, MaxTries
  <2> QED BY <2>2, <2>3
<1>3. ASSUME NEW r \in Refreshers
      PROVE  /\ refresh'[r] \in RefreshJob({refresh'[r].seen})
             /\ IsTable(refresh'[r].seen, SeenRow)
             /\ refresh'[r].try <= Tried(refresh'[r].pc)
  <2>1. /\ refresh[r] \in RefreshJob({refresh[r].seen}) /\ IsTable(refresh[r].seen, SeenRow)
        /\ refresh[r].try \in Nat /\ refresh[r].try <= Tried(refresh[r].pc)
    BY <1>1 DEF TypeOK, RefreshJob
  <2>2. CASE refresh[r].pc \in {"free", "queued"}
    BY <2>1, <2>2 DEF WorkerCrash
  <2>3. CASE refresh[r].pc \notin {"free", "queued"}
    <3> DEFINE q == [NoRefresh EXCEPT !.pc = "queued", !.try = refresh[r].try]
    <3>1. /\ q.pc = "queued" /\ q.try = refresh[r].try /\ q.seen = NoRefresh.seen
          /\ q \in RefreshJob({NoRefresh.seen})
      BY <2>1, NoJobs DEF RefreshJob, RefreshPCs
    <3>2. refresh'[r] = IF refresh[r].try < MaxTries THEN q ELSE NoRefresh
      BY <2>3 DEF WorkerCrash, Again
    <3> HIDE DEF q
    <3> QED BY <2>1, <3>1, <3>2, NoJobs DEF Tried, MaxTries
  <2> QED BY <2>2, <2>3
<1>4. TypeOK'
  <2>1. task' \in [ItemJobs -> ItemJob]
    BY <1>2 DEF WorkerCrash
  <2>2. refresh' = [r \in Refreshers |-> refresh'[r]]
    BY DEF WorkerCrash
  <2>3. \A r \in Refreshers : refresh'[r] \in RefreshJob({refresh'[q].seen : q \in Refreshers})
    BY <1>3 DEF RefreshJob
  <2>4. refresh' \in [Refreshers -> RefreshJob({refresh'[q].seen : q \in Refreshers})]
    BY <2>2, <2>3
  <2> QED BY <1>1, <1>2, <1>3, <2>1, <2>4 DEF TypeOK
<1>5. CopiesExist' /\ CopiesKeepTheirRows'
  BY <1>1 DEF ModuleInv, CopiesExist, CopiesKeepTheirRows, HasRow
<1>6. \A t \in ItemJobs : /\ task'[t].pc = "written" => <<task'[t].item, task'[t].id>> \in files'
                          /\ task'[t].error => task'[t].pc \in {"deleting", "deleted"}
                          /\ task'[t].pc # "free" => task'[t].id # 0
  BY <1>2 DEF ModuleInv
<1>7. \A t \in ItemJobs : ~Downloads(t)'
  BY <1>2 DEF Downloads
<1>8. NewIsClean' /\ BusyHasDownload' /\ DownloadsHaveRows'
  BY <1>1, <1>7 DEF ModuleInv, NewIsClean, BusyHasDownload, DownloadsHaveRows
<1> QED BY <1>4, <1>5, <1>6, <1>8 DEF ModuleInv

LEMMA ModuleInit == Init => ModuleInv
<1> SUFFICES ASSUME Init PROVE ModuleInv
  OBVIOUS
<1>1. /\ DOMAIN rows = {} /\ IsTable(rows, Row)
  BY DEF Init, NoRows, IsTable
<1>2. \A t \in ItemJobs : task[t] = NoTask
  BY DEF Init
<1>3. TypeOK
  <2>1. \A r \in Refreshers : refresh[r] = NoRefresh
    BY DEF Init
  <2>2. \A r \in Refreshers : refresh[r] \in RefreshJob({refresh[q].seen : q \in Refreshers})
    BY <2>1, NoJobs DEF RefreshJob
  <2>3. refresh \in [Refreshers -> RefreshJob({refresh[q].seen : q \in Refreshers})]
    BY <2>2 DEF Init
  <2>4. task \in [ItemJobs -> ItemJob]
    BY NoJobs DEF Init
  <2>5. 0 \in 0..MaxChanges
    BY SyncModuleStorageAssumption
  <2> QED BY <1>1, <1>2, <2>1, <2>3, <2>4, <2>5, NoJobs, FS_EmptySet
          DEF Init, TypeOK, Tried, ModuleStatuses
<1> QED BY <1>1, <1>2, <1>3, NoJobs
        DEF ModuleInv, CopiesExist, CopiesKeepTheirRows, NewIsClean, BusyHasDownload,
            DownloadsHaveRows, Downloads, Init

LEMMA ModuleNext == ModuleInv /\ [Next]_vars => ModuleInv'
<1> SUFFICES ASSUME ModuleInv, [Next]_vars PROVE ModuleInv'
  OBVIOUS
<1>1. CASE UNCHANGED vars
  BY <1>1 DEF vars, ModuleInv, TypeOK, CopiesExist, CopiesKeepTheirRows, NewIsClean,
     BusyHasDownload, DownloadsHaveRows, Downloads, At, HasRow
<1>2. ASSUME NEW r \in Refreshers, RequestRefresh(r) \/ Periodic(r) \/ RefreshStep(r) \/ RefreshCutOff(r)
      PROVE  ModuleInv'
  BY <1>2, RefreshQuietStep, CommitRefreshStep DEF RefreshStep
<1>3. ASSUME NEW t \in ItemJobs, TaskStep(t) \/ TaskCutOff(t) PROVE ModuleInv'
  BY <1>3, TaskQuietStep, RowStep, WriteFileStep, CommitDeleteStep DEF TaskStep
<1>4. ASSUME NEW t \in ItemJobs, NEW i \in Items, NEW kind \in Kinds, Request(t, i, kind)
      PROVE  ModuleInv'
  BY <1>4, TaskQuietStep
<1>5. ASSUME NEW i \in Items, DriveChanges(i) PROVE ModuleInv'
  BY <1>5, DriveStep
<1> QED BY <1>1, <1>2, <1>3, <1>4, <1>5, CrashStep DEF Next

\* In every reachable state the rows, the files and the jobs under way agree.
THEOREM ModuleAgrees == Spec => []ModuleInv
BY ModuleInit, ModuleNext, PTL DEF Spec

\* What a row says is so: of its file, and of the job that is at it.
THEOREM RowsAreTrue == Spec => []Consistent
<1>1. ModuleInv => Consistent
  <2> SUFFICES ASSUME ModuleInv PROVE Consistent
    OBVIOUS
  <2>1. TypeOK /\ CopiesExist
    BY DEF ModuleInv
  <2>2. BusyRowsHaveJobs
    BY DEF ModuleInv, BusyHasDownload, BusyRowsHaveJobs, Downloads, At
  <2> QED BY <2>1, <2>2 DEF Consistent
<1> QED BY <1>1, ModuleAgrees, PTL

\* A refresh never takes the row from a downloaded file.
THEOREM FilesKeepTheirRows == Spec => []CopiesKeepTheirRows
<1>1. ModuleInv => CopiesKeepTheirRows
  BY DEF ModuleInv
<1> QED BY <1>1, ModuleAgrees, PTL

\* What an undisturbed refresh commits is what it has listed.
LEMMA CommitReconciles ==
    ASSUME TypeOK, NEW r \in Refreshers, CommitRefresh(r), refresh[r].seen = Read
    PROVE  /\ {i \in DOMAIN rows' : rows'[i].present} = refresh[r].manifest
           /\ \A i \in DOMAIN rows' \ refresh[r].manifest : rows'[i].status # "available"
<1> DEFINE m == refresh[r].manifest
<1>1. /\ IsTable(rows, Row) /\ DOMAIN Read = DOMAIN rows
      /\ \A i \in DOMAIN rows : /\ Read[i].id = rows[i].id /\ Read[i].present = rows[i].present
                                /\ Read[i].fetched <=> rows[i].status # "available"
  BY DEF TypeOK, Read
<1>2. /\ Added(r) = m \ DOMAIN rows
      /\ {i \in Dropped(r) : HasRow(i, refresh[r].seen[i].id)}
           = {i \in DOMAIN rows \ m : rows[i].status = "available"}
      /\ Dropped(r) = {i \in DOMAIN rows \ m : rows[i].status = "available"}
  BY <1>1 DEF Added, Dropped, Gone, HasRow
<1>3. \A i \in DOMAIN rows \ Dropped(r) :
         i \in Flipped(r) <=> rows[i].present # (i \in m)
  BY <1>1, <1>2 DEF Flipped
<1>4. rows' = [i \in (DOMAIN rows \ Dropped(r)) \cup Added(r) |->
                 IF i \in Added(r) THEN Fresh(i)
                 ELSE IF i \in Flipped(r) THEN [rows[i] EXCEPT !.present = i \in m]
                 ELSE rows[i]]
  BY <1>2 DEF CommitRefresh
<1>5. \A i \in Added(r) : i \in m /\ i \in DOMAIN rows' /\ rows'[i].present
  BY <1>2, <1>4 DEF Fresh
<1>6. ASSUME NEW i \in DOMAIN rows \ Dropped(r)
      PROVE  /\ i \in DOMAIN rows' /\ rows'[i].status = rows[i].status
             /\ rows'[i].present <=> i \in m
  <2>1. rows[i] \in Row /\ i \notin Added(r)
    BY <1>1, <1>2 DEF IsTable
  <2>2. CASE i \in Flipped(r)
    <3>1. rows'[i] = [rows[i] EXCEPT !.present = i \in m]
      BY <1>4, <2>1, <2>2
    <3> QED BY <1>4, <2>1, <3>1 DEF Row
  <2>3. CASE i \notin Flipped(r)
    BY <1>3, <1>4, <2>1, <2>3 DEF Row
  <2> QED BY <2>2, <2>3
<1>7. DOMAIN rows' = (DOMAIN rows \ Dropped(r)) \cup Added(r)
  BY <1>4
<1>8. m \subseteq (DOMAIN rows \ Dropped(r)) \cup Added(r)
  BY <1>2
<1> HIDE DEF m
<1>9. \A i \in DOMAIN rows' : rows'[i].present <=> i \in m
  BY <1>5, <1>6, <1>7
<1>10. {i \in DOMAIN rows' : rows'[i].present} = m
  BY <1>7, <1>8, <1>9
<1>11. \A i \in DOMAIN rows' \ m : rows'[i].status # "available"
  BY <1>2, <1>5, <1>6, <1>7
<1> QED BY <1>10, <1>11 DEF m

\* A refresh that nobody interferes with leaves the manifest marked as present,
\* and no row that is neither on the drive nor more than "available".
THEOREM RefreshesReconcile == Spec => RefreshReconciles
<1>1. ModuleInv => [\A r \in Refreshers :
         CommitRefresh(r) /\ refresh[r].seen = Read =>
           /\ {i \in DOMAIN rows' : rows'[i].present} = refresh[r].manifest
           /\ \A i \in DOMAIN rows' \ refresh[r].manifest : rows'[i].status # "available"]_vars
  BY CommitReconciles DEF ModuleInv
<1> QED BY <1>1, ModuleAgrees, PTL DEF RefreshReconciles

-----------------------------------------------------------------------------
(* The storage settings: where files are                                   *)

\* A directory is neither of the two words that stand for none.
LEMMA DirsAreNamed ==
    EnvDir \in StorageDirs /\ \A d \in StorageDirs : d # "none" /\ d # "env"
BY StorageAssumption DEF EnvDir

LEMMA ResolvedIsDir ==
    ASSUME StorageTypeOK
    PROVE  Resolved \in StorageDirs
BY DirsAreNamed DEF StorageTypeOK, Resolved

\* At the beginning no file has been loaded.
LEMMA StorageBegins == StorageInit => StorageIInv
<1> SUFFICES ASSUME StorageInit PROVE StorageIInv
  OBVIOUS
<1> USE DEF StorageInit
<1>1. StorageTypeOK
  BY DirsAreNamed DEF StorageTypeOK, NoEditor
<1>2. FilePlaces /\ FileTrails
  BY DEF FilePlaces, FileTrails, Held
<1>3. EditorFits /\ FormAlone /\ OneForm
  BY DEF EditorFits, FormAlone, OneForm, NoEditor
<1> QED BY <1>1, <1>2, <1>3 DEF StorageIInv

\* Requests that touch neither a file nor a commit of the form: what becomes
\* of their slot.
Moves(e) ==
    \/ \E pc \in {"create", "look", "delete"}, at, to \in StorageDirs : Edit(e, pc, at, to)
    \/ \E at \in StorageDirs \cup {"env"} : Edit(e, "choose", at, "none")
    \/ ChooseDir(e) \/ CreateDir(e) \/ LoadStorage(e) \/ LookRename(e) \/ RemoveDir(e) \/ ListParent(e)

EditorSlots ==
    [pc : {"off", "choose", "load", "dir", "quota", "create", "look", "rename", "delete", "list"},
     at : StorageDirs \cup {"none", "env"}, to : StorageDirs \cup {"none", "env"}]

\* Where a request goes on to when it neither moves files nor commits.
Continues(e, r) ==
    /\ r.pc \in {"off", "choose", "load", "dir", "create", "look", "rename", "delete", "list"}
    /\ r.at \in StorageDirs \cup {"none", "env"} /\ r.to \in StorageDirs \cup {"none", "env"}
    /\ r.pc \in {"create", "look", "rename", "delete"} => {r.at, r.to} \subseteq StorageDirs
    /\ r.pc \in {"choose", "load", "dir"} => r.at # "none"
    /\ r.pc = "rename" => r.at # r.to

LEMMA SlotContinues ==
    ASSUME StorageTypeOK, EditorFits, FormAlone, OneForm, NEW e \in Editors,
           NEW r \in EditorSlots,
           editor' = [editor EXCEPT ![e] = r], Continues(e, r),
           UNCHANGED storage, halved' = (halved \/ editor[e].pc = "quota")
    PROVE  EditorFits' /\ FormAlone' /\ OneForm'
<1>1. \A o \in Editors : editor'[o] = IF o = e THEN r ELSE editor[o]
  BY DEF StorageTypeOK, EditorSlots
<1>2. EditorFits'
  BY <1>1 DEF EditorFits, Continues
<1>3. FormAlone'
  <2> SUFFICES ASSUME ~halved', NEW d \in Editors, NEW o \in Editors, editor'[d].pc = "quota", editor'[o].pc = "quota"
               PROVE  d = o /\ storage = [dir |-> editor'[d].at, quota |-> editor'[d].to]
    BY DEF FormAlone
  <2>1. d # e /\ o # e /\ editor'[d] = editor[d] /\ editor'[o] = editor[o]
    BY <1>1 DEF Continues
  <2>2. ~halved
    OBVIOUS
  <2> QED BY <2>1, <2>2 DEF FormAlone
<1>4. OneForm'
  BY <1>1 DEF OneForm, Continues
<1> QED BY <1>2, <1>3, <1>4

\* Neither what a download does nor what a request does to a directory that is
\* not there or empty disturbs the files.
LEMMA DirsKeepFiles ==
    ASSUME StorageTypeOK, FilePlaces, FileTrails,
           UNCHANGED <<inside, path, writer, moved>>,
           \A d \in StorageDirs : d \in dirs /\ inside[d] # {} => d \in dirs'
    PROVE  FilePlaces' /\ FileTrails'
<1>1. \A f \in Files : Held(f)' <=> Held(f)
  BY DEF Held
<1>2. FilePlaces'
  BY <1>1 DEF FilePlaces
<1>3. FileTrails'
  BY DEF FileTrails
<1> QED BY <1>2, <1>3

LEMMA StorageMoves ==
    ASSUME StorageIInv, NEW e \in Editors, Moves(e)
    PROVE  StorageIInv'
<1> USE DEF StorageIInv
<1>1. PICK r : editor' = [editor EXCEPT ![e] = r] /\ Continues(e, r)
                 /\ r \in EditorSlots
  <2>1. CASE \E pc \in {"create", "look", "delete"}, at, to \in StorageDirs : Edit(e, pc, at, to)
    <3>1. PICK pc \in {"create", "look", "delete"}, at \in StorageDirs, to \in StorageDirs : Edit(e, pc, at, to)
      BY <2>1
    <3>2. PICK r : r = [pc |-> pc, at |-> at, to |-> to]
      OBVIOUS
    <3>3. editor' = [editor EXCEPT ![e] = r] /\ Continues(e, r)
      BY <3>1, <3>2 DEF Edit, Continues
    <3>4. r \in EditorSlots
      BY <3>2 DEF EditorSlots
    <3> QED BY <3>3, <3>4
  <2>2. CASE \E at \in StorageDirs \cup {"env"} : Edit(e, "choose", at, "none")
    <3>1. PICK at \in StorageDirs \cup {"env"} : Edit(e, "choose", at, "none")
      BY <2>2
    <3>2. PICK r : r = [pc |-> "choose", at |-> at, to |-> "none"]
      OBVIOUS
    <3>3. editor' = [editor EXCEPT ![e] = r] /\ Continues(e, r)
      BY <3>1, <3>2, DirsAreNamed DEF Edit, Continues
    <3>4. r \in EditorSlots
      BY <3>2 DEF EditorSlots
    <3> QED BY <3>3, <3>4
  <2>3. CASE ChooseDir(e) \/ CreateDir(e) \/ LookRename(e) \/ RemoveDir(e) \/ ListParent(e)
    <3>1. \/ editor' = [editor EXCEPT ![e] = NoEditor]
          \/ \E pc \in {"load", "list", "rename"} :
                /\ editor' = [editor EXCEPT ![e].pc = pc]
                /\ pc = "load" => editor[e].pc = "choose"
                /\ pc = "rename" => editor[e].pc = "look" /\ editor[e].at \in dirs /\ editor[e].to \notin dirs
      BY <2>3 DEF ChooseDir, CreateDir, LookRename, RemoveDir, ListParent, Turns, Answered
    <3>2. CASE editor' = [editor EXCEPT ![e] = NoEditor]
      <4>1. PICK r : r = NoEditor
        OBVIOUS
      <4>2. Continues(e, r) /\ r = [pc |-> "off", at |-> "none", to |-> "none"]
        BY <4>1 DEF NoEditor, Continues
      <4>3. r \in EditorSlots
        BY <4>2 DEF EditorSlots
      <4> QED BY <3>2, <4>1, <4>2, <4>3
    <3>3. CASE \E pc \in {"load", "list", "rename"} : editor' = [editor EXCEPT ![e].pc = pc]
            /\ (pc = "load" => editor[e].pc = "choose")
            /\ (pc = "rename" => editor[e].pc = "look" /\ editor[e].at \in dirs /\ editor[e].to \notin dirs)
      <4>1. PICK pc \in {"load", "list", "rename"} : editor' = [editor EXCEPT ![e].pc = pc]
              /\ (pc = "load" => editor[e].pc = "choose")
              /\ (pc = "rename" => editor[e].pc = "look" /\ editor[e].at \in dirs /\ editor[e].to \notin dirs)
        BY <3>3
      <4>2. PICK r : r = [editor[e] EXCEPT !.pc = pc]
        OBVIOUS
      <4>3. editor' = [editor EXCEPT ![e] = r]
        BY <4>1, <4>2
      <4>4. Continues(e, r)
        BY <4>1, <4>2 DEF Continues, StorageTypeOK, EditorFits, EditorSlots
      <4>5. r \in EditorSlots
        BY <4>2 DEF StorageTypeOK, EditorSlots
      <4> QED BY <4>3, <4>4, <4>5
    <3> QED BY <3>1, <3>2, <3>3
  <2>4. CASE LoadStorage(e)
    <3>1. PICK r : r = [editor[e] EXCEPT !.pc = "dir", !.to = storage.dir]
      OBVIOUS
    <3>2. editor' = [editor EXCEPT ![e] = r] /\ editor[e].pc = "load"
      BY <2>4, <3>1 DEF LoadStorage
    <3>3. r \in EditorSlots /\ r.pc = "dir" /\ r.at = editor[e].at
      BY <3>1 DEF StorageTypeOK, EditorSlots
    <3>4. Continues(e, r)
      BY <3>2, <3>3 DEF Continues, EditorFits, EditorSlots
    <3> QED BY <3>2, <3>3, <3>4
  <2> QED BY <2>1, <2>2, <2>3, <2>4 DEF Moves
<1>2. UNCHANGED <<inside, storage, path, writer, moved, halved>>
  BY DEF Moves, Edit, ChooseDir, CreateDir, LoadStorage, LookRename, RemoveDir, ListParent
<1>3. editor[e].pc # "quota"
  BY DEF Moves, Edit, ChooseDir, CreateDir, LoadStorage, LookRename, RemoveDir, ListParent
<1>4. dirs' \subseteq StorageDirs /\ \A d \in StorageDirs : d \in dirs /\ inside[d] # {} => d \in dirs'
  <2>1. CASE \/ \E pc \in {"create", "look", "delete"}, at, to \in StorageDirs : Edit(e, pc, at, to)
             \/ \E at \in StorageDirs \cup {"env"} : Edit(e, "choose", at, "none")
             \/ LoadStorage(e) \/ LookRename(e) \/ ListParent(e)
    BY <2>1 DEF Edit, LoadStorage, LookRename, ListParent, StorageTypeOK, EditorSlots
  <2>2. CASE ChooseDir(e) \/ CreateDir(e)
    BY <2>2 DEF ChooseDir, CreateDir, MakeWritable, StorageTypeOK, EditorFits, EditorSlots
  <2>3. CASE RemoveDir(e)
    BY <2>3 DEF RemoveDir, Empty, StorageTypeOK, EditorSlots
  <2> QED BY <2>1, <2>2, <2>3 DEF Moves
<1>5. FilePlaces' /\ FileTrails'
  BY <1>2, <1>4, DirsKeepFiles
<1>6. EditorFits' /\ FormAlone' /\ OneForm'
  BY <1>1, <1>2, <1>3, SlotContinues DEF StorageTypeOK, EditorSlots
<1>7. StorageTypeOK'
  BY <1>1, <1>2, <1>4 DEF StorageTypeOK, EditorSlots
<1> QED BY <1>5, <1>6, <1>7

\* A directory is renamed onto one that is empty: its files go with it, and are
\* the only ones whose paths are stale from then on.
LEMMA StorageRenames ==
    ASSUME StorageIInv, NEW e \in Editors, RenameDir(e)
    PROVE  StorageIInv'
<1> DEFINE old == editor[e].at
           new == editor[e].to
<1> USE DEF StorageIInv
<1>1. old \in StorageDirs /\ new \in StorageDirs /\ old # new /\ inside[new] = {} /\ old \in dirs
  BY DEF RenameDir, EditorFits, Empty
<1>2. /\ dirs' = (dirs \ {old}) \cup {new}
      /\ inside' = [inside EXCEPT ![old] = {}, ![new] = inside[old]]
      /\ moved' = moved \cup inside[old]
      /\ editor' = [editor EXCEPT ![e].pc = "list"]
      /\ UNCHANGED <<storage, path, writer, halved>>
      /\ editor[e].pc = "rename"
  BY DEF RenameDir, Turns
<1>3. \A d \in StorageDirs : inside'[d] = IF d = new THEN inside[old] ELSE IF d = old THEN {} ELSE inside[d]
  BY <1>1, <1>2 DEF StorageTypeOK, EditorSlots
<1>4. PICK r : r = [editor[e] EXCEPT !.pc = "list"]
  OBVIOUS
<1>5. EditorFits' /\ FormAlone' /\ OneForm'
  <2>1. r \in EditorSlots
    BY <1>4 DEF StorageTypeOK, EditorSlots
  <2>2. Continues(e, r)
    BY <1>4, <2>1 DEF StorageTypeOK, Continues, EditorSlots
  <2> HIDE DEF old, new
  <2> QED BY <1>2, <1>4, <2>1, <2>2, SlotContinues DEF StorageTypeOK, EditorSlots
<1> HIDE DEF old, new
<1>6. StorageTypeOK'
  BY <1>1, <1>2 DEF StorageTypeOK, EditorSlots
<1>7. \A f \in Files : Held(f)' <=> Held(f)
  <2> TAKE f \in Files
  <2>1. ASSUME Held(f) PROVE Held(f)'
    BY <2>1, <1>1, <1>3 DEF Held
  <2>2. ASSUME Held(f)' PROVE Held(f)
    BY <2>2, <1>1, <1>3 DEF Held
  <2> QED BY <2>1, <2>2
<1>8. FilePlaces'
  <2>1. \A d \in StorageDirs : inside'[d] # {} => d \in dirs'
    BY <1>1, <1>2, <1>3 DEF FilePlaces
  <2>2. \A d, f \in StorageDirs : inside'[d] \cap inside'[f] # {} => d = f
    BY <1>1, <1>3 DEF FilePlaces
  <2> QED BY <2>1, <2>2, <1>2, <1>7 DEF FilePlaces
<1>9. FileTrails'
  BY <1>1, <1>2, <1>3 DEF FileTrails
<1> QED BY <1>5, <1>6, <1>8, <1>9

\* The two commits of the form, and a request that is cut off.
LEMMA StorageForms ==
    ASSUME StorageIInv, NEW e \in Editors, SetDir(e) \/ SetQuota(e) \/ EditFails(e)
    PROVE  StorageIInv'
<1> USE DEF StorageIInv
<1>1. UNCHANGED <<dirs, inside, path, writer, moved>>
  BY DEF SetDir, SetQuota, EditFails
<1>2. FilePlaces' /\ FileTrails'
  BY <1>1, DirsKeepFiles
<1>3. CASE SetDir(e)
  <2>1. editor[e].pc = "dir" /\ editor[e].at \in StorageDirs \cup {"env"}
    BY <1>3 DEF SetDir, EditorFits, StorageTypeOK, EditorSlots
  <2>2. PICK r : r = [editor[e] EXCEPT !.pc = "quota", !.to = storage.quota]
    OBVIOUS
  <2>3. r = [pc |-> "quota", at |-> editor[e].at, to |-> storage.quota]
    BY <2>2 DEF StorageTypeOK, EditorSlots
  <2>4. editor' = [editor EXCEPT ![e] = r]
    BY <1>3, <2>2 DEF SetDir
  <2>5. \A o \in Editors : editor'[o] = IF o = e THEN r ELSE editor[o]
    BY <2>4 DEF StorageTypeOK, EditorSlots
  <2>6. /\ storage' \in [dir : StorageDirs \cup {"env"}, quota : StorageDirs \cup {"none", "env"}]
        /\ storage'.quota = storage.quota
    BY <1>3, <2>1 DEF SetDir, StorageTypeOK, EditorSlots
  <2>7. halved' = ((\E o \in Editors : editor[o].pc = "quota") \/ storage'.dir # editor[e].at)
    BY <1>3 DEF SetDir
  <2>8. StorageTypeOK'
    <3>1. editor' \in [Editors -> EditorSlots]
      BY <2>1, <2>3, <2>4 DEF StorageTypeOK, EditorSlots
    <3> QED BY <3>1, <1>1, <2>6, <2>7 DEF StorageTypeOK, EditorSlots
  <2>9. EditorFits'
    BY <2>1, <2>3, <2>5, DirsAreNamed DEF EditorFits
  <2>10. FormAlone'
    <3>1. storage'.dir = editor[e].at => storage' = [dir |-> editor[e].at, quota |-> storage.quota]
      BY <2>6
    <3> SUFFICES ASSUME ~halved', NEW d \in Editors, NEW o \in Editors,
                        editor'[d].pc = "quota", editor'[o].pc = "quota"
                 PROVE  d = o /\ storage' = [dir |-> editor'[d].at, quota |-> editor'[d].to]
      BY DEF FormAlone
    <3>2. d = e /\ o = e /\ storage'.dir = editor[e].at
      BY <2>5, <2>7
    <3> QED BY <2>3, <2>5, <3>1, <3>2
  <2>11. OneForm'
    BY <2>3, <2>5 DEF OneForm
  <2> QED BY <1>2, <2>8, <2>9, <2>10, <2>11
<1>4. CASE SetQuota(e)
  <2>1. editor' = [editor EXCEPT ![e] = NoEditor] /\ halved' = halved /\ editor[e].pc = "quota"
    BY <1>4 DEF SetQuota, Answered
  <2>2. \A o \in Editors : editor'[o] = IF o = e THEN NoEditor ELSE editor[o]
    BY <2>1 DEF StorageTypeOK, EditorSlots
  <2>3. editor[e].at \in StorageDirs \cup {"env"}
    BY <2>1 DEF EditorFits, StorageTypeOK, EditorSlots
  <2>4. storage' = IF editor[e].at = editor[e].to THEN storage
                   ELSE [dir |-> storage.dir, quota |-> editor[e].at]
    BY <1>4 DEF SetQuota, StorageTypeOK, EditorSlots
  <2>5. StorageTypeOK'
    <3>1. editor' \in [Editors -> EditorSlots]
      BY <2>1 DEF StorageTypeOK, NoEditor, EditorSlots
    <3>2. storage' \in [dir : StorageDirs \cup {"env"}, quota : StorageDirs \cup {"none", "env"}]
      BY <2>3, <2>4 DEF StorageTypeOK, EditorSlots
    <3> QED BY <3>1, <3>2, <1>1, <2>1 DEF StorageTypeOK, EditorSlots
  <2>6. EditorFits'
    BY <2>2 DEF EditorFits, NoEditor
  <2>7. FormAlone'
    BY <2>1, <2>2 DEF FormAlone, NoEditor
  <2>8. OneForm'
    <3> SUFFICES ASSUME ~halved PROVE storage'.dir = storage'.quota
      BY <2>1 DEF OneForm
    <3>1. storage = [dir |-> editor[e].at, quota |-> editor[e].to]
      BY <2>1 DEF FormAlone
    <3> QED BY <3>1, <2>4
  <2> QED BY <1>2, <2>5, <2>6, <2>7, <2>8
<1>5. CASE EditFails(e)
  <2>1. editor' = [editor EXCEPT ![e] = NoEditor] /\ UNCHANGED storage
          /\ halved' = (halved \/ editor[e].pc = "quota")
    BY <1>5 DEF EditFails, Answered
  <2>2. NoEditor \in EditorSlots /\ Continues(e, NoEditor)
    BY DEF NoEditor, Continues, EditorSlots
  <2>3. EditorFits' /\ FormAlone' /\ OneForm'
    BY <2>1, <2>2, SlotContinues
  <2>4. StorageTypeOK'
    BY <1>1, <2>1, <2>2 DEF StorageTypeOK, EditorSlots
  <2> QED BY <1>2, <2>3, <2>4
<1> QED BY <1>3, <1>4, <1>5

\* A download: the directory that it loads, the one that it writes into and the
\* one in the row are the same.
LEMMA StorageDownloads ==
    ASSUME StorageIInv, NEW f \in Files, LoadDir(f) \/ WriteClip(f) \/ CommitPath(f)
    PROVE  StorageIInv'
<1> USE DEF StorageIInv
<1>1. UNCHANGED <<storage, editor, moved, halved>>
  BY DEF LoadDir, WriteClip, CommitPath
<1>2. EditorFits' /\ FormAlone' /\ OneForm'
  BY <1>1 DEF EditorFits, FormAlone, OneForm
<1>3. CASE LoadDir(f)
  <2>1. writer' = [writer EXCEPT ![f] = Resolved] /\ path[f] = "none" /\ writer[f] = "none"
          /\ UNCHANGED <<dirs, inside, path>>
    BY <1>3 DEF LoadDir
  <2>2. Resolved \in StorageDirs
    BY ResolvedIsDir
  <2>3. \A g \in Files : writer'[g] = IF g = f THEN Resolved ELSE writer[g]
    BY <2>1 DEF StorageTypeOK, EditorSlots
  <2>4. StorageTypeOK'
    BY <1>1, <2>1, <2>2 DEF StorageTypeOK, EditorSlots
  <2>5. ~Held(f) /\ \A g \in Files : Held(g)' <=> Held(g)
    BY <2>1 DEF Held, FilePlaces
  <2>6. FilePlaces'
    BY <2>1, <2>3, <2>5 DEF FilePlaces
  <2>7. FileTrails'
    BY <1>1, <2>1, <2>3, <2>5 DEF FileTrails, Held
  <2> QED BY <1>2, <2>4, <2>6, <2>7
<1>4. CASE WriteClip(f)
  <2>1. writer[f] \in StorageDirs /\ ~Held(f) /\ UNCHANGED <<path, writer>>
    BY <1>4 DEF WriteClip, Held, StorageTypeOK, EditorSlots
  <2>2. dirs' = dirs \cup {writer[f]} /\ inside' = [inside EXCEPT ![writer[f]] = @ \cup {f}]
    BY <1>4 DEF WriteClip
  <2>3. \A d \in StorageDirs : inside'[d] = IF d = writer[f] THEN inside[d] \cup {f} ELSE inside[d]
    BY <2>1, <2>2 DEF StorageTypeOK, EditorSlots
  <2>4. StorageTypeOK'
    BY <1>1, <2>1, <2>2 DEF StorageTypeOK, EditorSlots
  <2>5. Held(f)' /\ \A g \in Files : g # f => (Held(g)' <=> Held(g))
    BY <2>1, <2>3 DEF Held
  <2>6. FilePlaces'
    <3>1. \A d \in StorageDirs : inside'[d] # {} => d \in dirs'
      BY <2>2, <2>3 DEF FilePlaces
    <3>2. \A d, e \in StorageDirs : inside'[d] \cap inside'[e] # {} => d = e
      <4> SUFFICES ASSUME NEW d \in StorageDirs, NEW e \in StorageDirs, NEW g, g \in inside'[d], g \in inside'[e]
                   PROVE  d = e
        OBVIOUS
      <4>1. CASE g = f
        BY <4>1, <2>1, <2>3 DEF Held
      <4>2. CASE g # f
        <5>1. g \in inside[d] \cap inside[e]
          BY <4>2, <2>3
        <5> QED BY <5>1 DEF FilePlaces
      <4> QED BY <4>1, <4>2
    <3>3. \A g \in Files : (Held(g)' => path'[g] # "none" \/ writer'[g] # "none")
                             /\ (path'[g] # "none" => Held(g)' /\ writer'[g] = "none")
      BY <2>1, <2>5, DirsAreNamed DEF FilePlaces
    <3> QED BY <3>1, <3>2, <3>3 DEF FilePlaces
  <2>7. FileTrails'
    <3> SUFFICES ASSUME NEW g \in Files \ moved, NEW d \in StorageDirs, g \in inside'[d]
                 PROVE  d \in {path[g], writer[g]}
      BY <1>1, <2>1 DEF FileTrails
    <3>1. CASE g = f
      BY <3>1, <2>1, <2>3 DEF Held
    <3>2. CASE g # f
      <4>1. g \in inside[d]
        BY <3>2, <2>3
      <4> QED BY <4>1 DEF FileTrails
    <3> QED BY <3>1, <3>2
  <2> QED BY <1>2, <2>4, <2>6, <2>7
<1>5. CASE CommitPath(f)
  <2>1. writer[f] \in StorageDirs /\ Held(f) /\ UNCHANGED <<dirs, inside>> /\ writer[f] # "none" /\ path[f] = "none"
    BY <1>5 DEF CommitPath, Held, StorageTypeOK, FilePlaces, EditorSlots
  <2>2. path' = [path EXCEPT ![f] = writer[f]] /\ writer' = [writer EXCEPT ![f] = "none"]
    BY <1>5 DEF CommitPath
  <2>3. \A g \in Files : /\ path'[g] = IF g = f THEN writer[f] ELSE path[g]
                         /\ writer'[g] = IF g = f THEN "none" ELSE writer[g]
    BY <2>2 DEF StorageTypeOK, EditorSlots
  <2>4. StorageTypeOK'
    BY <1>1, <2>1, <2>2 DEF StorageTypeOK, EditorSlots
  <2>5. \A g \in Files : Held(g)' <=> Held(g)
    BY <2>1 DEF Held
  <2>6. FilePlaces'
    BY <2>1, <2>3, <2>5 DEF FilePlaces
  <2>7. FileTrails'
    BY <1>1, <2>1, <2>3, DirsAreNamed DEF FileTrails
  <2> QED BY <1>2, <2>4, <2>6, <2>7
<1> QED BY <1>3, <1>4, <1>5

LEMMA StorageSteps == StorageIInv /\ [StorageNext]_storageVars => StorageIInv'
<1> SUFFICES ASSUME StorageIInv, [StorageNext]_storageVars PROVE StorageIInv'
  OBVIOUS
<1>1. CASE \E f \in Files : LoadDir(f) \/ WriteClip(f) \/ CommitPath(f)
  BY <1>1, StorageDownloads
<1>2. CASE \E e \in Editors : Moves(e)
  BY <1>2, StorageMoves
<1>3. CASE \E e \in Editors : RenameDir(e)
  BY <1>3, StorageRenames
<1>4. CASE \E e \in Editors : SetDir(e) \/ SetQuota(e) \/ EditFails(e)
  BY <1>4, StorageForms
<1>5. CASE UNCHANGED storageVars
  <2>1. UNCHANGED <<dirs, inside, storage, path, writer, editor, moved, halved>>
    BY <1>5 DEF storageVars
  <2>2. (\A f \in Files : Held(f)' <=> Held(f)) /\ StorageTypeOK'
    BY <2>1 DEF Held, StorageIInv, StorageTypeOK, EditorSlots
  <2>3. FilePlaces' /\ FileTrails'
    BY <2>1, <2>2 DEF StorageIInv, FilePlaces, FileTrails
  <2>4. EditorFits' /\ FormAlone' /\ OneForm'
    BY <2>1 DEF StorageIInv, EditorFits, FormAlone, OneForm
  <2> QED BY <2>2, <2>3, <2>4 DEF StorageIInv
<1> QED BY <1>1, <1>2, <1>3, <1>4, <1>5 DEF StorageNext, Moves

\* A file with a row is in exactly one directory, and one that was not moved is
\* in its row's.
LEMMA PlacesAreEnough == StorageIInv => StorageInv
<1> SUFFICES ASSUME StorageIInv PROVE StorageInv
  OBVIOUS
<1> USE DEF StorageIInv
<1>1. ASSUME NEW f \in Files, path[f] # "none"
      PROVE  Cardinality({d \in StorageDirs : f \in inside[d]}) = 1
  <2>1. PICK d \in StorageDirs : f \in inside[d]
    BY <1>1 DEF FilePlaces, Held
  <2>2. {e \in StorageDirs : f \in inside[e]} = {d}
    BY <2>1 DEF FilePlaces
  <2> QED BY <2>2, FS_Singleton
<1>2. FilesStay
  BY <1>1 DEF FilesStay, FilePlaces
<1>3. PathsResolve
  <2> SUFFICES ASSUME NEW f \in Files \ moved, path[f] # "none" PROVE f \in inside[path[f]]
    BY DEF PathsResolve
  <2>1. PICK d \in StorageDirs : f \in inside[d]
    BY DEF FilePlaces, Held
  <2>2. d \in {path[f], writer[f]} /\ writer[f] = "none" /\ d # "none"
    BY <2>1, DirsAreNamed DEF FileTrails, FilePlaces
  <2> QED BY <2>1, <2>2
<1> QED BY <1>2, <1>3 DEF StorageInv

\* What the storage settings and the browser of directories leave on the disk:
\* whatever requests and downloads come between each other's steps, no file is
\* lost, rows lead to their files unless a rename moved them, and directory and
\* quota come from one form (api/settings.py, integrations/service.py).
THEOREM DiskHolds == StorageSpec => []StorageInv
<1>1. StorageInit => StorageIInv
  BY StorageBegins
<1>2. StorageIInv /\ [StorageNext]_storageVars => StorageIInv'
  BY StorageSteps
<1>3. StorageIInv => StorageInv
  BY PlacesAreEnough
<1> QED BY <1>1, <1>2, <1>3, PTL DEF StorageSpec

-----------------------------------------------------------------------------
(* The folders of a cloud provider                                         *)

LEMMA FolderBegins == FolderInit => FolderIInv
<1> SUFFICES ASSUME FolderInit PROVE FolderIInv
  OBVIOUS
<1> USE DEF FolderInit, NoAsker
<1>1. FolderTypeOK /\ AskerFits
  BY DEF FolderTypeOK, AskerFits
<1>2. RecordingsStay /\ WantedAreMarked /\ TitlesDiffer
  BY DEF RecordingsStay, WantedAreMarked, TitlesDiffer
<1> QED BY <1>1, <1>2 DEF FolderIInv

AskerSlots ==
    [pc : {"off", "check", "mark", "unmark", "create", "list", "rename", "delete"},
     op : {"none", "create", "rename", "delete"}, at : Paths \cup {"none"}, to : Paths \cup {"none"}]

\* A slot that goes on to another step of its request, or ends it.
LEMMA AskerProceeds ==
    ASSUME FolderTypeOK, NEW a \in Askers,
           NEW pc \in {"off", "check", "mark", "unmark", "create", "list", "rename", "delete"}, Proceeds(a, pc)
    PROVE  /\ asker' \in [Askers -> AskerSlots]
           /\ asker'[a] = [pc |-> pc, op |-> asker[a].op, at |-> asker[a].at, to |-> asker[a].to]
           /\ \A b \in Askers \ {a} : asker'[b] = asker[b]
BY DEF FolderTypeOK, Proceeds, AskerSlots

LEMMA AskerIsOver ==
    ASSUME FolderTypeOK, NEW a \in Askers, Over(a)
    PROVE  /\ asker' \in [Askers -> AskerSlots]
           /\ asker'[a] = NoAsker /\ NoAsker.pc = "off"
           /\ \A b \in Askers \ {a} : asker'[b] = asker[b]
BY DEF FolderTypeOK, Over, NoAsker, AskerSlots

\* Recordings come and go under the jobs of the archive; folders do not.
LEMMA RecordingsMove ==
    ASSUME FolderIInv, NEW v \in Recordings,
           DropRecording(v) \/ \E p \in Paths : StoreRecording(v, p)
    PROVE  FolderIInv'
<1> USE DEF FolderIInv
<1>1. UNCHANGED <<cloud, marked, trash, title, asker, wanted, slips>>
  BY DEF DropRecording, StoreRecording
<1>2. AskerFits' /\ WantedAreMarked' /\ TitlesDiffer'
  BY <1>1 DEF AskerFits, WantedAreMarked, TitlesDiffer
<1>3. CASE DropRecording(v)
  <2>1. holds' = [p \in Paths |-> holds[p] \ {v}] /\ archived' = archived \ {v}
    BY <1>3 DEF DropRecording
  <2>2. FolderTypeOK'
    BY <1>1, <2>1 DEF FolderTypeOK
  <2>3. RecordingsStay'
    BY <2>1 DEF RecordingsStay
  <2> QED BY <1>2, <2>2, <2>3
<1>4. ASSUME NEW p \in Paths, StoreRecording(v, p) PROVE FolderIInv'
  <2>1. holds' = [holds EXCEPT ![p] = @ \cup {v}] /\ archived' = archived \cup {v}
    BY <1>4 DEF StoreRecording
  <2>2. \A q \in Paths : holds'[q] = IF q = p THEN holds[q] \cup {v} ELSE holds[q]
    BY <2>1 DEF FolderTypeOK
  <2>3. FolderTypeOK'
    BY <1>1, <2>1 DEF FolderTypeOK
  <2>4. RecordingsStay'
    <3>1. \A x : x \in archived' <=> \E q \in Paths : x \in holds'[q]
      BY <2>1, <2>2 DEF RecordingsStay
    <3> QED BY <3>1 DEF RecordingsStay
  <2> QED BY <1>2, <2>3, <2>4
<1> QED BY <1>3, <1>4

\* A request comes in: it is the only one, or it is remembered that two met.
LEMMA RequestsBegin ==
    ASSUME FolderIInv, NEW a \in Askers, NEW op \in {"create", "rename", "delete"},
           NEW at \in Paths, NEW to \in Paths, FolderRequest(a, op, at, to)
    PROVE  FolderIInv'
<1> USE DEF FolderIInv
<1>1. UNCHANGED <<cloud, marked, trash, title, holds, archived, wanted>>
  BY DEF FolderRequest
<1>2. PICK r : r = [pc |-> IF op = "create" \/ cloud # "s3" THEN op ELSE "check", op |-> op, at |-> at, to |-> to]
  OBVIOUS
<1>3. asker[a].pc = "off" /\ asker' = [asker EXCEPT ![a] = r]
  BY <1>2 DEF FolderRequest
<1>4. r \in AskerSlots
  BY <1>2 DEF AskerSlots
<1>5. asker' \in [Askers -> AskerSlots] /\ \A b \in Askers : asker'[b] = IF b = a THEN r ELSE asker[b]
  BY <1>3, <1>4 DEF FolderTypeOK, AskerSlots
<1>6. slips' = slips \cup (IF \E b \in Askers : asker[b].pc # "off" THEN {"overlap"} ELSE {})
                     \cup (IF op = "rename" /\ cloud = "s3" /\ to = at THEN {"itself"} ELSE {})
  BY DEF FolderRequest
<1>7. FolderTypeOK'
  BY <1>1, <1>5, <1>6 DEF FolderTypeOK, AskerSlots
<1>8. AskerFits'
  BY <1>1, <1>2, <1>5 DEF AskerFits
<1>9. RecordingsStay' /\ TitlesDiffer'
  BY <1>1 DEF RecordingsStay, TitlesDiffer
<1>10. WantedAreMarked'
  <2> SUFFICES ASSUME slips' = {} PROVE WantedAreMarked'
    BY DEF WantedAreMarked
  <2>1. /\ slips = {}
        /\ \A b \in Askers : asker[b].pc = "off"
        /\ ~(op = "rename" /\ cloud = "s3" /\ to = at)
    BY <1>6
  <2>2. \A b \in Askers : b # a => asker'[b].pc = "off"
    BY <1>5, <2>1
  <2>3. r.pc \notin {"list", "unmark"} /\ (r.pc \in {"check", "mark"} /\ r.op = "rename" => r.at # r.to)
    BY <1>2, <2>1
  <2> QED BY <1>1, <1>5, <2>1, <2>2, <2>3 DEF WantedAreMarked
<1> QED BY <1>7, <1>8, <1>9, <1>10

\* What a step on folders does not disturb: that the one who takes it was alone,
\* if no two have met.
LEMMA AloneStays ==
    ASSUME FolderIInv, NEW a \in Askers, slips = {}, asker[a].pc # "off",
           \A b \in Askers \ {a} : asker'[b] = asker[b]
    PROVE  /\ \A b \in Askers \ {a} : asker'[b].pc = "off"
           /\ \A b, c \in Askers : asker'[b].pc # "off" /\ asker'[c].pc # "off" => b = c
BY DEF FolderIInv, WantedAreMarked

\* Steps that change no folder: checks and failures.
LEMMA RequestsWait ==
    ASSUME FolderIInv, NEW a \in Askers, CheckEmpty(a) \/ AskFails(a)
    PROVE  FolderIInv'
<1> USE DEF FolderIInv
<1>1. UNCHANGED <<cloud, marked, trash, title, holds, archived, wanted, slips>> /\ asker[a].pc # "off"
  BY DEF CheckEmpty, AskFails
<1>2. RecordingsStay' /\ TitlesDiffer'
  BY <1>1 DEF RecordingsStay, TitlesDiffer
<1>3. CASE Over(a)
  <2>1. FolderTypeOK'
    BY <1>1, <1>3, AskerIsOver DEF FolderTypeOK, AskerSlots
  <2>2. AskerFits'
    BY <1>1, <1>3, AskerIsOver DEF AskerFits
  <2>3. WantedAreMarked'
    BY <1>1, <1>3, AskerIsOver, AloneStays DEF WantedAreMarked
  <2> QED BY <1>2, <2>1, <2>2, <2>3
<1>4. CASE ~Over(a)
  <2>1. PICK pc \in {"mark", "unmark"} :
          Proceeds(a, pc) /\ asker[a].pc = "check" /\ (pc = "unmark" => asker[a].op # "rename")
    BY <1>4 DEF CheckEmpty, AskFails
  <2>2. /\ asker' \in [Askers -> AskerSlots]
        /\ asker'[a] = [pc |-> pc, op |-> asker[a].op, at |-> asker[a].at, to |-> asker[a].to]
        /\ \A b \in Askers \ {a} : asker'[b] = asker[b]
    BY <2>1, AskerProceeds
  <2>3. FolderTypeOK'
    BY <1>1, <2>2 DEF FolderTypeOK, AskerSlots
  <2>4. AskerFits'
    BY <1>1, <2>1, <2>2 DEF AskerFits
  <2>5. WantedAreMarked'
    BY <1>1, <2>1, <2>2, AloneStays DEF WantedAreMarked
  <2> QED BY <1>2, <2>3, <2>4, <2>5
<1> QED BY <1>3, <1>4

\* S3: the markers.
LEMMA MarkersChange ==
    ASSUME FolderIInv, NEW a \in Askers, MarkNew(a) \/ Unmark(a) \/ CreateMarker(a)
    PROVE  FolderIInv'
<1> USE DEF FolderIInv
<1>1. /\ UNCHANGED <<cloud, trash, title, holds, archived, slips>>
      /\ asker[a].pc # "off" /\ cloud = "s3" /\ trash = {}
      /\ asker[a].at \in Paths /\ asker[a].to \in Paths
  BY DEF MarkNew, Unmark, CreateMarker, AskerFits
<1>2. RecordingsStay' /\ TitlesDiffer'
  BY <1>1 DEF RecordingsStay, TitlesDiffer
<1>3. CASE MarkNew(a) \/ CreateMarker(a)
  <2>1. PICK pc \in {"unmark", "list"}, p \in Paths :
          /\ Proceeds(a, pc) /\ marked' = marked \cup {p}
          /\ (pc = "list" => p = asker[a].at) /\ (pc = "unmark" => p = asker[a].to /\ asker[a].pc = "mark")
          /\ wanted' = wanted
    BY <1>1, <1>3 DEF MarkNew, CreateMarker
  <2>2. /\ asker' \in [Askers -> AskerSlots]
        /\ asker'[a] = [pc |-> pc, op |-> asker[a].op, at |-> asker[a].at, to |-> asker[a].to]
        /\ \A b \in Askers \ {a} : asker'[b] = asker[b]
    BY <2>1, AskerProceeds
  <2>3. FolderTypeOK'
    BY <1>1, <2>1, <2>2 DEF FolderTypeOK, AskerSlots
  <2>4. AskerFits'
    BY <1>1, <2>1, <2>2 DEF AskerFits
  <2>5. WantedAreMarked'
    BY <1>1, <2>1, <2>2, AloneStays DEF WantedAreMarked
  <2> QED BY <1>2, <2>3, <2>4, <2>5
<1>4. CASE Unmark(a)
  <2>1. /\ asker[a].pc = "unmark" /\ Over(a)
        /\ marked' = marked \ {asker[a].at}
        /\ wanted' = (wanted \ {asker[a].at}) \cup (IF asker[a].op = "rename" THEN {asker[a].to} ELSE {})
    BY <1>4 DEF Unmark
  <2>2. FolderTypeOK'
    BY <1>1, <2>1, AskerIsOver DEF FolderTypeOK, AskerSlots
  <2>3. AskerFits'
    BY <1>1, <2>1, AskerIsOver DEF AskerFits
  <2>4. WantedAreMarked'
    BY <1>1, <2>1, AskerIsOver, AloneStays DEF WantedAreMarked
  <2> QED BY <1>2, <2>2, <2>3, <2>4
<1> QED BY <1>3, <1>4

\* The drives: a new item, under a name that OneDrive has found free.
LEMMA ItemsAppear ==
    ASSUME FolderIInv, NEW a \in Askers, CreateFolder(a) \/ CreateChild(a)
    PROVE  FolderIInv'
<1> USE DEF FolderIInv
<1>1. PICK name \in Paths : NewItem(a, name) /\ cloud # "s3" /\ (cloud = "onedrive" => ~Taken(name))
  BY DEF CreateFolder, CreateChild, AskerFits, NewItem
<1> DEFINE at == asker[a].at
<1>2. /\ asker[a].pc = "create" /\ at \in Paths /\ at \notin marked \cup trash
      /\ marked' = marked \cup {at} /\ title' = [title EXCEPT ![at] = name]
      /\ Proceeds(a, "list")
      /\ UNCHANGED <<cloud, trash, holds, archived, wanted, slips>>
  BY <1>1 DEF NewItem, AskerFits
<1>3. /\ asker' \in [Askers -> AskerSlots]
      /\ asker'[a] = [pc |-> "list", op |-> asker[a].op, at |-> at, to |-> asker[a].to]
      /\ \A b \in Askers \ {a} : asker'[b] = asker[b]
  BY <1>2, AskerProceeds
<1>4. \A p \in Paths : title'[p] = IF p = at THEN name ELSE title[p]
  BY <1>2 DEF FolderTypeOK
<1>5. WantedAreMarked'
  BY <1>2, <1>3, AloneStays DEF WantedAreMarked
<1> HIDE DEF at
<1>6. FolderTypeOK'
  BY <1>2, <1>3 DEF FolderTypeOK, AskerSlots
<1>7. AskerFits'
  BY <1>1, <1>2, <1>3 DEF AskerFits, at
<1>8. RecordingsStay'
  BY <1>2 DEF RecordingsStay
<1>9. TitlesDiffer'
  <2> SUFFICES ASSUME cloud = "onedrive", NEW p \in marked', NEW q \in marked', title'[p] = title'[q]
               PROVE  p = q
    BY <1>2 DEF TitlesDiffer
  <2>1. \A t \in marked : title[t] # name /\ t \in Paths /\ t # at
    BY <1>1, <1>2 DEF Taken, FolderTypeOK
  <2> QED BY <1>2, <1>4, <2>1 DEF TitlesDiffer
<1> QED BY <1>5, <1>6, <1>7, <1>8, <1>9

\* The drives: an item has another name, one that OneDrive has found free.
LEMMA ItemsAreRenamed ==
    ASSUME FolderIInv, NEW a \in Askers, RenameItem(a) \/ PatchItem(a)
    PROVE  FolderIInv'
<1> USE DEF FolderIInv
<1> DEFINE at == asker[a].at
           name == asker[a].to
<1>1. /\ asker[a].pc = "rename" /\ at \in Paths /\ name \in Paths
      /\ title' = [title EXCEPT ![at] = name] /\ Over(a)
      /\ UNCHANGED <<cloud, marked, trash, holds, archived, wanted, slips>>
      /\ cloud = "onedrive" => ~\E p \in marked \ {at} : title[p] = name
  BY DEF RenameItem, PatchItem, Retitled, AskerFits
<1>2. \A p \in Paths : title'[p] = IF p = at THEN name ELSE title[p]
  BY <1>1 DEF FolderTypeOK
<1>3. WantedAreMarked'
  BY <1>1, AskerIsOver, AloneStays DEF WantedAreMarked
<1>4. FolderTypeOK'
  BY <1>1, AskerIsOver DEF FolderTypeOK, AskerSlots
<1>5. AskerFits'
  BY <1>1, AskerIsOver DEF AskerFits
<1>6. RecordingsStay'
  BY <1>1 DEF RecordingsStay
<1> HIDE DEF at, name
<1>7. TitlesDiffer'
  <2> SUFFICES ASSUME cloud = "onedrive", NEW p \in marked, NEW q \in marked, title'[p] = title'[q]
               PROVE  p = q
    BY <1>1 DEF TitlesDiffer
  <2>1. p \in Paths /\ q \in Paths
    BY DEF FolderTypeOK
  <2> QED BY <1>1, <1>2, <2>1 DEF TitlesDiffer
<1> QED BY <1>3, <1>4, <1>5, <1>6, <1>7

\* The drives: an item goes to the trash with what it holds; or it was listed.
LEMMA ItemsGo ==
    ASSUME FolderIInv, NEW a \in Askers, TrashItem(a) \/ DeleteItem(a) \/ ListCreated(a)
    PROVE  FolderIInv'
<1> USE DEF FolderIInv
<1>1. /\ UNCHANGED <<cloud, title, holds, archived, slips>> /\ Over(a)
      /\ asker[a].pc # "off" /\ asker[a].at \in Paths
  BY DEF TrashItem, DeleteItem, Trashed, ListCreated, AskerFits
<1>2. RecordingsStay'
  BY <1>1 DEF RecordingsStay
<1>3. CASE ListCreated(a)
  <2>1. asker[a].pc = "list" /\ wanted' = wanted \cup {asker[a].at} /\ UNCHANGED <<marked, trash>>
    BY <1>3 DEF ListCreated
  <2>2. FolderTypeOK'
    BY <1>1, <2>1, AskerIsOver DEF FolderTypeOK, AskerSlots
  <2>3. AskerFits'
    BY <1>1, <2>1, AskerIsOver DEF AskerFits
  <2>4. WantedAreMarked'
    BY <1>1, <2>1, AskerIsOver, AloneStays DEF WantedAreMarked
  <2>5. TitlesDiffer'
    BY <1>1, <2>1 DEF TitlesDiffer
  <2> QED BY <1>2, <2>2, <2>3, <2>4, <2>5
<1>4. CASE TrashItem(a) \/ DeleteItem(a)
  <2>1. /\ marked' = marked \ {asker[a].at} /\ trash' = trash \cup {asker[a].at}
        /\ wanted' = wanted \ {asker[a].at} /\ cloud # "s3"
    BY <1>4 DEF TrashItem, DeleteItem, Trashed
  <2>2. FolderTypeOK'
    BY <1>1, <2>1, AskerIsOver DEF FolderTypeOK, AskerSlots
  <2>3. AskerFits'
    BY <1>1, <2>1, AskerIsOver DEF AskerFits
  <2>4. WantedAreMarked'
    BY <1>1, <2>1, AskerIsOver, AloneStays DEF WantedAreMarked
  <2>5. TitlesDiffer'
    BY <1>1, <2>1 DEF TitlesDiffer
  <2> QED BY <1>2, <2>2, <2>3, <2>4, <2>5
<1> QED BY <1>3, <1>4

LEMMA FolderSteps == FolderIInv /\ [FolderNext]_folderVars => FolderIInv'
<1> SUFFICES ASSUME FolderIInv, [FolderNext]_folderVars PROVE FolderIInv'
  OBVIOUS
<1>1. CASE \E v \in Recordings : DropRecording(v) \/ \E p \in Paths : StoreRecording(v, p)
  BY <1>1, RecordingsMove
<1>2. CASE \E a \in Askers : \E op \in {"create", "rename", "delete"}, at, to \in Paths : FolderRequest(a, op, at, to)
  BY <1>2, RequestsBegin
<1>3. CASE \E a \in Askers : CheckEmpty(a) \/ AskFails(a)
  BY <1>3, RequestsWait
<1>4. CASE \E a \in Askers : MarkNew(a) \/ Unmark(a) \/ CreateMarker(a)
  BY <1>4, MarkersChange
<1>5. CASE \E a \in Askers : CreateFolder(a) \/ CreateChild(a)
  BY <1>5, ItemsAppear
<1>6. CASE \E a \in Askers : RenameItem(a) \/ PatchItem(a)
  BY <1>6, ItemsAreRenamed
<1>7. CASE \E a \in Askers : TrashItem(a) \/ DeleteItem(a) \/ ListCreated(a)
  BY <1>7, ItemsGo
<1>8. CASE UNCHANGED folderVars
  <2>1. UNCHANGED <<cloud, marked, trash, title, holds, archived, asker, wanted, slips>>
    BY <1>8 DEF folderVars
  <2>2. FolderTypeOK' /\ AskerFits' /\ RecordingsStay'
    BY <2>1 DEF FolderIInv, FolderTypeOK, AskerFits, RecordingsStay
  <2>3. WantedAreMarked' /\ TitlesDiffer'
    BY <2>1 DEF FolderIInv, WantedAreMarked, TitlesDiffer
  <2> QED BY <2>2, <2>3 DEF FolderIInv
<1> QED BY <1>1, <1>2, <1>3, <1>4, <1>5, <1>6, <1>7, <1>8 DEF FolderNext

\* What the folder browser leaves in the cloud, whichever of its requests fail
\* and whatever archive jobs do between them (integrations/cloud.py).
THEOREM FoldersHold == FolderSpec => []FolderInv
<1>1. FolderInit => FolderIInv
  BY FolderBegins
<1>2. FolderIInv /\ [FolderNext]_folderVars => FolderIInv'
  BY FolderSteps
<1>3. FolderIInv => FolderInv
  BY DEF FolderIInv, FolderInv, WantedAreMarked, WantedAreListed, Listed, AskerFits, FolderTypeOK
<1> QED BY <1>1, <1>2, <1>3, PTL DEF FolderSpec
===============================================================================
