-------------------------- MODULE SyncModuleStorage --------------------------
(***************************************************************************)
(* The local (USB) storage of one Sync Module: refresh jobs that list what *)
(* is on the drive and reconcile the item rows with it, and jobs that      *)
(* download one item or delete it from the drive.  Several jobs run at a   *)
(* time, in sessions that keep what they have read (expire_on_commit is    *)
(* off), so that a row may be gone when it is written to: the ORM raises   *)
(* StaleDataError then.  Only BlinkError is turned into a status; any      *)
(* other end of a job leaves the statuses as they were committed last.     *)
(***************************************************************************)
EXTENDS Naturals, FiniteSets

CONSTANTS
    Items,       \* what may be on the drive
    Refreshers,  \* slots for refresh jobs, requested or periodic
    ItemJobs,    \* slots for download and delete jobs
    MaxChanges   \* bound: how often the drive changes by itself

ASSUME SyncModuleStorageAssumption ==
    /\ MaxChanges \in Nat /\ Items # {}
    /\ IsFiniteSet(Refreshers) /\ IsFiniteSet(ItemJobs)

MaxTries == 2

ModuleStatuses == {"idle", "refreshing", "error"}
ItemStatuses == {"available", "preparing", "downloading", "downloaded", "error"}
Kinds == {"download", "delete"}
Hazards == {"cut_off", "raced", "deleted"}

VARIABLES
    drive,    \* the items on the drive
    changes,  \* how often it changed by itself
    rows,     \* the item rows: at most one per item
    files,    \* downloaded files, by row: <<item, row id>>
    status,   \* local_storage_status of the module
    refresh,  \* per refresh slot, the job in it
    task,     \* per item slot, the job in it
    hazards   \* history: the kinds of trouble there have been

vars == <<drive, changes, rows, files, status, refresh, task, hazards>>

Row == [id : Nat \ {0}, status : ItemStatuses, present : BOOLEAN, copy : BOOLEAN]
HasRow(i, id) == i \in DOMAIN rows /\ rows[i].id = id

NoRows == [i \in {} |-> 0]
NoRefresh == [pc |-> "free", try |-> 0, manifest |-> {}, seen |-> NoRows]
NoTask == [pc |-> "free", kind |-> "download", item |-> CHOOSE i \in Items : TRUE, id |-> 0,
           error |-> FALSE, try |-> 0]

\* What becomes of a job whose worker died.
Again(job, none) ==
    IF job.try < MaxTries THEN [none EXCEPT !.pc = "queued", !.try = job.try] ELSE none

-----------------------------------------------------------------------------
(* Refreshing                                                              *)

\* refresh_local_storage_route, for an administrator.
RequestRefresh(r) ==
    /\ refresh[r].pc = "free"
    /\ refresh' = [refresh EXCEPT ![r].pc = "queued"]
    /\ UNCHANGED <<drive, changes, rows, files, status, task, hazards>>

\* The periodic job skips a module that is being refreshed.
Periodic(r) ==
    /\ refresh[r].pc = "free" /\ status # "refreshing"
    /\ refresh' = [refresh EXCEPT ![r].pc = "queued"]
    /\ UNCHANGED <<drive, changes, rows, files, status, task, hazards>>

StartRefresh(r) ==
    /\ refresh[r].pc = "queued"
    /\ refresh' = [refresh EXCEPT ![r].pc = "polling", ![r].try = refresh[r].try + 1]
    /\ status' = "refreshing"
    /\ UNCHANGED <<drive, changes, rows, files, task, hazards>>

PollManifest(r) ==
    /\ refresh[r].pc = "polling"
    /\ refresh' = [refresh EXCEPT ![r].pc = "polled", ![r].manifest = drive]
    /\ UNCHANGED <<drive, changes, rows, files, status, task, hazards>>

\* BlinkError: the job ends with the module in error.
PollFails(r) ==
    /\ refresh[r].pc = "polling"
    /\ refresh' = [refresh EXCEPT ![r] = NoRefresh]
    /\ status' = "error"
    /\ UNCHANGED <<drive, changes, rows, files, task, hazards>>

Read == [i \in DOMAIN rows |-> [id |-> rows[i].id, present |-> rows[i].present,
                                fetched |-> rows[i].status # "available"]]

\* _reconcile_local_items reads the rows that exist.
ReadItems(r) ==
    /\ refresh[r].pc = "polled"
    /\ refresh' = [refresh EXCEPT ![r].pc = "reconciling", ![r].seen = Read]
    /\ UNCHANGED <<drive, changes, rows, files, status, task, hazards>>

Added(r) == refresh[r].manifest \ DOMAIN refresh[r].seen
Gone(r) == DOMAIN refresh[r].seen \ refresh[r].manifest

\* Mutant: the rows of all items that are gone are dropped.
DroppedAll(r) == Gone(r)

\* Gone from the drive and never downloaded, as far as was read.
Dropped(r) == {i \in Gone(r) : ~refresh[r].seen[i].fetched}

\* Mutant: an item that is gone stays marked as present.
FlippedUp(r) ==
    {i \in DOMAIN refresh[r].seen \ Dropped(r) :
       ~refresh[r].seen[i].present /\ i \in refresh[r].manifest}

\* The rows whose present_on_device changes: these are updated.
Flipped(r) ==
    {i \in DOMAIN refresh[r].seen \ Dropped(r) :
       refresh[r].seen[i].present # (i \in refresh[r].manifest)}

\* A row to be updated is gone, or a row to be inserted is there already.
Conflict(r) ==
    \/ \E i \in Flipped(r) : ~HasRow(i, refresh[r].seen[i].id)
    \/ Added(r) \cap DOMAIN rows # {}

\* A row id that nothing refers to any more is as good as a new one.
Unused(i) ==
    LET taken == {rows[k].id : k \in DOMAIN rows \cap {i}} \cup {f[2] : f \in files}
                   \cup {task[t].id : t \in ItemJobs}
                   \cup {refresh[r].seen[i].id : r \in {q \in Refreshers : i \in DOMAIN refresh[q].seen}}
    IN CHOOSE n \in 1..(Cardinality(taken) + 1) : n \notin taken

Fresh(i) == [id |-> Unused(i), status |-> "available", present |-> TRUE, copy |-> FALSE]

\* One flush and one commit; a dropped row may be another than the one read
\* was, by then: it goes by its id.
CommitRefresh(r) ==
    /\ refresh[r].pc = "reconciling" /\ ~Conflict(r)
    /\ LET dropped == {i \in Dropped(r) : HasRow(i, refresh[r].seen[i].id)} IN
       /\ rows' = [i \in (DOMAIN rows \ dropped) \cup Added(r) |->
                     IF i \in Added(r) THEN Fresh(i)
                     ELSE IF i \in Flipped(r) THEN [rows[i] EXCEPT !.present = i \in refresh[r].manifest]
                     ELSE rows[i]]
       /\ hazards' = IF \E i \in dropped : ~refresh[r].seen[i].fetched /\ rows[i].status # "available"
                     THEN hazards \cup {"raced"} ELSE hazards
    /\ status' = "idle"
    /\ refresh' = [refresh EXCEPT ![r] = NoRefresh]
    /\ UNCHANGED <<drive, changes, files, task>>

\* StaleDataError or IntegrityError: nothing is committed, the status stays.
RefreshConflicts(r) ==
    /\ refresh[r].pc = "reconciling" /\ Conflict(r)
    /\ refresh' = [refresh EXCEPT ![r] = NoRefresh]
    /\ UNCHANGED <<drive, changes, rows, files, status, task, hazards>>

-----------------------------------------------------------------------------
(* Downloading and deleting one item                                       *)

TaskEnds(t) == task' = [task EXCEPT ![t] = NoTask]

Request(t, i, kind) ==
    /\ task[t].pc = "free" /\ i \in DOMAIN rows
    /\ task' = [task EXCEPT ![t] = [NoTask EXCEPT !.pc = "queued", !.kind = kind, !.item = i,
                                                  !.id = rows[i].id]]
    /\ UNCHANGED <<drive, changes, rows, files, status, refresh, hazards>>

\* The row is gone: the job has nothing to do.
TaskSkipped(t) ==
    /\ task[t].pc = "queued" /\ ~HasRow(task[t].item, task[t].id)
    /\ TaskEnds(t)
    /\ UNCHANGED <<drive, changes, rows, files, status, refresh, hazards>>

\* A row can be requested only after a manifest was stored, so the check for
\* one (download_ and delete_local_storage_item) passes.
StartDownload(t) ==
    /\ task[t].pc = "queued" /\ task[t].kind = "download" /\ HasRow(task[t].item, task[t].id)
    /\ rows' = [rows EXCEPT ![task[t].item].status = "preparing"]
    /\ task' = [task EXCEPT ![t].pc = "preparing", ![t].try = task[t].try + 1]
    /\ UNCHANGED <<drive, changes, files, status, refresh, hazards>>

\* Writing to the row; if it is gone the job dies of StaleDataError.
Prepare(t) ==
    /\ task[t].pc = "preparing" /\ HasRow(task[t].item, task[t].id)
    /\ rows' = [rows EXCEPT ![task[t].item].status = "downloading"]
    /\ task' = [task EXCEPT ![t].pc = "downloading"]
    /\ UNCHANGED <<drive, changes, files, status, refresh, hazards>>

\* The download answers with all of the item, and its file is written.
WriteFile(t) ==
    /\ task[t].pc = "downloading"
    /\ files' = files \cup {<<task[t].item, task[t].id>>}
    /\ task' = [task EXCEPT ![t].pc = "written"]
    /\ UNCHANGED <<drive, changes, rows, status, refresh, hazards>>

\* Mutant: the row is completed before the file is written.
CommitDownloadEarly(t) ==
    /\ task[t].pc \in {"downloading", "written"} /\ HasRow(task[t].item, task[t].id)
    /\ rows' = [rows EXCEPT ![task[t].item].status = "downloaded", ![task[t].item].copy = TRUE]
    /\ task' = [task EXCEPT ![t] = IF task[t].pc = "written" THEN NoTask ELSE task[t]]
    /\ UNCHANGED <<drive, changes, files, status, refresh, hazards>>

CommitDownload(t) ==
    /\ task[t].pc = "written" /\ HasRow(task[t].item, task[t].id)
    /\ rows' = [rows EXCEPT ![task[t].item].status = "downloaded", ![task[t].item].copy = TRUE]
    /\ TaskEnds(t)
    /\ UNCHANGED <<drive, changes, files, status, refresh, hazards>>

StartDelete(t) ==
    /\ task[t].pc = "queued" /\ task[t].kind = "delete" /\ HasRow(task[t].item, task[t].id)
    /\ task' = [task EXCEPT ![t].pc = "deleting", ![t].try = task[t].try + 1,
                            ![t].error = rows[task[t].item].status = "error"]
    /\ UNCHANGED <<drive, changes, rows, files, status, refresh, hazards>>

DeleteOnDrive(t) ==
    /\ task[t].pc = "deleting"
    /\ drive' = drive \ {task[t].item}
    /\ task' = [task EXCEPT ![t].pc = "deleted"]
    /\ UNCHANGED <<changes, rows, files, status, refresh, hazards>>

\* The row goes; the file of a downloaded item is not touched.
CommitDelete(t) ==
    /\ task[t].pc = "deleted"
    /\ LET i == task[t].item IN
       /\ rows' = IF HasRow(i, task[t].id) THEN [k \in DOMAIN rows \ {i} |-> rows[k]] ELSE rows
       /\ hazards' = hazards \cup {"deleted"}
    /\ TaskEnds(t)
    /\ UNCHANGED <<drive, changes, files, status, refresh>>

\* Mutant: a failed download leaves the row as it is.
TaskFailsSilently(t) ==
    /\ task[t].pc \in {"preparing", "downloading", "deleting"}
    /\ HasRow(task[t].item, task[t].id)
    /\ TaskEnds(t)
    /\ UNCHANGED <<drive, changes, rows, files, status, refresh, hazards>>

\* BlinkError, a truncated download included: the row says so, unless the
\* session believes that it says so already.
TaskFails(t) ==
    /\ task[t].pc \in {"preparing", "downloading", "deleting"}
    /\ HasRow(task[t].item, task[t].id)
    /\ rows' = IF task[t].error THEN rows ELSE [rows EXCEPT ![task[t].item].status = "error"]
    /\ TaskEnds(t)
    /\ UNCHANGED <<drive, changes, files, status, refresh, hazards>>

\* StaleDataError: the row to be written to is gone.
TaskRowVanished(t) ==
    /\ task[t].pc \in {"preparing", "downloading", "deleting", "written"}
    /\ ~HasRow(task[t].item, task[t].id)
    /\ TaskEnds(t)
    /\ UNCHANGED <<drive, changes, rows, files, status, refresh, hazards>>

\* StorageError is no BlinkError: the row stays "downloading".
WriteFails(t) ==
    /\ task[t].pc = "downloading"
    /\ TaskEnds(t)
    /\ hazards' = hazards \cup {"cut_off"}
    /\ UNCHANGED <<drive, changes, rows, files, status, refresh>>

-----------------------------------------------------------------------------
(* The surroundings                                                        *)

\* The Sync Module records or evicts, or the drive is pulled and put back.
DriveChanges(i) ==
    /\ changes < MaxChanges
    /\ drive' = IF i \in drive THEN drive \ {i} ELSE drive \cup {i}
    /\ changes' = changes + 1
    /\ UNCHANGED <<rows, files, status, refresh, task, hazards>>

\* A timeout, or an error that is no BlinkError (an answer that is None): the
\* job is over.
RefreshCutOff(r) ==
    /\ refresh[r].pc \notin {"free", "queued"}
    /\ refresh' = [refresh EXCEPT ![r] = NoRefresh]
    /\ hazards' = hazards \cup {"cut_off"}
    /\ UNCHANGED <<drive, changes, rows, files, status, task>>

TaskCutOff(t) ==
    /\ task[t].pc \notin {"free", "queued"}
    /\ TaskEnds(t)
    /\ hazards' = hazards \cup {"cut_off"}
    /\ UNCHANGED <<drive, changes, rows, files, status, refresh>>

WorkerCrash ==
    /\ \/ \E r \in Refreshers : refresh[r].pc \notin {"free", "queued"}
       \/ \E t \in ItemJobs : task[t].pc \notin {"free", "queued"}
    /\ refresh' = [r \in Refreshers |->
         IF refresh[r].pc \in {"free", "queued"} THEN refresh[r] ELSE Again(refresh[r], NoRefresh)]
    /\ task' = [t \in ItemJobs |->
         IF task[t].pc \in {"free", "queued"} THEN task[t]
         ELSE Again(task[t], [NoTask EXCEPT !.kind = task[t].kind, !.item = task[t].item,
                                            !.id = task[t].id])]
    /\ hazards' = hazards \cup {"cut_off"}
    /\ UNCHANGED <<drive, changes, rows, files, status>>
-----------------------------------------------------------------------------
Init ==
    /\ drive \in SUBSET Items /\ changes = 0
    /\ rows = NoRows
    /\ files = {}
    /\ status = "idle"
    /\ refresh = [r \in Refreshers |-> NoRefresh]
    /\ task = [t \in ItemJobs |-> NoTask]
    /\ hazards = {}

RefreshStep(r) ==
    \/ StartRefresh(r) \/ PollManifest(r) \/ PollFails(r) \/ ReadItems(r)
    \/ CommitRefresh(r) \/ RefreshConflicts(r)

TaskStep(t) ==
    \/ TaskSkipped(t)
    \/ StartDownload(t) \/ Prepare(t) \/ WriteFile(t) \/ CommitDownload(t)
    \/ StartDelete(t) \/ DeleteOnDrive(t) \/ CommitDelete(t)
    \/ TaskFails(t) \/ TaskRowVanished(t) \/ WriteFails(t)

Next ==
    \/ \E r \in Refreshers : RequestRefresh(r) \/ Periodic(r) \/ RefreshStep(r) \/ RefreshCutOff(r)
    \/ \E t \in ItemJobs : TaskStep(t) \/ TaskCutOff(t)
    \/ \E t \in ItemJobs, i \in Items, kind \in Kinds : Request(t, i, kind)
    \/ \E i \in Items : DriveChanges(i)
    \/ WorkerCrash

Spec == Init /\ [][Next]_vars

\* The worker runs its jobs and the periodic one comes round; nobody has to
\* ask for anything, and anything may go wrong at any time.
FairSpec ==
    /\ Spec
    /\ \A r \in Refreshers : WF_vars(RefreshStep(r))
    /\ \A t \in ItemJobs : WF_vars(TaskStep(t))
    /\ WF_vars(\E r \in Refreshers : Periodic(r))

-----------------------------------------------------------------------------
(* Properties                                                              *)

RefreshPCs == {"free", "queued", "polling", "polled", "reconciling"}
TaskPCs == {"free", "queued", "preparing", "downloading", "written", "deleting", "deleted"}

SeenRow == [id : Nat \ {0}, present : BOOLEAN, fetched : BOOLEAN]

\* f gives some of the items a member of S each.
IsTable(f, S) == DOMAIN f \subseteq Items /\ f \in [DOMAIN f -> S]

\* How often a job in phase pc may have been tried.
Tried(pc) == IF pc = "free" THEN 0 ELSE IF pc = "queued" THEN MaxTries - 1 ELSE MaxTries

\* A refresh job that has read one of the tables in T.
RefreshJob(T) == [pc : RefreshPCs, try : Nat, manifest : SUBSET Items, seen : T]
ItemJob == [pc : TaskPCs, kind : Kinds, item : Items, id : Nat, error : BOOLEAN, try : Nat]

\* What refresh and item jobs leave in the tables, on disk and on the drive;
\* no job is tried more often than its max_tries.
TypeOK ==
    /\ drive \subseteq Items /\ changes \in 0..MaxChanges
    /\ IsTable(rows, Row)
    /\ files \subseteq Items \X (Nat \ {0}) /\ IsFiniteSet(files)
    /\ status \in ModuleStatuses
    /\ refresh \in [Refreshers -> RefreshJob({refresh[r].seen : r \in Refreshers})]
    /\ \A r \in Refreshers :
         /\ IsTable(refresh[r].seen, SeenRow)
         /\ refresh[r].try <= Tried(refresh[r].pc)
    /\ task \in [ItemJobs -> ItemJob]
    /\ \A t \in ItemJobs : task[t].try <= Tried(task[t].pc)
    /\ hazards \subseteq Hazards

\* A row that names a file has it (download_local_storage_item writes first).
CopiesExist == \A i \in DOMAIN rows : rows[i].copy => <<i, rows[i].id>> \in files

\* A downloaded file keeps its row through every refresh, unless an item is
\* deleted, or it is first downloaded between a refresh's read and its commit
\* (_reconcile_local_items drops "available" rows only).
CopiesKeepTheirRows ==
    hazards \cap {"deleted", "raced"} = {} => \A f \in files : HasRow(f[1], f[2])

\* A row is "preparing" or "downloading" only while a job is at it, unless a
\* job was cut off or could not write the file (BlinkError sets "error").
BusyRowsHaveJobs ==
    "cut_off" \notin hazards =>
      \A i \in DOMAIN rows : rows[i].status \in {"preparing", "downloading"} =>
         \E t \in ItemJobs : task[t].item = i /\ task[t].id = rows[i].id /\ task[t].pc # "free"

\* What a row says is so: of its file, and of the job that is at it.
Consistent == TypeOK /\ CopiesExist /\ BusyRowsHaveJobs

\* A refresh that nobody interferes with leaves exactly the manifest marked as
\* present, and no row that is neither on the drive nor more than "available".
RefreshReconciles ==
    [][\A r \in Refreshers :
         CommitRefresh(r) /\ refresh[r].seen = Read =>
           /\ {i \in DOMAIN rows' : rows'[i].present} = refresh[r].manifest
           /\ \A i \in DOMAIN rows' \ refresh[r].manifest : rows'[i].status # "available"]_vars

-----------------------------------------------------------------------------
(* The inductive invariant: which job has which row and file in its hands  *)

Downloads(t) == task[t].pc \in {"preparing", "downloading", "written"}
At(t, i, id) == task[t].item = i /\ task[t].id = id

\* Nothing has been written or is being written for a row that is "available".
NewIsClean == \A i \in DOMAIN rows : rows[i].status = "available" =>
    /\ <<i, rows[i].id>> \notin files
    /\ \A t \in ItemJobs : ~(Downloads(t) /\ At(t, i, rows[i].id))

\* Only the download that a row is busy with leaves it busy.
BusyHasDownload ==
    "cut_off" \notin hazards =>
      \A i \in DOMAIN rows : rows[i].status \in {"preparing", "downloading"} =>
         \E t \in ItemJobs : Downloads(t) /\ At(t, i, rows[i].id)

DownloadsHaveRows ==
    hazards \cap {"deleted", "raced"} = {} =>
      \A t \in ItemJobs : Downloads(t) => HasRow(task[t].item, task[t].id)

\* Rows, files and jobs under way agree with one another.
ModuleInv ==
    /\ TypeOK /\ CopiesExist /\ CopiesKeepTheirRows
    /\ \A t \in ItemJobs : /\ task[t].pc = "written" => <<task[t].item, task[t].id>> \in files
                           /\ task[t].error => task[t].pc \in {"deleting", "deleted"}
                           /\ task[t].pc # "free" => task[t].id # 0
    /\ NewIsClean /\ BusyHasDownload /\ DownloadsHaveRows

-----------------------------------------------------------------------------
(* What a comment says and the code does not keep                          *)

\* periodic_local_storage_refresh_job: "Keeps every active Sync Module's
\* local-storage listing current without requiring an admin": once nothing is
\* cut off any more and no administrator asks, no refresh goes on for ever.
RefreshingEnds ==
    <>[][~WorkerCrash /\ \A r \in Refreshers : ~RequestRefresh(r) /\ ~RefreshCutOff(r)]_vars
      => (status = "refreshing" ~> status # "refreshing")
=============================================================================
