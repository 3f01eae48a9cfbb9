------------------------------ MODULE ClipStore ------------------------------
(***************************************************************************)
(* The bytes of one clip: the clips row that says where they are, the      *)
(* files and cloud objects that hold them, and the jobs that move them.    *)
(*                                                                         *)
(* A job is a coroutine: it loads the row, works on what it loaded across  *)
(* several awaits (file, cloud and camera reads), and commits at the end.  *)
(* Each await is a step here, so the steps of several jobs interleave, and *)
(* a crash may fall between any two of them.  Clips do not share files,    *)
(* keys or rows, so one clip shows everything several would.               *)
(***************************************************************************)
EXTENDS Naturals

CONSTANTS
    Jobs,         \* slots for worker jobs and API requests in flight
    Backends,     \* cloud providers an archive can go to
    Overwriting,  \* those where uploading the same name again replaces the object
    Paths,        \* paths clip_path() can compute for this clip
    FixedKey,     \* the key of "<clip id>.mp4" at an overwriting provider
    FreshKeys,    \* ids the other providers hand out; bounds their objects
    Nowhere,      \* no place: a NULL storage_path
    Pending,      \* the row of a clip that is not downloaded
    Gone          \* no row: the clip was deleted

ASSUME StoreAssumption ==
    /\ Overwriting \subseteq Backends
    /\ "local" \notin Backends
    /\ "local" \notin Overwriting

Local == "local"
LocalPlaces == {Local} \X Paths
CloudPlaces == (Overwriting \X {FixedKey})
                 \cup ((Backends \ Overwriting) \X FreshKeys)
Places == LocalPlaces \cup CloudPlaces

ASSUME PlaceAssumption ==
    /\ Nowhere \notin Places /\ Pending \notin Places /\ Gone \notin Places
    /\ Pending # Gone

VARIABLES
    row,        \* Gone, Pending, or the place the row points at
    copies,     \* the places that hold the clip's bytes
    clipPath,   \* what clip_path() returns now: it follows the camera's name
    job,        \* per slot, the job's local state
    mishaps     \* history: the hazards that have occurred so far

vars == <<row, copies, clipPath, job, mishaps>>

-----------------------------------------------------------------------------
(* Jobs                                                                    *)

MoveKinds == {"archive", "auto_archive", "restore"}
WorkerKinds == MoveKinds \cup {"download"}
Kinds == WorkerKinds \cup {"delete", "none"}
PCs == {"idle", "queued", "loaded", "fetched", "stored", "cleaned"}
Mishaps == {"twins", "cross", "crash", "leftover", "half_delete"}

MaxTries(kind) == IF kind = "download" THEN 4 ELSE 2

JobRecord == [kind : Kinds, backend : Backends \cup {Local}, pc : PCs,
              src : Places \cup {Nowhere}, dst : Places \cup {Nowhere}, tries : 0..4]

IdleJob == [kind |-> "none", backend |-> Local, pc |-> "idle",
            src |-> Nowhere, dst |-> Nowhere, tries |-> 0]

\* A job in the queue: its arguments, and the tries already made.
Queued(kind, b, n) == [kind |-> kind, backend |-> b, pc |-> "queued",
                       src |-> Nowhere, dst |-> Nowhere, tries |-> n]

InFlight(r) == r.pc \notin {"idle", "queued"}
Active(j) == InFlight(job[j])
Quiescent == \A j \in Jobs : job[j].pc = "idle"
Deleting == \E j \in Jobs : job[j].kind = "delete" /\ job[j].pc = "cleaned"

\* Job j reaches pc; the named fields of its record change with it.
Goto(j, from, to) ==
    /\ job[j].pc = from
    /\ job' = [job EXCEPT ![j].pc = to]

Finish(j) == job' = [job EXCEPT ![j] = IdleJob]

\* Mutant: a retry is enqueued as a new job.
RequeuedAfresh(j) ==
    IF job[j].kind \in WorkerKinds
    THEN Queued(job[j].kind, IF job[j].kind = "archive" THEN job[j].backend ELSE Local, 0)
    ELSE IdleJob

\* arq.Retry, or the re-run of a job whose worker died: while tries are left
\* the job is back in the queue, with its arguments only.
Requeued(j) ==
    LET kind == job[j].kind IN
    IF kind \in WorkerKinds /\ job[j].tries < MaxTries(kind)
    THEN Queued(kind, IF kind = "archive" THEN job[j].backend ELSE Local, job[j].tries)
    ELSE IdleJob

\* Two jobs in flight at once: moving the clip the same way, or not.
Twins(a, b) ==
    \/ a \in {"archive", "auto_archive"} /\ b \in {"archive", "auto_archive"}
    \/ a = "restore" /\ b = "restore"

Overlaps(j, kind) ==
    {IF Twins(kind, job[k].kind) THEN "twins" ELSE "cross" : k \in {i \in Jobs \ {j} : Active(i)}}

\* A worker job starts on what it reads of the row.
Begin(j, src, dst, b) ==
    /\ job[j].pc = "queued"
    /\ job' = [job EXCEPT ![j].pc = "loaded", ![j].src = src, ![j].dst = dst,
                          ![j].backend = b, ![j].tries = job[j].tries + 1]
    /\ mishaps' = mishaps \cup Overlaps(j, job[j].kind)

-----------------------------------------------------------------------------
(* Enqueueing                                                              *)

\* The Storage tab's archive action, and maybe_enqueue_auto_archive when the
\* policy has no delay: the destination is baked into the job.
EnqueueArchive(j, b) ==
    /\ job[j].pc = "idle"
    /\ row \in LocalPlaces
    /\ job' = [job EXCEPT ![j] = Queued("archive", b, 0)]
    /\ UNCHANGED <<row, copies, clipPath, mishaps>>

\* maybe_enqueue_auto_archive with a delay: the job reads the policy later.
EnqueueAutoArchive(j) ==
    /\ job[j].pc = "idle"
    /\ row \in LocalPlaces
    /\ job' = [job EXCEPT ![j] = Queued("auto_archive", Local, 0)]
    /\ UNCHANGED <<row, copies, clipPath, mishaps>>

EnqueueRestore(j) ==
    /\ job[j].pc = "idle"
    /\ row \in CloudPlaces
    /\ job' = [job EXCEPT ![j] = Queued("restore", Local, 0)]
    /\ UNCHANGED <<row, copies, clipPath, mishaps>>

-----------------------------------------------------------------------------
(* Downloading from Blink                                                  *)

\* The job is queued once, when the sync that inserts the row enqueues it.
LoadDownload(j) ==
    /\ job[j].kind = "download"
    /\ row = Pending
    /\ Begin(j, Nowhere, <<Local, clipPath>>, Local)
    /\ UNCHANGED <<row, copies, clipPath>>

\* Row gone, clip already downloaded, or the camera disabled.
SkipDownload(j) ==
    /\ job[j].kind = "download" /\ job[j].pc = "queued"
    /\ Finish(j)
    /\ UNCHANGED <<row, copies, clipPath, mishaps>>

WriteDownload(j) ==
    /\ job[j].kind = "download" /\ Goto(j, "loaded", "stored")
    /\ copies' = copies \cup {job[j].dst}
    /\ UNCHANGED <<row, clipPath, mishaps>>

\* BlinkError or StorageError, at the first attempt or, after a write that
\* ffprobe could not read, at a later one.
DownloadFails(j) ==
    /\ job[j].kind = "download" /\ job[j].pc \in {"loaded", "stored"}
    /\ job' = [job EXCEPT ![j] = Requeued(j)]
    /\ mishaps' = IF job[j].pc = "stored" THEN mishaps \cup {"leftover"} ELSE mishaps
    /\ UNCHANGED <<row, copies, clipPath>>

\* BlinkAuthError: the account goes to ERROR and the job is not retried.
DownloadAuthFails(j) ==
    /\ job[j].kind = "download" /\ job[j].pc \in {"loaded", "stored"}
    /\ Finish(j)
    /\ mishaps' = IF job[j].pc = "stored" THEN mishaps \cup {"leftover"} ELSE mishaps
    /\ UNCHANGED <<row, copies, clipPath>>

\* Mutant: the row is written as an upsert.
CommitDownloadUpsert(j) ==
    /\ job[j].kind = "download" /\ job[j].pc = "stored"
    /\ row' = job[j].dst
    /\ Finish(j)
    /\ UNCHANGED <<copies, clipPath, mishaps>>

\* An UPDATE of a row that is gone matches nothing: StaleDataError, the job
\* fails and nothing is written.
CommitDownload(j) ==
    /\ job[j].kind = "download" /\ job[j].pc = "stored"
    /\ row' = IF row = Gone THEN row ELSE job[j].dst
    /\ Finish(j)
    /\ UNCHANGED <<copies, clipPath, mishaps>>

-----------------------------------------------------------------------------
(* Archiving and restoring                                                 *)

LoadArchive(j) ==
    /\ job[j].kind = "archive"
    /\ row \in LocalPlaces
    /\ Begin(j, row, Nowhere, job[j].backend)
    /\ UNCHANGED <<row, copies, clipPath>>

\* The policy is whatever it is when the job runs.
LoadAutoArchive(j, b) ==
    /\ job[j].kind = "auto_archive"
    /\ row \in LocalPlaces
    /\ Begin(j, row, Nowhere, b)
    /\ UNCHANGED <<row, copies, clipPath>>

LoadRestore(j) ==
    /\ job[j].kind = "restore"
    /\ row \in CloudPlaces
    /\ Begin(j, row, Nowhere, Local)
    /\ UNCHANGED <<row, copies, clipPath>>

\* Row gone, clip on the wrong side, provider not configured, policy off.
SkipMove(j) ==
    /\ job[j].kind \in MoveKinds /\ job[j].pc = "queued"
    /\ Finish(j)
    /\ UNCHANGED <<row, copies, clipPath, mishaps>>

\* Mutant: the source is moved away instead of being read.
FetchByMoving(j) ==
    /\ job[j].kind \in MoveKinds /\ job[j].src \in copies
    /\ Goto(j, "loaded", "fetched")
    /\ copies' = copies \ {job[j].src}
    /\ UNCHANGED <<row, clipPath, mishaps>>

\* The whole clip is read into memory from where the row said it was.
Fetch(j) ==
    /\ job[j].kind \in MoveKinds /\ job[j].src \in copies
    /\ Goto(j, "loaded", "fetched")
    /\ UNCHANGED <<row, copies, clipPath, mishaps>>

\* The places an upload to b can end at.
UploadTargets(b) ==
    IF b \in Overwriting THEN {<<b, FixedKey>>}
    ELSE {p \in {b} \X FreshKeys : /\ p \notin copies /\ p # row
                                   /\ \A k \in Jobs : p # job[k].src /\ p # job[k].dst}

Store(j, p) ==
    /\ job[j].pc = "fetched"
    /\ job' = [job EXCEPT ![j].pc = "stored", ![j].dst = p]
    /\ copies' = copies \cup {p}
    /\ UNCHANGED <<row, clipPath, mishaps>>

Upload(j) ==
    /\ job[j].kind \in {"archive", "auto_archive"}
    /\ \E p \in UploadTargets(job[j].backend) : Store(j, p)

\* A failed upload whose object is nevertheless there.
UploadFailsLate(j) ==
    /\ job[j].kind \in {"archive", "auto_archive"} /\ job[j].pc = "fetched"
    /\ \E p \in UploadTargets(job[j].backend) : copies' = copies \cup {p}
    /\ Finish(j)
    /\ mishaps' = mishaps \cup {"leftover"}
    /\ UNCHANGED <<row, clipPath>>

\* The path is computed from the camera's name at this moment.
WriteRestored(j) ==
    /\ job[j].kind = "restore"
    /\ Store(j, <<Local, clipPath>>)

\* ArchiveError before anything was stored: never retried.
MoveFails(j) ==
    /\ job[j].kind \in MoveKinds /\ job[j].pc \in {"loaded", "fetched"}
    /\ Finish(j)
    /\ UNCHANGED <<row, copies, clipPath, mishaps>>

\* Mutant: the cleanup is forgotten.
RemoveSourceForgotten(j) ==
    /\ job[j].kind \in MoveKinds /\ Goto(j, "stored", "cleaned")
    /\ UNCHANGED <<row, copies, clipPath, mishaps>>

\* Deleting the source file or object once the destination holds the bytes.
RemoveSource(j) ==
    /\ job[j].kind \in MoveKinds /\ Goto(j, "stored", "cleaned")
    /\ copies' = copies \ {job[j].src}
    /\ UNCHANGED <<row, clipPath, mishaps>>

\* StorageError or CloudStorageError from that delete: logged, not raised.
RemoveSourceFails(j) ==
    /\ job[j].kind \in MoveKinds /\ Goto(j, "stored", "cleaned")
    /\ mishaps' = mishaps \cup {"leftover"}
    /\ UNCHANGED <<row, copies, clipPath>>

\* Mutant: a restored clip's path is computed again for the commit.
CommitMoveRecomputed(j) ==
    /\ job[j].kind \in MoveKinds /\ job[j].pc = "cleaned"
    /\ row' = IF row = Gone THEN row
              ELSE IF job[j].kind = "restore" THEN <<Local, clipPath>> ELSE job[j].dst
    /\ Finish(j)
    /\ UNCHANGED <<copies, clipPath, mishaps>>

\* storage_backend and storage_path are written whatever the row says now.
CommitMove(j) ==
    /\ job[j].kind \in MoveKinds /\ job[j].pc = "cleaned"
    /\ row' = IF row = Gone THEN row ELSE job[j].dst
    /\ Finish(j)
    /\ UNCHANGED <<copies, clipPath, mishaps>>

-----------------------------------------------------------------------------
(* Deleting: an API request                                                *)

RequestDelete(j) ==
    /\ job[j].pc = "idle"
    /\ row # Gone
    /\ job' = [job EXCEPT ![j] = [kind |-> "delete", backend |-> Local, pc |-> "loaded",
                                  src |-> IF row = Pending THEN Nowhere ELSE row,
                                  dst |-> Nowhere, tries |-> 0]]
    /\ mishaps' = mishaps \cup Overlaps(j, "delete")
    /\ UNCHANGED <<row, copies, clipPath>>

\* Mutant: the file's path is computed again instead of read from the row.
EraseFileRecomputed(j) ==
    /\ job[j].kind = "delete" /\ Goto(j, "loaded", "cleaned")
    /\ copies' = IF job[j].src \in LocalPlaces THEN copies \ {<<Local, clipPath>>} ELSE copies
    /\ UNCHANGED <<row, clipPath, mishaps>>

\* Path(storage_path) is unlinked, absent or not: a cloud key names no file.
EraseFile(j) ==
    /\ job[j].kind = "delete" /\ Goto(j, "loaded", "cleaned")
    /\ copies' = copies \ ({job[j].src} \cap LocalPlaces)
    /\ UNCHANGED <<row, clipPath, mishaps>>

\* StorageError on the video (nothing happened) or, after it, on the
\* thumbnail: the transaction is rolled back, the video is not.
DeleteFails(j) ==
    /\ job[j].kind = "delete" /\ job[j].pc \in {"loaded", "cleaned"}
    /\ Finish(j)
    /\ mishaps' = IF job[j].pc = "cleaned" THEN mishaps \cup {"half_delete"} ELSE mishaps
    /\ UNCHANGED <<row, copies, clipPath>>

CommitDelete(j) ==
    /\ job[j].kind = "delete" /\ job[j].pc = "cleaned"
    /\ row' = Gone
    /\ Finish(j)
    /\ UNCHANGED <<copies, clipPath, mishaps>>

-----------------------------------------------------------------------------
(* The surroundings                                                        *)

\* A sync takes over the camera's new name, or the storage directory moves.
RenameCamera ==
    /\ clipPath' \in Paths \ {clipPath}
    /\ UNCHANGED <<row, copies, job, mishaps>>

\* The worker process dies, or shuts down, under its running jobs.
WorkerCrash ==
    /\ \E j \in Jobs : job[j].kind \in WorkerKinds /\ Active(j)
    /\ job' = [j \in Jobs |-> IF job[j].kind \in WorkerKinds /\ Active(j)
                               THEN Requeued(j) ELSE job[j]]
    /\ mishaps' = mishaps \cup {"crash"}
    /\ UNCHANGED <<row, copies, clipPath>>

\* A job that outlives its timeout is cancelled and not retried.
JobTimeout(j) ==
    /\ job[j].kind \in WorkerKinds /\ Active(j)
    /\ Finish(j)
    /\ mishaps' = mishaps \cup {"crash"}
    /\ UNCHANGED <<row, copies, clipPath>>

\* The API process dies under a delete request.
ApiCrash(j) ==
    /\ job[j].kind = "delete" /\ Active(j)
    /\ Finish(j)
    /\ mishaps' = IF job[j].pc = "cleaned" THEN mishaps \cup {"half_delete"} ELSE mishaps
    /\ UNCHANGED <<row, copies, clipPath>>

-----------------------------------------------------------------------------
Init ==
    /\ row = Pending
    /\ copies = {}
    /\ clipPath \in Paths
    /\ \E d \in Jobs : job = [j \in Jobs |-> IF j = d THEN Queued("download", Local, 0)
                                             ELSE IdleJob]
    /\ mishaps = {}

Enqueue(j) ==
    \/ \E b \in Backends : EnqueueArchive(j, b)
    \/ EnqueueAutoArchive(j)
    \/ EnqueueRestore(j)
    \/ RequestDelete(j)

\* What the event loop runs of job j.
Step(j) ==
    \/ LoadDownload(j) \/ SkipDownload(j) \/ WriteDownload(j)
    \/ DownloadFails(j) \/ DownloadAuthFails(j) \/ CommitDownload(j)
    \/ LoadArchive(j) \/ (\E b \in Backends : LoadAutoArchive(j, b)) \/ LoadRestore(j)
    \/ SkipMove(j) \/ Fetch(j) \/ Upload(j) \/ UploadFailsLate(j) \/ WriteRestored(j)
    \/ MoveFails(j) \/ RemoveSource(j) \/ RemoveSourceFails(j) \/ CommitMove(j)
    \/ EraseFile(j) \/ DeleteFails(j) \/ CommitDelete(j)

Next ==
    \/ \E j \in Jobs : Enqueue(j) \/ Step(j) \/ JobTimeout(j) \/ ApiCrash(j)
    \/ RenameCamera
    \/ WorkerCrash

Spec == Init /\ [][Next]_vars

\* arq runs every job it holds, and awaited calls return or raise: the jobs
\* take their steps.  Nothing is assumed of crashes, renames or requests.
FairSpec == Spec /\ \A j \in Jobs : WF_vars(Step(j))

-----------------------------------------------------------------------------
(* Properties                                                              *)

\* What moves leave in the row and in the stores, and what a job's record may be.
TypeOK ==
    /\ row \in Places \cup {Gone, Pending}
    /\ copies \subseteq Places
    /\ clipPath \in Paths
    /\ job \in [Jobs -> JobRecord]
    /\ mishaps \subseteq Mishaps

\* With no failure and no overlap, a clip's video lives in exactly one place,
\* and that is where its row says it is (archive_clip, restore_clip and
\* download_clip each remove what they supersede and commit what they wrote).
CanonicalCopy ==
    mishaps = {} /\ Quiescent /\ row \in Places => copies = {row}

\* A failed cleanup, and two jobs that move the clip the same way, are
\* harmless: between moves the row's storage_path still resolves.
StoragePathResolves ==
    /\ mishaps \subseteq {"leftover", "twins"}
    /\ \A j \in Jobs : job[j].pc # "cleaned"
    /\ row \in Places
    => row \in copies

\* Upload before delete, write before delete: crashes, timeouts, failures and
\* same-way overlaps included, no move ever destroys the last copy of a clip.
BytesSurvive ==
    /\ mishaps \cap {"cross", "half_delete"} = {}
    /\ row \in Places /\ ~Deleting
    => copies # {}

\* Deleting by the persisted path, not a recomputed one, finds the clip's file
\* whatever renames happened since it was written.
DeletedLeavesNoFile ==
    mishaps = {} /\ Quiescent /\ row = Gone => copies \cap LocalPlaces = {}

\* A job that commits after the clip was deleted does not bring it back.
NeverResurrected == [][row = Gone => row' = Gone]_vars

\* Every job ends, its retries included: tries are never given back.
JobsEnd == \A j \in Jobs : job[j].pc # "idle" ~> job[j].pc = "idle"

\* What a job has before it at most: the phases of this try, and other tries.
Left(r) ==
    IF r.pc = "idle" THEN 0
    ELSE 6 * (5 - r.tries)
           + [queued |-> 0, cleaned |-> 1, stored |-> 2, fetched |-> 3, loaded |-> 4][r.pc]

\* Why they end: whatever happens to a job, retries (_next_retry) and re-runs
\* after a crash included, leaves it with less before it.
TriesRunOut ==
    [][\A j \in Jobs : job[j].pc # "idle" =>
          job'[j] = job[j] \/ Left(job'[j]) < Left(job[j])]_vars

-----------------------------------------------------------------------------
(* The inductive invariant: what a job's record may hold in each phase,    *)
(* and, as long as no two opposite jobs have overlapped, who is in flight  *)
(* and where the bytes that a job has stored are.                          *)

Shape(r) ==
    /\ r.pc = "idle" <=> r.kind = "none"
    /\ r.pc = "queued" => r.kind \in WorkerKinds /\ r.tries < MaxTries(r.kind)
    /\ r.kind = "archive" => r.backend \in Backends
    /\ r.kind = "download" /\ InFlight(r) =>
         r.dst \in LocalPlaces /\ r.pc \in {"loaded", "stored"}
    /\ r.kind \in {"archive", "auto_archive"} /\ InFlight(r) =>
         /\ r.backend \in Backends /\ r.src \in LocalPlaces
         /\ r.pc \in {"stored", "cleaned"} => r.dst \in CloudPlaces
    /\ r.kind = "restore" /\ InFlight(r) =>
         /\ r.src \in CloudPlaces
         /\ r.pc \in {"stored", "cleaned"} => r.dst \in LocalPlaces
    /\ r.kind = "delete" => r.pc \in {"loaded", "cleaned"}

OneWay == \A i, j \in Jobs :
    i # j /\ Active(i) /\ Active(j) => Twins(job[i].kind, job[j].kind)

DstHeld == \A j \in Jobs :
    job[j].kind \in WorkerKinds /\ job[j].pc \in {"stored", "cleaned"} => job[j].dst \in copies

DeleteHasRow == \A j \in Jobs : job[j].kind = "delete" => row # Gone

\* Jobs in flight agree with one another and with the store (the state that
\* archive_clip, restore_clip and _delete_one carry across their awaits).
IInv ==
    /\ TypeOK
    /\ \A j \in Jobs : Shape(job[j])
    /\ "cross" \notin mishaps => OneWay /\ DstHeld /\ DeleteHasRow
    /\ BytesSurvive
    /\ StoragePathResolves

\* Where the bytes are when no job holds the clip, and when the job with
\* record r does.
Settled ==
    /\ row \in Places => copies = {row}
    /\ row = Pending => copies = {}
    /\ row = Gone => copies \cap LocalPlaces = {}

InHand(r) ==
    /\ r.kind = "download" =>
         row = Pending /\ copies = IF r.pc = "stored" THEN {r.dst} ELSE {}
    /\ r.kind \in MoveKinds =>
         /\ row = r.src
         /\ copies = (IF r.pc = "cleaned" THEN {} ELSE {r.src})
                       \cup (IF r.pc \in {"stored", "cleaned"} THEN {r.dst} ELSE {})
    /\ r.kind = "delete" =>
         /\ row # Gone /\ r.src = IF row = Pending THEN Nowhere ELSE row
         /\ IF r.pc = "cleaned" THEN copies \cap LocalPlaces = {} ELSE Settled

\* With nothing on record one job at most is in flight, and the row and the
\* stores are as its phase says.
CopyInv ==
    mishaps = {} =>
      /\ \A i, j \in Jobs : Active(i) /\ Active(j) => i = j
      /\ \A j \in Jobs : Active(j) => InHand(job[j])
      /\ (\A j \in Jobs : ~Active(j)) => Settled

-----------------------------------------------------------------------------
(* What a comment says and overlapping jobs break                          *)

\* archive_clip's comment: once uploaded, the remote copy "is now the canonical
\* one"; a copy of a clip that is not being deleted must therefore remain,
\* with no crash and no failed cleanup, however jobs overlap.
SurvivesOverlap ==
    mishaps \subseteq {"twins", "cross"} /\ row \in Places /\ ~Deleting => copies # {}

-----------------------------------------------------------------------------
(* Refinement: as long as no opposite jobs overlap and no delete is left   *)
(* half done, the clip store keeps the promise of ClipVault.               *)

Guard == mishaps \cap {"cross", "half_delete"} = {}

GuardedSpec == Init /\ [][Next /\ Guard']_vars

phase == CASE row = Gone -> "gone"
           [] row # Gone /\ Deleting -> "discarding"
           [] row = Pending /\ ~Deleting -> "pending"
           [] row \in Places /\ ~Deleting -> "kept"

Vault == INSTANCE ClipVault WITH held <- copies

VaultSpec == Vault!Spec

\* Every step keeps what ClipVault promises of a clip, as long as no opposite
\* jobs have overlapped and no delete was left half done (archive.py:90-92,
\* 136-142: a leftover is a lesser evil than a lost recording).
VaultPromise == Vault!Init /\ [][Guard' => Vault!Next]_(Vault!vars)

-----------------------------------------------------------------------------
(* Refinement: the clip's life goes on from where BlinkSync hands it over. *)

LifeRow ==
    CASE row = Pending -> "pending"
      [] row \in Places -> "downloaded"
      [] row = Gone -> "gone"

LifeDownload == IF \E j \in Jobs : job[j].kind = "download" THEN "due" ELSE "over"

Life == INSTANCE ClipLifecycle WITH row <- LifeRow, download <- LifeDownload

\* Why: there is one download, what is in flight of it began on a pending row,
\* and moves begin on rows that no longer are.
LifeInv ==
    /\ \A i, j \in Jobs : job[i].kind = "download" /\ job[j].kind = "download" => i = j
    /\ \A j \in Jobs : Active(j) =>
         /\ job[j].kind = "download" => row \in {Pending, Gone}
         /\ job[j].kind \in MoveKinds => row # Pending

\* Of all jobs and requests only the clip's one download makes a pending clip a
\* downloaded one, and only while it is pending; no retry or crash starts a
\* second one, and no late commit brings back a clip that was deleted
\* (download_clip, the UPDATEs of archive.py, _delete_one).
StoreKeepsLifecycle == Life!Continued
=============================================================================
