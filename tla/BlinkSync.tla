------------------------------ MODULE BlinkSync ------------------------------
(***************************************************************************)
(* Discovering clips: sync_blink_account jobs that list the media uploaded *)
(* since last_sync, insert a clip row for each that is new, advance        *)
(* last_sync and enqueue the downloads, and the download_clip jobs up to   *)
(* the analysis or archive job that follows them.  A sync enqueues the     *)
(* next one when it ends; "Sync now" and every start of the worker begin a *)
(* chain of their own, so that syncs overlap.                              *)
(*                                                                         *)
(* A point in time is the set of the media uploaded before it.  One camera *)
(* stands for all: the rows of a sync are written in one transaction, and  *)
(* its first statement, the upsert of the camera, keeps every other sync   *)
(* from writing until it commits.                                          *)
(***************************************************************************)
EXTENDS Naturals, FiniteSets

CONSTANTS
    Media,      \* what the camera records, numbered by recorded_at
    Chains,     \* slots for chains of sync jobs
    Limit,      \* auto_analyze_limit
    MaxTries    \* DOWNLOAD_MAX_TRIES: 4 in the code

ASSUME BlinkSyncAssumption ==
    /\ Media \subseteq Nat
    /\ Limit \in Nat /\ MaxTries \in Nat \ {0}

VARIABLES
    uploaded,  \* the media that Blink has
    lastSync,  \* the account's last_sync
    clips,     \* per medium, its row
    enabled,   \* the camera's switch
    sync,      \* per chain, its next or running sync
    download,  \* per medium, its download job
    enqueued,  \* per medium, how many downloads were enqueued: up to 2
    followed,  \* per medium, how many analyses or archives were: up to 2
    mishaps    \* history: the hazards that have occurred so far

vars == <<uploaded, lastSync, clips, enabled, sync, download, enqueued, followed, mishaps>>
tables == <<lastSync, clips, enabled>>
jobs == <<download, enqueued, followed>>

ClipRows == {"none", "pending", "downloaded", "complete"}
Mishaps == {"gap", "unknown", "cut_off", "chain"}

NoSync == [pc |-> "none", since |-> {}, listed |-> {}, todo |-> {}, auto |-> {}]
NextSync == [NoSync EXCEPT !.pc = "queued"]
NoDownload == [pc |-> "none", try |-> 0, auto |-> FALSE]

Running(s) == sync[s].pc \notin {"none", "queued"}
Rows == {m \in Media : clips[m] # "none"}
Bump(f, m) == [f EXCEPT ![m] = IF f[m] < 2 THEN f[m] + 1 ELSE 2]

-----------------------------------------------------------------------------
(* Chains of syncs                                                         *)

\* trigger_sync, for an administrator.
SyncNow(s) ==
    /\ sync[s].pc = "none"
    /\ sync' = [sync EXCEPT ![s] = NextSync]
    /\ UNCHANGED <<uploaded, tables, jobs, mishaps>>

\* The interval and the account are read.
Start(s) ==
    /\ sync[s].pc = "queued"
    /\ sync' = [sync EXCEPT ![s].pc = "started", ![s].since = lastSync]
    /\ UNCHANGED <<uploaded, tables, jobs, mishaps>>

\* Media of a camera that get_cameras did not return just before, or returned
\* under another name, are skipped.  get_sync_modules comes next.
ListMedia(s) ==
    /\ sync[s].pc = "started"
    /\ \E known \in {{}, uploaded \ sync[s].since} :
         /\ sync' = [sync EXCEPT ![s] = [NoSync EXCEPT !.pc = "listed", !.listed = known]]
         /\ mishaps' = IF known = uploaded \ sync[s].since THEN mishaps
                       ELSE mishaps \cup {"unknown"}
    /\ UNCHANGED <<uploaded, tables, jobs>>

\* Mutant: a failed listing advances last_sync.
SyncFailsAdvancing(s) ==
    /\ sync[s].pc = "started"
    /\ sync' = [sync EXCEPT ![s] = NextSync]
    /\ lastSync' = uploaded
    /\ UNCHANGED <<uploaded, clips, enabled, jobs, mishaps>>

\* Mutant: the next sync is enqueued by a successful one only.
SyncFailsForGood(s) ==
    /\ sync[s].pc = "started"
    /\ sync' = [sync EXCEPT ![s] = NoSync]
    /\ UNCHANGED <<uploaded, tables, jobs, mishaps>>

\* BlinkError: the account's status says so.
SyncFails(s) ==
    /\ sync[s].pc = "started"
    /\ sync' = [sync EXCEPT ![s] = NextSync]
    /\ UNCHANGED <<uploaded, tables, jobs, mishaps>>

\* The newest of them, by recorded_at.
SelectAutoAnalyze(new) == {m \in new : Cardinality({k \in new : k > m}) < Limit}

\* Mutant: a row that is there already counts as new.
ListedClips(s) == sync[s].listed

\* on_conflict_do_nothing, returning what was inserted.
NewClips(s) == sync[s].listed \ Rows

\* Cameras, new clips and last_sync, in one transaction.
Write(s) ==
    /\ sync[s].pc = "listed"
    /\ clips' = [m \in Media |-> IF m \in NewClips(s) \ Rows THEN "pending" ELSE clips[m]]
    /\ lastSync' = uploaded
    /\ sync' = [sync EXCEPT ![s] = [NoSync EXCEPT !.pc = "enqueuing", !.todo = NewClips(s),
                                                  !.auto = SelectAutoAnalyze(NewClips(s))]]
    /\ UNCHANGED <<uploaded, enabled, jobs, mishaps>>

\* Mutant: only the clips to be analysed are downloaded.
EnqueueAnalyzed(s, m) ==
    /\ sync[s].pc = "enqueuing" /\ m \in sync[s].todo
    /\ sync' = [sync EXCEPT ![s].todo = sync[s].todo \ {m}]
    /\ download' = IF m \in sync[s].auto
                   THEN [download EXCEPT ![m] = [NoDownload EXCEPT !.pc = "queued", !.auto = TRUE]]
                   ELSE download
    /\ enqueued' = IF m \in sync[s].auto THEN Bump(enqueued, m) ELSE enqueued
    /\ UNCHANGED <<uploaded, tables, followed, mishaps>>

\* One download after the other.  A second one for a clip is only counted.
EnqueueDownload(s, m) ==
    /\ sync[s].pc = "enqueuing" /\ m \in sync[s].todo
    /\ sync' = [sync EXCEPT ![s].todo = sync[s].todo \ {m}]
    /\ download' = IF enqueued[m] > 0 THEN download
                   ELSE [download EXCEPT ![m] = [NoDownload EXCEPT !.pc = "queued",
                                                                   !.auto = m \in sync[s].auto]]
    /\ enqueued' = Bump(enqueued, m)
    /\ UNCHANGED <<uploaded, tables, followed, mishaps>>

\* The finally block.
SyncEnds(s) ==
    /\ sync[s].pc = "enqueuing" /\ sync[s].todo = {}
    /\ sync' = [sync EXCEPT ![s] = NextSync]
    /\ UNCHANGED <<uploaded, tables, jobs, mishaps>>

\* A timeout or an unexpected error: the finally block runs all the same.  It
\* leaves a trace only between the commit and the last enqueueing.
SyncCutOff(s) ==
    /\ Running(s)
    /\ sync' = [sync EXCEPT ![s] = NextSync]
    /\ mishaps' = IF sync[s].todo = {} THEN mishaps ELSE mishaps \cup {"cut_off"}
    /\ UNCHANGED <<uploaded, tables, jobs>>

\* The interval cannot be read, which is before the try, or Redis refuses the
\* next job.
ChainBreaks(s) ==
    /\ sync[s].pc # "none"
    /\ sync' = [sync EXCEPT ![s] = NoSync]
    /\ mishaps' = mishaps \cup {"chain"}
    /\ UNCHANGED <<uploaded, tables, jobs>>

-----------------------------------------------------------------------------
(* Downloads                                                               *)

\* Downloaded already, or the camera is disabled.
SkipDownload(m) ==
    /\ download[m].pc = "queued"
    /\ clips[m] # "pending" \/ ~enabled
    /\ download' = [download EXCEPT ![m].pc = "ended"]
    /\ UNCHANGED <<uploaded, tables, sync, enqueued, followed, mishaps>>

\* Mutant: a clip that is downloaded already is downloaded again.
StartDownloadAgain(m) ==
    /\ download[m].pc = "queued"
    /\ enabled
    /\ download' = [download EXCEPT ![m].pc = "running", ![m].try = download[m].try + 1]
    /\ UNCHANGED <<uploaded, tables, sync, enqueued, followed, mishaps>>

StartDownload(m) ==
    /\ download[m].pc = "queued"
    /\ clips[m] = "pending" /\ enabled
    /\ download' = [download EXCEPT ![m].pc = "running", ![m].try = download[m].try + 1]
    /\ UNCHANGED <<uploaded, tables, sync, enqueued, followed, mishaps>>

Requeued(m) ==
    IF download[m].try < MaxTries THEN [download[m] EXCEPT !.pc = "queued"]
    ELSE [download[m] EXCEPT !.pc = "ended"]

\* BlinkError or StorageError is retried, BlinkAuthError is not.
DownloadFails(m) ==
    /\ download[m].pc = "running"
    /\ \E next \in {Requeued(m), [download[m] EXCEPT !.pc = "ended"]} :
         download' = [download EXCEPT ![m] = next]
    /\ UNCHANGED <<uploaded, tables, sync, enqueued, followed, mishaps>>

\* The file is there and the row says so.
SaveDownload(m) ==
    /\ download[m].pc = "running"
    /\ clips' = [clips EXCEPT ![m] = "downloaded"]
    /\ download' = [download EXCEPT ![m].pc = "saved"]
    /\ UNCHANGED <<uploaded, lastSync, enabled, sync, enqueued, followed, mishaps>>

\* The thumbnail, made or not, is committed.
SaveThumbnail(m) ==
    /\ download[m].pc = "saved"
    /\ clips' = [clips EXCEPT ![m] = "complete"]
    /\ download' = [download EXCEPT ![m].pc = "thumbnail"]
    /\ UNCHANGED <<uploaded, lastSync, enabled, sync, enqueued, followed, mishaps>>

\* The analysis is enqueued, or else maybe_enqueue_auto_archive is called.
FollowUp(m) ==
    /\ download[m].pc = "thumbnail"
    /\ download' = [download EXCEPT ![m].pc = "followed"]
    /\ followed' = Bump(followed, m)
    /\ UNCHANGED <<uploaded, tables, sync, enqueued, mishaps>>

DownloadEnds(m) ==
    /\ download[m].pc = "followed"
    /\ download' = [download EXCEPT ![m].pc = "ended"]
    /\ UNCHANGED <<uploaded, tables, sync, enqueued, followed, mishaps>>

InDownload(m) == download[m].pc \in {"running", "saved", "thumbnail", "followed"}

DownloadCutOff(m) ==
    /\ InDownload(m)
    /\ download' = [download EXCEPT ![m].pc = "ended"]
    /\ mishaps' = mishaps \cup {"cut_off"}
    /\ UNCHANGED <<uploaded, tables, sync, enqueued, followed>>

-----------------------------------------------------------------------------
(* The surroundings                                                        *)

\* The start of the worker enqueues a sync; Chains bounds how many there are.
Restarted(broken) ==
    LET idle == {s \in Chains : broken[s].pc = "none"} IN
      IF idle = {} THEN {broken} ELSE {[broken EXCEPT ![s] = NextSync] : s \in idle}

\* The worker dies and is started again: syncs have one try, downloads more.
WorkerCrash ==
    /\ \/ \E s \in Chains : Running(s)
       \/ \E m \in Media : InDownload(m)
    /\ sync' \in Restarted([s \in Chains |-> IF Running(s) THEN NoSync ELSE sync[s]])
    /\ download' = [m \in Media |-> IF InDownload(m) THEN Requeued(m) ELSE download[m]]
    /\ mishaps' = IF (\A s \in Chains : sync[s].todo = {}) /\ ~\E m \in Media : InDownload(m)
                  THEN mishaps ELSE mishaps \cup {"cut_off"}
    /\ UNCHANGED <<uploaded, tables, enqueued, followed>>

\* Between a listing and the commit of its sync, it is in the gap.
Upload(m) ==
    /\ m \notin uploaded
    /\ uploaded' = uploaded \cup {m}
    /\ mishaps' = IF \E s \in Chains : sync[s].pc = "listed"
                  THEN mishaps \cup {"gap"} ELSE mishaps
    /\ UNCHANGED <<tables, sync, jobs>>

\* An administrator disables the camera, or enables it again.
ToggleCamera ==
    /\ enabled' = ~enabled
    /\ UNCHANGED <<uploaded, lastSync, clips, sync, jobs, mishaps>>

-----------------------------------------------------------------------------
\* The worker has been started with a new account.
Init ==
    /\ uploaded = {} /\ lastSync = {} /\ enabled = TRUE
    /\ clips = [m \in Media |-> "none"]
    /\ \E first \in Chains :
         sync = [s \in Chains |-> IF s = first THEN NextSync ELSE NoSync]
    /\ download = [m \in Media |-> NoDownload]
    /\ enqueued = [m \in Media |-> 0] /\ followed = [m \in Media |-> 0]
    /\ mishaps = {}

SyncStep(s) ==
    \/ Start(s) \/ ListMedia(s) \/ SyncFails(s) \/ Write(s)
    \/ (\E m \in Media : EnqueueDownload(s, m)) \/ SyncEnds(s)

DownloadStep(m) ==
    \/ SkipDownload(m) \/ StartDownload(m) \/ DownloadFails(m)
    \/ SaveDownload(m) \/ SaveThumbnail(m) \/ FollowUp(m) \/ DownloadEnds(m)

Next ==
    \/ \E s \in Chains : SyncNow(s) \/ SyncStep(s) \/ SyncCutOff(s) \/ ChainBreaks(s)
    \/ \E m \in Media : DownloadStep(m) \/ DownloadCutOff(m) \/ Upload(m)
    \/ WorkerCrash \/ ToggleCamera

Spec == Init /\ [][Next]_vars

-----------------------------------------------------------------------------
(* Properties                                                              *)

TypeOK ==
    /\ lastSync \subseteq uploaded /\ uploaded \subseteq Media
    /\ clips \in [Media -> ClipRows]
    /\ enabled \in BOOLEAN
    /\ sync \in [Chains -> [pc : {"none", "queued", "started", "listed", "enqueuing"}, since : SUBSET uploaded,
                            listed : SUBSET uploaded, todo : SUBSET Rows, auto : SUBSET Media]]
    /\ download \in [Media -> [pc : {"none", "queued", "running", "saved", "thumbnail", "followed", "ended"},
                               try : 0..MaxTries, auto : BOOLEAN]]
    /\ enqueued \in [Media -> 0..2] /\ followed \in [Media -> 0..2]
    /\ mishaps \subseteq Mishaps

\* Failures, crashes and overlapping syncs included: last_sync never passes a
\* clip that has no row, unless it was uploaded between a listing and its
\* commit, or its camera was not known then.
SinceCovers == mishaps \cap {"gap", "unknown"} = {} => lastSync \subseteq Rows

\* However syncs overlap, a clip is downloaded by one job only
\* (on_conflict_do_nothing .returning: a row is new to one of them).
DownloadedByOneJob == \A m \in Media : enqueued[m] <= 1

\* Every row has, or will have, its download, those beyond auto_analyze_limit
\* included, unless its sync is cut off ("everything else still downloads").
RowsAreQueued ==
    mishaps \cap {"cut_off", "chain"} = {} =>
      \A m \in Rows : enqueued[m] = 1 \/ \E s \in Chains : m \in sync[s].todo

\* A downloaded clip goes on to its analysis or to the archive policy once:
\* never twice, retries and crashes included, and not at all only when the
\* job was cut off.
FollowedOnce ==
    \A m \in Media :
       /\ followed[m] <= 1
       /\ followed[m] = 1 => clips[m] = "complete"
       /\ download[m].pc = "ended" /\ clips[m] # "pending" /\ "cut_off" \notin mishaps => followed[m] = 1

\* Unless the interval cannot be read or the next job cannot be enqueued, some
\* sync is always running or due: after failures, timeouts and crashes too.
SyncsGoOn == "chain" \notin mishaps => \E s \in Chains : sync[s].pc # "none"

-----------------------------------------------------------------------------
(* The inductive invariant: why these hold.                                *)

\* A sync enqueues rows that are its own alone.
TodosApart ==
    \A s \in Chains :
       /\ sync[s].todo # {} => sync[s].pc = "enqueuing"
       /\ \A m \in sync[s].todo : enqueued[m] = 0
       /\ \A t \in Chains \ {s} : sync[s].todo \cap sync[t].todo = {}

\* What a sync has read or listed covers what is uploaded.
ListingsCover ==
    mishaps \cap {"gap", "unknown"} = {} =>
      \A s \in Chains :
         /\ sync[s].pc = "started" => sync[s].since \subseteq Rows
         /\ sync[s].pc = "listed" => uploaded \subseteq sync[s].listed \cup Rows

\* Where a download is, what its row says and what has followed it.
Phases ==
    \A m \in Media :
       LET d == download[m] IN
       /\ enqueued[m] = 0 => d.pc = "none"
       /\ clips[m] = "none" => enqueued[m] = 0
       /\ d.pc \in {"none", "running"} => clips[m] \in {"none", "pending"}
       /\ d.pc = "queued" /\ "cut_off" \notin mishaps => clips[m] = "pending"
       /\ d.pc \in {"saved", "thumbnail"} => clips[m] \in {"downloaded", "complete"} /\ followed[m] = 0
       /\ d.pc \in {"thumbnail", "followed"} => clips[m] = "complete"
       /\ d.pc = "followed" => followed[m] = 1
       /\ d.pc \in {"queued", "running"} => d.try < MaxTries \/ d.pc = "running"

\* What syncs and downloads leave in the tables and in the queue: a sync cut
\* off or overtaken, a download run again included.
SyncInv ==
    /\ TypeOK /\ TodosApart /\ ListingsCover /\ Phases
    /\ SinceCovers /\ DownloadedByOneJob /\ RowsAreQueued /\ FollowedOnce /\ SyncsGoOn

-----------------------------------------------------------------------------
(* Refinement: what a clip goes through, whatever the syncs do.            *)

LifeRow(m) == IF clips[m] = "complete" THEN "downloaded" ELSE clips[m]

\* A second download would be none that a lifecycle has.
LifeDownload(m) ==
    IF enqueued[m] > 1 THEN "twice"
    ELSE IF enqueued[m] = 0 THEN "none"
    ELSE IF download[m].pc = "ended" THEN "over" ELSE "due"

Life(m) == INSTANCE ClipLifecycle WITH row <- LifeRow(m), download <- LifeDownload(m)

\* However syncs overlap, crash or are cut off: a clip's row is inserted once,
\* its download is enqueued once and by the sync that inserted it, it is the
\* only one to obtain the video, and it does so once (on_conflict_do_nothing
\* .returning: a row is new to one sync; download_clip's check of the path).
SyncKeepsLifecycle ==
    /\ \A m \in Media : Life(m)!Init
    /\ [][\A m \in Media : UNCHANGED Life(m)!vars \/ Life(m)!Next]_vars

-----------------------------------------------------------------------------
(* What a comment says and the code does not keep                          *)

\* list_media is "for a sync that must never silently drop clips".
NoMediaSkipped == mishaps \subseteq {"gap"} => lastSync \subseteq Rows
=============================================================================
