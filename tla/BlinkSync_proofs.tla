---------------------------- MODULE BlinkSync_proofs ----------------------------
(***************************************************************************)
(* Theorems about BlinkSync for any number of media and of chains of       *)
(* syncs, any auto_analyze_limit and any limit of tries.  SyncInv is       *)
(* inductive: a step that changes one sync only, or one download only, is  *)
(* an instance of a lemma about its class; the commit of a sync, an        *)
(* enqueueing, an upload and a crash of the worker have one each.          *)
(***************************************************************************)
EXTENDS BlinkSync, TLAPS

SyncRecord == [pc : {"none", "queued", "started", "listed", "enqueuing"},
               since : SUBSET uploaded, listed : SUBSET uploaded,
               todo : SUBSET Rows, auto : SUBSET Media]

DownloadRecord == [pc : {"none", "queued", "running", "saved", "thumbnail", "followed", "ended"},
                   try : 0..MaxTries, auto : BOOLEAN]

\* What Phases and FollowedOnce say of one medium, of its row c, its download
\* d, its count of follow-ups f and the mishaps seen.
InPhase(c, d, f, seen) ==
    /\ d.pc \in {"none", "running"} => c \in {"none", "pending"}
    /\ d.pc = "queued" /\ "cut_off" \notin seen => c = "pending"
    /\ d.pc \in {"saved", "thumbnail"} => c \in {"downloaded", "complete"} /\ f = 0
    /\ d.pc \in {"thumbnail", "followed"} => c = "complete"
    /\ d.pc = "followed" => f = 1
    /\ d.pc = "queued" => d.try < MaxTries
    /\ f <= 1
    /\ f = 1 => c = "complete"
    /\ d.pc = "ended" /\ c # "pending" /\ "cut_off" \notin seen => f = 1

LEMMA PhasesAre ==
    Phases /\ FollowedOnce <=>
      \A m \in Media :
         /\ InPhase(clips[m], download[m], followed[m], mishaps)
         /\ enqueued[m] = 0 => download[m].pc = "none"
         /\ clips[m] = "none" => enqueued[m] = 0
BY DEF Phases, FollowedOnce, InPhase

LEMMA PhasesAreNext ==
    Phases' /\ FollowedOnce' <=>
      \A m \in Media :
         /\ InPhase(clips'[m], download'[m], followed'[m], mishaps')
         /\ enqueued'[m] = 0 => download'[m].pc = "none"
         /\ clips'[m] = "none" => enqueued'[m] = 0
BY DEF Phases, FollowedOnce, InPhase

\* A step that leaves the rows and the downloads alone keeps their phases.
LEMMA PhasesHold ==
    ASSUME SyncInv, UNCHANGED <<clips, jobs>>, mishaps \subseteq mishaps'
    PROVE  Phases' /\ FollowedOnce'
<1>1. clips' = clips /\ download' = download /\ enqueued' = enqueued /\ followed' = followed
  BY DEF jobs
<1>2. ASSUME NEW m \in Media
      PROVE  /\ InPhase(clips'[m], download'[m], followed'[m], mishaps')
             /\ enqueued'[m] = 0 => download'[m].pc = "none"
             /\ clips'[m] = "none" => enqueued'[m] = 0
  <2>1. /\ InPhase(clips[m], download[m], followed[m], mishaps)
        /\ enqueued[m] = 0 => download[m].pc = "none"
        /\ clips[m] = "none" => enqueued[m] = 0
    BY PhasesAre DEF SyncInv
  <2> QED BY <1>1, <2>1 DEF InPhase
<1> QED BY <1>2, PhasesAreNext

LEMMA NoSyncType ==
    /\ NoSync \in SyncRecord /\ NoSync.pc = "none" /\ NoSync.todo = {}
    /\ NextSync \in SyncRecord /\ NextSync.pc = "queued" /\ NextSync.todo = {}
BY DEF NoSync, NextSync, SyncRecord

-----------------------------------------------------------------------------
LEMMA InitSyncInv == Init => SyncInv
<1> SUFFICES ASSUME Init PROVE SyncInv
  OBVIOUS
<1>1. PICK first \in Chains : sync = [s \in Chains |-> IF s = first THEN NextSync ELSE NoSync]
  BY DEF Init
<1>2. /\ \A s \in Chains : sync[s] \in SyncRecord /\ sync[s].todo = {} /\ sync[s].pc \in {"none", "queued"}
      /\ sync[first].pc = "queued"
      /\ sync \in [Chains -> SyncRecord]
  BY <1>1, NoSyncType
<1>3. \A m \in Media : download[m] = NoDownload /\ enqueued[m] = 0 /\ followed[m] = 0 /\ clips[m] = "none"
  BY DEF Init
<1>4. NoDownload \in DownloadRecord /\ NoDownload.pc = "none"
  BY BlinkSyncAssumption DEF NoDownload, DownloadRecord
<1>5. TypeOK
  BY <1>2, <1>4 DEF Init, TypeOK, ClipRows, Mishaps, SyncRecord, DownloadRecord
<1>6. Phases /\ FollowedOnce
  BY <1>3, <1>4, PhasesAre DEF InPhase
<1>7. TodosApart /\ ListingsCover /\ SyncsGoOn
  BY <1>2, <1>3 DEF TodosApart, ListingsCover, SyncsGoOn
<1>8. SinceCovers /\ DownloadedByOneJob /\ RowsAreQueued
  BY <1>3 DEF Init, SinceCovers, DownloadedByOneJob, RowsAreQueued, Rows
<1> QED BY <1>5, <1>6, <1>7, <1>8 DEF SyncInv

-----------------------------------------------------------------------------
(* Class 1: one sync moves on, with nothing left to enqueue; if it had     *)
(* anything to enqueue, that is on record.                                 *)

LEMMA SyncMoves ==
    ASSUME SyncInv, NEW s \in Chains, NEW r \in SyncRecord, r.todo = {},
           sync' = [sync EXCEPT ![s] = r],
           UNCHANGED <<uploaded, tables, jobs>>,
           mishaps \subseteq mishaps', mishaps' \subseteq Mishaps,
           sync[s].todo # {} => mishaps' \cap {"cut_off", "chain"} # {},
           r.pc = "none" => "chain" \in mishaps',
           mishaps' \cap {"gap", "unknown"} = {} =>
             /\ r.pc = "started" => r.since \subseteq Rows
             /\ r.pc = "listed" => uploaded \subseteq r.listed \cup Rows
    PROVE  SyncInv'
<1>1. /\ uploaded' = uploaded /\ lastSync' = lastSync /\ clips' = clips /\ enabled' = enabled
      /\ download' = download /\ enqueued' = enqueued /\ followed' = followed
      /\ Rows' = Rows
  BY DEF tables, jobs, Rows
<1>2. sync \in [Chains -> SyncRecord]
  BY DEF SyncInv, TypeOK, SyncRecord
<1>3. /\ sync' \in [Chains -> SyncRecord]
      /\ sync'[s] = r
      /\ \A t \in Chains \ {s} : sync'[t] = sync[t]
  BY <1>2
<1>4. TypeOK'
  BY <1>1, <1>3 DEF SyncInv, TypeOK, SyncRecord
<1>5. Phases' /\ FollowedOnce'
  BY <1>1, PhasesHold
<1>6. TodosApart'
  BY <1>1, <1>3 DEF SyncInv, TodosApart
<1>7. ListingsCover'
  BY <1>1, <1>3 DEF SyncInv, ListingsCover
<1>8. SinceCovers' /\ DownloadedByOneJob'
  BY <1>1 DEF SyncInv, SinceCovers, DownloadedByOneJob
<1>9. RowsAreQueued'
  BY <1>1, <1>3 DEF SyncInv, RowsAreQueued
<1>10. SyncsGoOn'
  BY <1>3 DEF SyncInv, SyncsGoOn
<1> QED BY <1>4, <1>5, <1>6, <1>7, <1>8, <1>9, <1>10 DEF SyncInv

LEMMA SyncOnlyStep ==
    ASSUME SyncInv, NEW s \in Chains,
           \/ SyncNow(s) \/ Start(s) \/ ListMedia(s) \/ SyncFails(s) \/ SyncEnds(s)
           \/ SyncCutOff(s) \/ ChainBreaks(s)
    PROVE  SyncInv'
<1>1. /\ sync \in [Chains -> SyncRecord]
      /\ mishaps \subseteq Mishaps
      /\ lastSync \subseteq uploaded
  BY DEF SyncInv, TypeOK, SyncRecord
<1>2. sync[s].pc # "enqueuing" => sync[s].todo = {}
  BY DEF SyncInv, TodosApart
<1>3. CASE SyncNow(s) \/ SyncFails(s) \/ SyncEnds(s) \/ SyncCutOff(s)
  <2>1. /\ sync' = [sync EXCEPT ![s] = NextSync]
        /\ UNCHANGED <<uploaded, tables, jobs>>
        /\ mishaps \subseteq mishaps' /\ mishaps' \subseteq Mishaps
        /\ sync[s].todo # {} => "cut_off" \in mishaps'
    BY <1>1, <1>2, <1>3 DEF SyncNow, SyncFails, SyncEnds, SyncCutOff, Mishaps
  <2> QED BY <2>1, NoSyncType, SyncMoves
<1>4. CASE ChainBreaks(s)
  <2>1. /\ sync' = [sync EXCEPT ![s] = NoSync]
        /\ UNCHANGED <<uploaded, tables, jobs>>
        /\ mishaps' = mishaps \cup {"chain"}
    BY <1>4 DEF ChainBreaks
  <2> QED BY <1>1, <2>1, NoSyncType, SyncMoves DEF Mishaps
<1>5. CASE Start(s)
  <2> DEFINE r == [sync[s] EXCEPT !.pc = "started", !.since = lastSync]
  <2>1. r \in SyncRecord /\ r.todo = {} /\ r.pc = "started" /\ r.since = lastSync
    BY <1>1, <1>2, <1>5 DEF Start, SyncRecord
  <2>2. sync' = [sync EXCEPT ![s] = r] /\ UNCHANGED <<uploaded, tables, jobs, mishaps>>
    BY <1>1, <1>5 DEF Start
  <2>3. mishaps \cap {"gap", "unknown"} = {} => lastSync \subseteq Rows
    BY DEF SyncInv, SinceCovers
  <2> HIDE DEF r
  <2> QED BY <1>1, <1>2, <1>5, <2>1, <2>2, <2>3, SyncMoves DEF Start
<1>6. CASE ListMedia(s)
  <2>1. PICK known \in {{}, uploaded \ sync[s].since} :
          /\ sync' = [sync EXCEPT ![s] = [NoSync EXCEPT !.pc = "listed", !.listed = known]]
          /\ mishaps' = IF known = uploaded \ sync[s].since THEN mishaps
                        ELSE mishaps \cup {"unknown"}
    BY <1>6 DEF ListMedia
  <2> DEFINE r == [NoSync EXCEPT !.pc = "listed", !.listed = known]
  <2>2. r \in SyncRecord /\ r.todo = {} /\ r.pc = "listed" /\ r.listed = known
    BY NoSyncType DEF SyncRecord
  <2>3. sync' = [sync EXCEPT ![s] = r] /\ UNCHANGED <<uploaded, tables, jobs>>
    BY <1>1, <1>6, <2>1 DEF ListMedia
  <2>4. mishaps \subseteq mishaps' /\ mishaps' \subseteq Mishaps
    BY <1>1, <2>1 DEF Mishaps
  <2>5. mishaps' \cap {"gap", "unknown"} = {} => uploaded \subseteq known \cup Rows
    <3>1. mishaps \cap {"gap", "unknown"} = {} => sync[s].since \subseteq Rows
      BY <1>6 DEF ListMedia, SyncInv, ListingsCover
    <3> QED BY <2>1, <3>1
  <2> HIDE DEF r
  <2> QED BY <1>1, <1>2, <1>6, <2>2, <2>3, <2>4, <2>5, SyncMoves DEF ListMedia
<1> QED BY <1>3, <1>4, <1>5, <1>6

-----------------------------------------------------------------------------
(* Class 2: one download moves on, with its row and its follow-up.         *)

LEMMA DownloadMoves ==
    ASSUME SyncInv, NEW m \in Media, download[m].pc # "none",
           NEW d \in DownloadRecord, NEW c \in ClipRows \ {"none"}, NEW f \in 0..2,
           d.pc # "none",
           download' = [download EXCEPT ![m] = d],
           clips' = [clips EXCEPT ![m] = c],
           followed' = [followed EXCEPT ![m] = f],
           UNCHANGED <<uploaded, lastSync, enabled, sync, enqueued>>,
           mishaps \subseteq mishaps', mishaps' \subseteq Mishaps,
           InPhase(c, d, f, mishaps')
    PROVE  SyncInv'
<1>1. enqueued[m] # 0 /\ clips[m] # "none"
  BY DEF SyncInv, Phases
<1>2. /\ clips \in [Media -> ClipRows]
      /\ download \in [Media -> DownloadRecord]
      /\ followed \in [Media -> 0..2]
  BY DEF SyncInv, TypeOK, DownloadRecord
<1>3. /\ clips' \in [Media -> ClipRows] /\ clips'[m] = c
      /\ download' \in [Media -> DownloadRecord] /\ download'[m] = d
      /\ followed' \in [Media -> 0..2] /\ followed'[m] = f
      /\ \A k \in Media \ {m} :
            clips'[k] = clips[k] /\ download'[k] = download[k] /\ followed'[k] = followed[k]
  BY <1>2
<1>4. Rows' = Rows
  BY <1>1, <1>3 DEF Rows
<1>5. TypeOK'
  BY <1>3, <1>4 DEF SyncInv, TypeOK, DownloadRecord
<1>6. Phases' /\ FollowedOnce'
  <2>1. \A k \in Media :
           /\ InPhase(clips[k], download[k], followed[k], mishaps)
           /\ enqueued[k] = 0 => download[k].pc = "none"
           /\ clips[k] = "none" => enqueued[k] = 0
    BY PhasesAre DEF SyncInv
  <2>2. ASSUME NEW k \in Media \ {m} PROVE InPhase(clips'[k], download'[k], followed'[k], mishaps')
    BY <1>3, <2>1 DEF InPhase
  <2>3. InPhase(clips'[m], download'[m], followed'[m], mishaps')
    BY <1>3
  <2> QED BY <1>1, <1>3, <2>1, <2>2, <2>3, PhasesAreNext
<1>7. TodosApart' /\ ListingsCover' /\ SinceCovers' /\ DownloadedByOneJob'
  BY <1>4 DEF SyncInv, TodosApart, ListingsCover, SinceCovers, DownloadedByOneJob
<1>8. RowsAreQueued' /\ SyncsGoOn'
  BY <1>4 DEF SyncInv, RowsAreQueued, SyncsGoOn
<1> QED BY <1>5, <1>6, <1>7, <1>8 DEF SyncInv

\* Most of them leave the row and the follow-up alone.
LEMMA DownloadOnlyMoves ==
    ASSUME SyncInv, NEW m \in Media, download[m].pc # "none",
           NEW d \in DownloadRecord, d.pc # "none",
           download' = [download EXCEPT ![m] = d],
           UNCHANGED <<uploaded, tables, sync, enqueued, followed>>,
           mishaps \subseteq mishaps', mishaps' \subseteq Mishaps,
           InPhase(clips[m], d, followed[m], mishaps')
    PROVE  SyncInv'
<1>1. clips[m] \in ClipRows \ {"none"} /\ followed[m] \in 0..2
  BY DEF SyncInv, TypeOK, Phases
<1>2. clips' = [clips EXCEPT ![m] = clips[m]] /\ followed' = [followed EXCEPT ![m] = followed[m]]
  BY DEF SyncInv, TypeOK, tables
<1>3. UNCHANGED <<uploaded, lastSync, enabled, sync, enqueued>>
  BY DEF tables
<1> QED BY <1>1, <1>2, <1>3, DownloadMoves

LEMMA DownloadJobStep ==
    ASSUME SyncInv, NEW m \in Media, DownloadStep(m) \/ DownloadCutOff(m)
    PROVE  SyncInv'
<1>1. /\ download \in [Media -> DownloadRecord] /\ download[m] \in DownloadRecord
      /\ clips \in [Media -> ClipRows] /\ followed \in [Media -> 0..2]
      /\ mishaps \subseteq Mishaps
  BY DEF SyncInv, TypeOK, DownloadRecord
<1>2. /\ InPhase(clips[m], download[m], followed[m], mishaps)
      /\ download[m].pc # "none" => clips[m] # "none"
  BY PhasesAre DEF SyncInv
<1>3. ASSUME NEW pc \in {"queued", "running", "saved", "thumbnail", "followed", "ended"}
      PROVE  LET d == [download[m] EXCEPT !.pc = pc]
             IN  d \in DownloadRecord /\ d.pc = pc /\ d.try = download[m].try
  BY <1>1 DEF DownloadRecord
<1>4. ASSUME NEW pc \in {"queued", "running", "saved", "thumbnail", "followed", "ended"},
             download[m].pc # "none",
             download' = [download EXCEPT ![m] = [download[m] EXCEPT !.pc = pc]],
             UNCHANGED <<uploaded, tables, sync, enqueued, followed>>,
             mishaps \subseteq mishaps', mishaps' \subseteq Mishaps,
             InPhase(clips[m], [download[m] EXCEPT !.pc = pc], followed[m], mishaps')
      PROVE  SyncInv'
  BY <1>3, <1>4, DownloadOnlyMoves
<1>5. ASSUME download[m].pc # "none",
             download' = [download EXCEPT ![m].pc = "ended"],
             UNCHANGED <<uploaded, tables, sync, enqueued, followed>>,
             mishaps \subseteq mishaps', mishaps' \subseteq Mishaps,
             clips[m] = "pending" \/ followed[m] = 1 \/ "cut_off" \in mishaps'
      PROVE  SyncInv'
  <2>1. InPhase(clips[m], [download[m] EXCEPT !.pc = "ended"], followed[m], mishaps')
    BY <1>2, <1>3, <1>5 DEF InPhase
  <2>2. download' = [download EXCEPT ![m] = [download[m] EXCEPT !.pc = "ended"]]
    BY <1>1, <1>5
  <2> QED BY <1>4, <1>5, <2>1, <2>2
<1>6. CASE SkipDownload(m)
  <2>1. clips[m] = "pending" \/ "cut_off" \in mishaps
    BY <1>2, <1>6 DEF SkipDownload, InPhase
  <2> QED BY <1>1, <1>5, <1>6, <2>1 DEF SkipDownload
<1>7. CASE DownloadEnds(m)
  <2>1. followed[m] = 1
    BY <1>2, <1>7 DEF DownloadEnds, InPhase
  <2> QED BY <1>1, <1>5, <1>7, <2>1 DEF DownloadEnds
<1>8. CASE DownloadCutOff(m)
  <2>1. "cut_off" \in mishaps' /\ mishaps' \subseteq Mishaps /\ mishaps \subseteq mishaps'
    BY <1>1, <1>8 DEF DownloadCutOff, Mishaps
  <2> QED BY <1>5, <1>8, <2>1 DEF DownloadCutOff, InDownload
<1>9. CASE DownloadFails(m)
  <2>1. clips[m] = "pending"
    BY <1>2, <1>9 DEF DownloadFails, InPhase
  <2>2. PICK next \in {Requeued(m), [download[m] EXCEPT !.pc = "ended"]} :
          download' = [download EXCEPT ![m] = next]
    BY <1>9 DEF DownloadFails
  <2>3. CASE next = [download[m] EXCEPT !.pc = "ended"]
    BY <1>1, <1>5, <1>9, <2>1, <2>2, <2>3 DEF DownloadFails
  <2>4. CASE next = [download[m] EXCEPT !.pc = "queued"] /\ download[m].try < MaxTries
    <3>1. InPhase(clips[m], [download[m] EXCEPT !.pc = "queued"], followed[m], mishaps)
      BY <1>2, <1>3, <2>1, <2>4 DEF InPhase
    <3> QED BY <1>1, <1>4, <1>9, <2>2, <2>4, <3>1 DEF DownloadFails
  <2> QED BY <2>2, <2>3, <2>4 DEF Requeued
<1>10. CASE StartDownload(m)
  <2> DEFINE d == [download[m] EXCEPT !.pc = "running", !.try = download[m].try + 1]
  <2>1. download[m].try < MaxTries
    BY <1>2, <1>10 DEF StartDownload, InPhase
  <2>2. d \in DownloadRecord /\ d.pc = "running"
    <3>1. download[m].try + 1 \in 0..MaxTries
      BY <1>1, <2>1, BlinkSyncAssumption DEF DownloadRecord
    <3> QED BY <1>1, <3>1 DEF DownloadRecord
  <2>3. InPhase(clips[m], d, followed[m], mishaps)
    BY <1>2, <1>10, <2>2 DEF StartDownload, InPhase
  <2>4. download' = [download EXCEPT ![m] = d]
    BY <1>1, <1>10 DEF StartDownload
  <2> HIDE DEF d
  <2> QED BY <1>1, <1>10, <2>2, <2>3, <2>4, DownloadOnlyMoves DEF StartDownload
<1>11. CASE SaveDownload(m) \/ SaveThumbnail(m)
  <2> DEFINE d == [download[m] EXCEPT !.pc = IF SaveDownload(m) THEN "saved" ELSE "thumbnail"]
             c == IF SaveDownload(m) THEN "downloaded" ELSE "complete"
  <2>1. d \in DownloadRecord /\ d.pc = IF SaveDownload(m) THEN "saved" ELSE "thumbnail"
    BY <1>1 DEF DownloadRecord
  <2>2. followed[m] = 0
    BY <1>1, <1>2, <1>11 DEF SaveDownload, SaveThumbnail, InPhase
  <2>3. InPhase(c, d, followed[m], mishaps)
    BY <2>1, <2>2 DEF InPhase
  <2>4. /\ download' = [download EXCEPT ![m] = d] /\ clips' = [clips EXCEPT ![m] = c]
        /\ followed' = [followed EXCEPT ![m] = followed[m]]
        /\ UNCHANGED <<uploaded, lastSync, enabled, sync, enqueued, mishaps>>
        /\ download[m].pc # "none"
    BY <1>1, <1>11 DEF SaveDownload, SaveThumbnail
  <2>5. c \in ClipRows \ {"none"} /\ followed[m] \in 0..2
    BY <1>1 DEF ClipRows
  <2> HIDE DEF d, c
  <2> QED BY <1>1, <2>1, <2>3, <2>4, <2>5, DownloadMoves
<1>12. CASE FollowUp(m)
  <2> DEFINE d == [download[m] EXCEPT !.pc = "followed"]
             f == followed[m] + 1
  <2>1. clips[m] = "complete" /\ followed[m] = 0 /\ f = 1 /\ f \in 0..2
    BY <1>2, <1>12 DEF FollowUp, InPhase
  <2>2. d \in DownloadRecord /\ d.pc = "followed"
    BY <1>3
  <2>3. InPhase(clips[m], d, f, mishaps)
    BY <2>1, <2>2 DEF InPhase
  <2>4. /\ download' = [download EXCEPT ![m] = d] /\ clips' = [clips EXCEPT ![m] = clips[m]]
        /\ followed' = [followed EXCEPT ![m] = f]
        /\ UNCHANGED <<uploaded, lastSync, enabled, sync, enqueued, mishaps>>
        /\ download[m].pc # "none"
    BY <1>1, <1>12, <2>1 DEF FollowUp, Bump, tables
  <2>5. clips[m] \in ClipRows \ {"none"}
    BY <2>1 DEF ClipRows
  <2> HIDE DEF d, f
  <2> QED BY <1>1, <2>1, <2>2, <2>3, <2>4, <2>5, DownloadMoves
<1> QED BY <1>6, <1>7, <1>8, <1>9, <1>10, <1>11, <1>12 DEF DownloadStep

-----------------------------------------------------------------------------
(* The commit of a sync, an enqueueing, the surroundings.                  *)

LEMMA EnqueuingType ==
    ASSUME NEW new, NEW auto
    PROVE  LET r == [NoSync EXCEPT !.pc = "enqueuing", !.todo = new, !.auto = auto]
           IN  /\ r.pc = "enqueuing" /\ r.todo = new
               /\ r \in [pc : {"enqueuing"}, since : {{}}, listed : {{}}, todo : {new}, auto : {auto}]
<1>1. NoSync \in [pc : {"none"}, since : {{}}, listed : {{}}, todo : {{}}, auto : {{}}]
  BY DEF NoSync
<1> QED BY <1>1

LEMMA QueuedDownloadType ==
    ASSUME NEW auto \in BOOLEAN
    PROVE  LET d == [NoDownload EXCEPT !.pc = "queued", !.auto = auto]
           IN  d \in DownloadRecord /\ d.pc = "queued" /\ d.try < MaxTries
<1>1. NoDownload \in [pc : {"none"}, try : {0}, auto : BOOLEAN]
  BY DEF NoDownload
<1>2. 0 \in 0..MaxTries /\ 0 < MaxTries
  BY BlinkSyncAssumption
<1> QED BY <1>1, <1>2 DEF DownloadRecord

LEMMA WriteStep ==
    ASSUME SyncInv, NEW s \in Chains, Write(s)
    PROVE  SyncInv'
<1> DEFINE new == NewClips(s)
           r == [NoSync EXCEPT !.pc = "enqueuing", !.todo = new, !.auto = SelectAutoAnalyze(new)]
<1>1. /\ sync \in [Chains -> SyncRecord]
      /\ clips \in [Media -> ClipRows]
      /\ uploaded \subseteq Media
      /\ sync[s].listed \subseteq uploaded
  BY DEF SyncInv, TypeOK, SyncRecord
<1>2. /\ new \subseteq Media /\ new \cap Rows = {}
      /\ SelectAutoAnalyze(new) \subseteq Media
  BY <1>1 DEF NewClips, SelectAutoAnalyze
<1>3. /\ clips' = [m \in Media |-> IF m \in new THEN "pending" ELSE clips[m]]
      /\ lastSync' = uploaded
      /\ sync' = [sync EXCEPT ![s] = r]
      /\ UNCHANGED <<uploaded, enabled, download, enqueued, followed, mishaps>>
  BY <1>2 DEF Write, jobs
<1> HIDE DEF new
<1>4. /\ r.pc = "enqueuing" /\ r.todo = new
      /\ r \in [pc : {"enqueuing"}, since : {{}}, listed : {{}}, todo : {new},
                auto : {SelectAutoAnalyze(new)}]
  BY EnqueuingType
<1> HIDE DEF r
<1>5. /\ clips' \in [Media -> ClipRows]
      /\ \A m \in new : clips'[m] = "pending"
      /\ \A m \in Media \ new : clips'[m] = clips[m]
      /\ Rows' = Rows \cup new
  BY <1>1, <1>2, <1>3 DEF Rows, ClipRows
<1>6. /\ sync'[s] = r
      /\ \A t \in Chains \ {s} : sync'[t] = sync[t]
      /\ sync[s].pc = "listed" /\ sync[s].todo = {}
  BY <1>1, <1>3 DEF Write, SyncInv, TodosApart
<1>7. TypeOK'
  <2>1. \A t \in Chains : sync[t] \in [pc : {"none", "queued", "started", "listed", "enqueuing"},
            since : SUBSET uploaded', listed : SUBSET uploaded', todo : SUBSET Rows', auto : SUBSET Media]
    BY <1>1, <1>3, <1>5 DEF SyncRecord
  <2>2. r \in [pc : {"none", "queued", "started", "listed", "enqueuing"},
            since : SUBSET uploaded', listed : SUBSET uploaded', todo : SUBSET Rows', auto : SUBSET Media]
    BY <1>2, <1>4, <1>5
  <2> QED BY <1>1, <1>3, <1>5, <2>1, <2>2 DEF SyncInv, TypeOK
<1>8. \A m \in new : enqueued[m] = 0 /\ download[m].pc = "none" /\ clips[m] = "none" /\ followed[m] = 0
  BY <1>2 DEF SyncInv, Phases, FollowedOnce, TypeOK, Rows
<1>9. Phases' /\ FollowedOnce'
  <2>1. \A m \in Media :
           /\ InPhase(clips[m], download[m], followed[m], mishaps)
           /\ enqueued[m] = 0 => download[m].pc = "none"
           /\ clips[m] = "none" => enqueued[m] = 0
    BY PhasesAre DEF SyncInv
  <2>2. ASSUME NEW m \in new PROVE InPhase(clips'[m], download'[m], followed'[m], mishaps')
    BY <1>2, <1>3, <1>5, <1>8 DEF InPhase
  <2>3. ASSUME NEW m \in Media \ new PROVE InPhase(clips'[m], download'[m], followed'[m], mishaps')
    BY <1>3, <1>5, <2>1 DEF InPhase
  <2> QED BY <1>3, <1>5, <1>8, <2>1, <2>2, <2>3, PhasesAreNext
<1>10. TodosApart'
  <2>1. \A t \in Chains \ {s} : sync[t].todo \cap new = {}
    BY <1>1, <1>2 DEF SyncRecord
  <2> QED BY <1>3, <1>4, <1>6, <1>8, <2>1 DEF SyncInv, TodosApart
<1>11. ListingsCover'
  BY <1>3, <1>4, <1>5, <1>6 DEF SyncInv, ListingsCover
<1>12. SinceCovers'
  <2>1. mishaps \cap {"gap", "unknown"} = {} => uploaded \subseteq Rows \cup new
    BY <1>6 DEF SyncInv, ListingsCover, new, NewClips
  <2> QED BY <1>3, <1>5, <2>1 DEF SinceCovers
<1>13. RowsAreQueued'
  BY <1>3, <1>4, <1>5, <1>6 DEF SyncInv, RowsAreQueued
<1>14. DownloadedByOneJob' /\ SyncsGoOn'
  BY <1>3, <1>4, <1>6 DEF SyncInv, DownloadedByOneJob, SyncsGoOn
<1> QED BY <1>7, <1>9, <1>10, <1>11, <1>12, <1>13, <1>14 DEF SyncInv

LEMMA EnqueueStep ==
    ASSUME SyncInv, NEW s \in Chains, NEW m \in Media, EnqueueDownload(s, m)
    PROVE  SyncInv'
<1> DEFINE r == [sync[s] EXCEPT !.todo = sync[s].todo \ {m}]
           d == [NoDownload EXCEPT !.pc = "queued", !.auto = m \in sync[s].auto]
<1>1. /\ sync \in [Chains -> SyncRecord]
      /\ clips \in [Media -> ClipRows]
      /\ download \in [Media -> DownloadRecord]
      /\ enqueued \in [Media -> 0..2]
  BY DEF SyncInv, TypeOK, SyncRecord, DownloadRecord
<1>2. sync[s].pc = "enqueuing" /\ m \in sync[s].todo
  BY DEF EnqueueDownload
<1>3. /\ enqueued[m] = 0 /\ download[m].pc = "none" /\ clips[m] = "pending"
      /\ followed[m] # 1 /\ followed[m] <= 1
      /\ \A t \in Chains \ {s} : m \notin sync[t].todo
  <2>1. clips[m] # "none"
    BY <1>1, <1>2 DEF SyncRecord, Rows
  <2> QED BY <1>2, <2>1 DEF SyncInv, TodosApart, Phases, FollowedOnce
<1>4. /\ sync' = [sync EXCEPT ![s] = r]
      /\ download' = [download EXCEPT ![m] = d]
      /\ enqueued' = [enqueued EXCEPT ![m] = 1]
      /\ UNCHANGED <<uploaded, lastSync, clips, enabled, followed, mishaps>>
  BY <1>1, <1>3 DEF EnqueueDownload, Bump, tables
<1>5. /\ r \in SyncRecord /\ r.pc = sync[s].pc /\ r.since = sync[s].since
      /\ r.listed = sync[s].listed /\ r.todo = sync[s].todo \ {m}
  <2>1. sync[s] \in SyncRecord
    BY <1>1
  <2> QED BY <2>1 DEF SyncRecord
<1>6. d \in DownloadRecord /\ d.pc = "queued" /\ d.try < MaxTries
  <2>1. (m \in sync[s].auto) \in BOOLEAN
    OBVIOUS
  <2> QED BY <2>1, QueuedDownloadType
<1> HIDE DEF r, d
<1>7. /\ sync' \in [Chains -> SyncRecord] /\ sync'[s] = r
      /\ \A t \in Chains \ {s} : sync'[t] = sync[t]
      /\ download' \in [Media -> DownloadRecord] /\ download'[m] = d
      /\ enqueued' \in [Media -> 0..2] /\ enqueued'[m] = 1
      /\ \A k \in Media \ {m} : download'[k] = download[k] /\ enqueued'[k] = enqueued[k]
      /\ Rows' = Rows
  BY <1>1, <1>4, <1>5, <1>6 DEF Rows
<1>8. TypeOK'
  BY <1>4, <1>7 DEF SyncInv, TypeOK, SyncRecord, DownloadRecord
<1>9. Phases' /\ FollowedOnce'
  <2>1. \A k \in Media :
           /\ InPhase(clips[k], download[k], followed[k], mishaps)
           /\ enqueued[k] = 0 => download[k].pc = "none"
           /\ clips[k] = "none" => enqueued[k] = 0
    BY PhasesAre DEF SyncInv
  <2>2. InPhase(clips[m], d, followed[m], mishaps)
    BY <1>3, <1>6 DEF InPhase
  <2>3. ASSUME NEW k \in Media PROVE InPhase(clips'[k], download'[k], followed'[k], mishaps')
    BY <1>4, <1>7, <2>1, <2>2 DEF InPhase
  <2> QED BY <1>3, <1>4, <1>7, <2>1, <2>3, PhasesAreNext
<1>10. TodosApart'
  <2>1. \A t \in Chains : sync[t].todo \subseteq Media
    BY <1>1 DEF SyncRecord, Rows
  <2>2. \A t \in Chains : sync'[t].todo \subseteq sync[t].todo \ {m} /\ sync'[t].pc = sync[t].pc
    BY <1>3, <1>5, <1>7
  <2>3. \A t \in Chains : \A k \in sync'[t].todo : enqueued'[k] = 0
    BY <1>7, <2>1, <2>2 DEF SyncInv, TodosApart
  <2> QED BY <2>2, <2>3 DEF SyncInv, TodosApart
<1>11. ListingsCover' /\ SinceCovers' /\ DownloadedByOneJob'
  BY <1>4, <1>5, <1>7 DEF SyncInv, ListingsCover, SinceCovers, DownloadedByOneJob
<1>12. RowsAreQueued'
  BY <1>4, <1>5, <1>7 DEF SyncInv, RowsAreQueued
<1>13. SyncsGoOn'
  BY <1>4, <1>5, <1>7 DEF SyncInv, SyncsGoOn
<1> QED BY <1>8, <1>9, <1>10, <1>11, <1>12, <1>13 DEF SyncInv

LEMMA UploadStep ==
    ASSUME SyncInv, NEW m \in Media, Upload(m)
    PROVE  SyncInv'
<1>1. /\ uploaded' = uploaded \cup {m}
      /\ UNCHANGED <<lastSync, clips, enabled, sync, download, enqueued, followed>>
      /\ Rows' = Rows
      /\ mishaps \subseteq mishaps' /\ mishaps' \subseteq Mishaps
      /\ (\E s \in Chains : sync[s].pc = "listed") => "gap" \in mishaps'
  BY DEF Upload, tables, jobs, Rows, SyncInv, TypeOK, Mishaps
<1>2. TypeOK'
  <2>1. \A s \in Chains : sync[s] \in [pc : {"none", "queued", "started", "listed", "enqueuing"},
            since : SUBSET uploaded', listed : SUBSET uploaded', todo : SUBSET Rows', auto : SUBSET Media]
    BY <1>1 DEF SyncInv, TypeOK
  <2> QED BY <1>1, <2>1 DEF SyncInv, TypeOK
<1>3. Phases' /\ FollowedOnce'
  BY <1>1, PhasesHold DEF jobs
<1>4. TodosApart' /\ ListingsCover' /\ SinceCovers' /\ DownloadedByOneJob'
  BY <1>1 DEF SyncInv, TodosApart, ListingsCover, SinceCovers, DownloadedByOneJob
<1>5. RowsAreQueued' /\ SyncsGoOn'
  BY <1>1 DEF SyncInv, RowsAreQueued, SyncsGoOn
<1> QED BY <1>2, <1>3, <1>4, <1>5 DEF SyncInv

LEMMA ToggleStep ==
    ASSUME SyncInv, ToggleCamera
    PROVE  SyncInv'
<1>1. /\ enabled' \in BOOLEAN
      /\ UNCHANGED <<uploaded, lastSync, clips, sync, download, enqueued, followed, mishaps>>
      /\ Rows' = Rows
  BY DEF ToggleCamera, jobs, Rows, SyncInv, TypeOK
<1>2. TypeOK'
  BY <1>1 DEF SyncInv, TypeOK
<1>3. Phases' /\ FollowedOnce'
  BY <1>1, PhasesHold DEF jobs
<1>4. TodosApart' /\ ListingsCover' /\ SinceCovers' /\ DownloadedByOneJob' /\ RowsAreQueued' /\ SyncsGoOn'
  BY <1>1 DEF SyncInv, TodosApart, ListingsCover, SinceCovers, DownloadedByOneJob, RowsAreQueued, SyncsGoOn
<1> QED BY <1>2, <1>3, <1>4 DEF SyncInv

\* The syncs that were running are gone; a sync that waits stays, and one more
\* is enqueued if there is room.
LEMMA CrashSync ==
    ASSUME SyncInv, WorkerCrash
    PROVE  \A s \in Chains :
             /\ sync'[s] \in {NoSync, NextSync} \/ (sync'[s] = sync[s] /\ ~Running(s))
             /\ sync' \in [Chains -> SyncRecord]
             /\ (\E t \in Chains : sync[t].pc # "none") => \E t \in Chains : sync'[t].pc # "none"
<1> DEFINE broken == [s \in Chains |-> IF Running(s) THEN NoSync ELSE sync[s]]
<1>1. sync \in [Chains -> SyncRecord]
  BY DEF SyncInv, TypeOK, SyncRecord
<1>2. /\ broken \in [Chains -> SyncRecord]
      /\ \A s \in Chains : broken[s] = NoSync \/ (broken[s] = sync[s] /\ ~Running(s))
  BY <1>1, NoSyncType
<1>3. sync' \in Restarted(broken)
  BY DEF WorkerCrash
<1> HIDE DEF broken
<1>4. CASE \E s \in Chains : broken[s].pc = "none" /\ sync' = [broken EXCEPT ![s] = NextSync]
  BY <1>2, <1>4, NoSyncType
<1>5. CASE sync' = broken /\ \A s \in Chains : broken[s].pc # "none"
  BY <1>2, <1>5
<1> QED BY <1>3, <1>4, <1>5 DEF Restarted

\* A download that was under way is run again or given up; that a job was cut
\* off is on record.
LEMMA CrashDownload ==
    ASSUME SyncInv, WorkerCrash, NEW m \in Media
    PROVE  /\ download'[m] \in DownloadRecord
           /\ InPhase(clips[m], download'[m], followed[m], mishaps')
           /\ download'[m].pc = "none" <=> download[m].pc = "none"
<1>1. download[m] \in DownloadRecord /\ mishaps \subseteq mishaps'
  BY DEF SyncInv, TypeOK, DownloadRecord, WorkerCrash
<1>2. /\ InPhase(clips[m], download[m], followed[m], mishaps)
  BY PhasesAre DEF SyncInv
<1>3. download'[m] = IF InDownload(m) THEN Requeued(m) ELSE download[m]
  BY DEF WorkerCrash
<1>4. CASE ~InDownload(m)
  BY <1>1, <1>2, <1>3, <1>4 DEF InPhase
<1>5. CASE InDownload(m)
  <2>1. "cut_off" \in mishaps'
    BY <1>5 DEF WorkerCrash
  <2>2. /\ Requeued(m) \in DownloadRecord
        /\ \/ Requeued(m).pc = "queued" /\ Requeued(m).try < MaxTries
           \/ Requeued(m).pc = "ended"
    BY <1>1 DEF Requeued, DownloadRecord
  <2>3. InPhase(clips[m], Requeued(m), followed[m], mishaps')
    BY <1>2, <2>1, <2>2 DEF InPhase
  <2> QED BY <1>3, <1>5, <2>2, <2>3 DEF InDownload
<1> QED BY <1>4, <1>5

LEMMA CrashStep ==
    ASSUME SyncInv, WorkerCrash
    PROVE  SyncInv'
<1>1. /\ UNCHANGED <<uploaded, lastSync, clips, enabled, enqueued, followed>>
      /\ mishaps \subseteq mishaps' /\ mishaps' \subseteq Mishaps
      /\ Rows' = Rows
      /\ (\E s \in Chains : sync[s].todo # {}) => "cut_off" \in mishaps'
  BY DEF WorkerCrash, tables, Rows, SyncInv, TypeOK, Mishaps
<1>2. \A m \in Media :
         /\ InPhase(clips[m], download[m], followed[m], mishaps)
         /\ enqueued[m] = 0 => download[m].pc = "none"
         /\ clips[m] = "none" => enqueued[m] = 0
  BY PhasesAre DEF SyncInv
<1>3. Phases' /\ FollowedOnce'
  <2>1. ASSUME NEW m \in Media PROVE InPhase(clips'[m], download'[m], followed'[m], mishaps')
    BY <1>1, CrashDownload
  <2>2. ASSUME NEW m \in Media PROVE enqueued[m] = 0 => download'[m].pc = "none"
    BY <1>2, CrashDownload
  <2> QED BY <1>1, <1>2, <2>1, <2>2, PhasesAreNext
<1>4. \A s \in Chains :
         \/ sync'[s] \in SyncRecord /\ sync'[s].pc \in {"none", "queued"} /\ sync'[s].todo = {}
         \/ sync'[s] = sync[s]
  BY CrashSync, NoSyncType
<1>5. TypeOK'
  <2>1. download' \in [Media -> DownloadRecord]
    <3>1. download' = [m \in Media |-> IF InDownload(m) THEN Requeued(m) ELSE download[m]]
      BY DEF WorkerCrash
    <3>2. \A m \in Media : download'[m] \in DownloadRecord
      BY CrashDownload
    <3> QED BY <3>1, <3>2
  <2>2. sync' \in [Chains -> SyncRecord]
    <3>1. CASE Chains = {}
      BY <3>1 DEF WorkerCrash, Restarted
    <3> QED BY <3>1, CrashSync
  <2> QED BY <1>1, <2>1, <2>2 DEF SyncInv, TypeOK, SyncRecord, DownloadRecord
<1>6. TodosApart' /\ ListingsCover' /\ SinceCovers' /\ DownloadedByOneJob'
  BY <1>1, <1>4 DEF SyncInv, TodosApart, ListingsCover, SinceCovers, DownloadedByOneJob
<1>7. RowsAreQueued'
  BY <1>1, <1>4 DEF SyncInv, RowsAreQueued
<1>8. SyncsGoOn'
  <2>1. SyncsGoOn
    BY DEF SyncInv
  <2> QED BY <1>1, <2>1, CrashSync DEF SyncsGoOn
<1> QED BY <1>3, <1>5, <1>6, <1>7, <1>8 DEF SyncInv

-----------------------------------------------------------------------------
LEMMA NextSyncInv == SyncInv /\ [Next]_vars => SyncInv'
<1> SUFFICES ASSUME SyncInv, [Next]_vars PROVE SyncInv'
  OBVIOUS
<1>1. CASE UNCHANGED vars
  <2>1. UNCHANGED <<uploaded, lastSync, clips, enabled, sync, download, enqueued, followed, mishaps>>
    BY <1>1 DEF vars
  <2> QED BY <2>1 DEF SyncInv, TypeOK, TodosApart, ListingsCover, Phases, SinceCovers,
             DownloadedByOneJob, RowsAreQueued, FollowedOnce, SyncsGoOn, Rows
<1>2. ASSUME NEW s \in Chains, SyncNow(s) \/ SyncStep(s) \/ SyncCutOff(s) \/ ChainBreaks(s)
      PROVE  SyncInv'
  BY <1>2, SyncOnlyStep, WriteStep, EnqueueStep DEF SyncStep
<1>3. ASSUME NEW m \in Media, DownloadStep(m) \/ DownloadCutOff(m) \/ Upload(m)
      PROVE  SyncInv'
  BY <1>3, DownloadJobStep, UploadStep
<1>4. CASE WorkerCrash \/ ToggleCamera
  BY <1>4, CrashStep, ToggleStep
<1> QED BY <1>1, <1>2, <1>3, <1>4 DEF Next

\* The tables, the syncs and the downloads always agree as SyncInv says, for
\* any number of overlapping chains of syncs, failures and crashes.
THEOREM SyncsAgree == Spec => []SyncInv
BY InitSyncInv, NextSyncInv, PTL DEF Spec

\* last_sync passes no clip that has no row, unless the clip came in the gap
\* between a listing and its commit or its camera was unknown (sync_blink_account).
THEOREM NothingIsPassedOver == Spec => []SinceCovers
<1>1. SyncInv => SinceCovers
  BY DEF SyncInv
<1> QED BY <1>1, SyncsAgree, PTL

\* However syncs overlap, one job downloads a clip (on_conflict_do_nothing).
THEOREM OneDownload == Spec => []DownloadedByOneJob
<1>1. SyncInv => DownloadedByOneJob
  BY DEF SyncInv
<1> QED BY <1>1, SyncsAgree, PTL

\* Every row has or will have its download, unless its sync was cut off or its
\* chain broke.
THEOREM EveryRowIsQueued == Spec => []RowsAreQueued
<1>1. SyncInv => RowsAreQueued
  BY DEF SyncInv
<1> QED BY <1>1, SyncsAgree, PTL

\* A download hands its clip on once: never twice, and not at all only when a
\* job was cut off.
THEOREM HandedOnOnce == Spec => []FollowedOnce
<1>1. SyncInv => FollowedOnce
  BY DEF SyncInv
<1> QED BY <1>1, SyncsAgree, PTL

\* Unless a chain broke, some sync is always running or due.
THEOREM ASyncIsDue == Spec => []SyncsGoOn
<1>1. SyncInv => SyncsGoOn
  BY DEF SyncInv
<1> QED BY <1>1, SyncsAgree, PTL

-----------------------------------------------------------------------------
(* Refinement of ClipLifecycle: what a step of a sync or of a download is  *)
(* in the life of one clip.                                                *)

\* Nothing happens in it.
LEMMA LifeFrame ==
    ASSUME NEW m \in Media, LifeRow(m)' = LifeRow(m), enqueued'[m] = enqueued[m],
           download'[m].pc = "ended" <=> download[m].pc = "ended"
    PROVE  UNCHANGED Life(m)!vars
BY DEF Life!vars, LifeDownload

\* A download that has been enqueued, and has not ended, is due.
LEMMA LifeDue ==
    ASSUME SyncInv, NEW m \in Media, download[m].pc \notin {"none", "ended"}
    PROVE  enqueued[m] = 1 /\ LifeDownload(m) = "due"
<1>1. enqueued[m] = 1
  BY DEF SyncInv, TypeOK, Phases, DownloadedByOneJob
<1> QED BY <1>1 DEF LifeDownload

\* Steps of a download other than the one that obtains the video leave it due
\* or end it.
LEMMA LifeGoesOn ==
    ASSUME SyncInv, NEW m \in Media, LifeRow(m)' = LifeRow(m), enqueued'[m] = enqueued[m],
           download[m].pc \notin {"none", "ended"}
    PROVE  UNCHANGED Life(m)!vars \/ Life(m)!Next
<1>1. enqueued[m] = 1 /\ LifeDownload(m) = "due"
  BY LifeDue
<1>2. CASE download'[m].pc = "ended"
  BY <1>1, <1>2 DEF LifeDownload, Life!Next, Life!End
<1>3. CASE download'[m].pc # "ended"
  BY <1>3, LifeFrame
<1> QED BY <1>2, <1>3

\* One sync inserts the row: those that hold it already are not new.
LEMMA LifeInserted ==
    ASSUME SyncInv, NEW s \in Chains, Write(s), NEW m \in Media
    PROVE  UNCHANGED Life(m)!vars \/ Life(m)!Next
<1>1. /\ clips'[m] = IF m \in NewClips(s) \ Rows THEN "pending" ELSE clips[m]
      /\ enqueued' = enqueued /\ download' = download
  BY DEF Write, jobs
<1>2. CASE m \in NewClips(s) \ Rows
  <2>1. clips[m] = "none" /\ clips'[m] = "pending"
    BY <1>1, <1>2 DEF Rows
  <2>2. LifeRow(m) = "none" /\ LifeRow(m)' = "pending" /\ LifeDownload(m)' = LifeDownload(m)
    BY <1>1, <2>1 DEF LifeRow, LifeDownload
  <2> QED BY <2>2 DEF Life!Next, Life!Insert
<1>3. CASE m \notin NewClips(s) \ Rows
  BY <1>1, <1>3, LifeFrame DEF LifeRow
<1> QED BY <1>2, <1>3

\* The sync that inserted a row enqueues its download, which is the first.
LEMMA LifeEnqueued ==
    ASSUME SyncInv, NEW s \in Chains, NEW n \in Media, EnqueueDownload(s, n), NEW m \in Media
    PROVE  UNCHANGED Life(m)!vars \/ Life(m)!Next
<1>1. clips' = clips /\ download \in [Media -> DownloadRecord] /\ enqueued \in [Media -> 0..2]
  BY DEF EnqueueDownload, tables, SyncInv, TypeOK, DownloadRecord
<1>2. n \in Rows /\ enqueued[n] = 0
  <2>1. n \in sync[s].todo
    BY DEF EnqueueDownload
  <2>2. sync[s].todo \subseteq Rows
    BY DEF SyncInv, TypeOK
  <2> QED BY <2>1, <2>2 DEF SyncInv, TodosApart
<1>3. /\ download' = [download EXCEPT ![n] = [NoDownload EXCEPT !.pc = "queued",
                                                                !.auto = n \in sync[s].auto]]
      /\ enqueued' = [enqueued EXCEPT ![n] = 1]
  BY <1>2 DEF EnqueueDownload, Bump
<1>4. CASE m = n
  <2>1. clips[m] # "none" /\ enqueued'[m] = 1 /\ download'[m].pc = "queued"
    BY <1>1, <1>2, <1>3, <1>4 DEF Rows, NoDownload
  <2>2. LifeRow(m) # "none" /\ LifeRow(m)' = LifeRow(m)
    BY <1>1, <2>1 DEF LifeRow
  <2>3. LifeDownload(m) = "none" /\ LifeDownload(m)' = "due"
    BY <1>2, <1>4, <2>1 DEF LifeDownload
  <2> QED BY <2>2, <2>3 DEF Life!Next, Life!Enqueue
<1>5. CASE m # n
  <2>1. download'[m] = download[m] /\ enqueued'[m] = enqueued[m] /\ LifeRow(m)' = LifeRow(m)
    BY <1>1, <1>3, <1>5 DEF LifeRow
  <2> QED BY <2>1, LifeFrame
<1> QED BY <1>4, <1>5

\* Only SaveDownload obtains the video, and the row was pending until then.
LEMMA LifeObtained ==
    ASSUME SyncInv, NEW m \in Media, SaveDownload(m)
    PROVE  Life(m)!Next
<1>1. /\ clips \in [Media -> ClipRows] /\ download \in [Media -> DownloadRecord]
      /\ download[m].pc = "running"
  BY DEF SyncInv, TypeOK, DownloadRecord, SaveDownload
<1>2. enqueued[m] = 1 /\ LifeDownload(m) = "due"
  BY <1>1, LifeDue
<1>3. clips[m] = "pending"
  BY <1>1, <1>2 DEF SyncInv, Phases
<1>4. clips'[m] = "downloaded" /\ download'[m].pc = "saved" /\ enqueued' = enqueued
  BY <1>1 DEF SaveDownload
<1>5. LifeRow(m) = "pending" /\ LifeRow(m)' = "downloaded" /\ LifeDownload(m)' = "due"
  BY <1>2, <1>3, <1>4 DEF LifeRow, LifeDownload
<1> QED BY <1>2, <1>5 DEF Life!Next, Life!Obtain

LEMMA LifeDownloads ==
    ASSUME SyncInv, NEW n \in Media, DownloadStep(n) \/ DownloadCutOff(n), NEW m \in Media
    PROVE  UNCHANGED Life(m)!vars \/ Life(m)!Next
<1>1. clips \in [Media -> ClipRows] /\ download \in [Media -> DownloadRecord]
  BY DEF SyncInv, TypeOK, DownloadRecord
<1>2. /\ enqueued' = enqueued
      /\ \E d : download' = [download EXCEPT ![n] = d]
      /\ \E c : clips' = [clips EXCEPT ![n] = c]
      /\ download[n].pc \notin {"none", "ended"}
  <2>1. clips = [clips EXCEPT ![n] = clips[n]]
    BY <1>1
  <2>2. CASE SaveDownload(n) \/ SaveThumbnail(n)
    BY <1>1, <2>2 DEF SaveDownload, SaveThumbnail
  <2>3. CASE SkipDownload(n) \/ StartDownload(n) \/ FollowUp(n) \/ DownloadEnds(n) \/ DownloadCutOff(n)
    BY <1>1, <2>1, <2>3
       DEF SkipDownload, StartDownload, FollowUp, DownloadEnds, DownloadCutOff, InDownload, tables
  <2>4. CASE DownloadFails(n)
    BY <1>1, <2>1, <2>4 DEF DownloadFails, tables
  <2> QED BY <2>2, <2>3, <2>4 DEF DownloadStep
<1>3. CASE m # n
  <2>1. download'[m] = download[m] /\ LifeRow(m)' = LifeRow(m) /\ enqueued'[m] = enqueued[m]
    BY <1>1, <1>2, <1>3 DEF LifeRow
  <2> QED BY <2>1, LifeFrame
<1>4. CASE m = n /\ ~SaveDownload(n)
  <2>1. LifeRow(m)' = LifeRow(m)
    <3>1. CASE SaveThumbnail(n)
      <4>1. clips[m] \in {"downloaded", "complete"} /\ clips'[m] = "complete"
        BY <1>1, <1>4, <3>1 DEF SaveThumbnail, SyncInv, Phases
      <4> QED BY <4>1 DEF LifeRow
    <3>2. CASE ~SaveThumbnail(n)
      BY <1>4, <3>2 DEF DownloadStep, SkipDownload, StartDownload, DownloadFails, FollowUp,
                        DownloadEnds, DownloadCutOff, tables, LifeRow
    <3> QED BY <3>1, <3>2
  <2> QED BY <1>2, <1>4, <2>1, LifeGoesOn
<1> QED BY <1>3, <1>4, LifeObtained

\* A crash of the worker puts a download back into the queue or gives it up.
LEMMA LifeCrash ==
    ASSUME SyncInv, WorkerCrash, NEW m \in Media
    PROVE  UNCHANGED Life(m)!vars \/ Life(m)!Next
<1>1. /\ LifeRow(m)' = LifeRow(m) /\ enqueued'[m] = enqueued[m]
      /\ download'[m] = IF InDownload(m) THEN Requeued(m) ELSE download[m]
  BY DEF WorkerCrash, tables, LifeRow
<1>2. CASE InDownload(m)
  BY <1>1, <1>2, LifeGoesOn DEF InDownload
<1>3. CASE ~InDownload(m)
  BY <1>1, <1>3, LifeFrame
<1> QED BY <1>2, <1>3

LEMMA LifeStep ==
    ASSUME SyncInv, [Next]_vars, NEW m \in Media
    PROVE  UNCHANGED Life(m)!vars \/ Life(m)!Next
<1>1. ASSUME UNCHANGED <<clips, jobs>> PROVE UNCHANGED Life(m)!vars
  BY <1>1, LifeFrame DEF jobs, LifeRow
<1>2. ASSUME NEW s \in Chains, SyncNow(s) \/ SyncStep(s) \/ SyncCutOff(s) \/ ChainBreaks(s)
      PROVE  UNCHANGED Life(m)!vars \/ Life(m)!Next
  <2>1. CASE Write(s) \/ \E n \in Media : EnqueueDownload(s, n)
    BY <2>1, LifeInserted, LifeEnqueued
  <2>2. CASE ~Write(s) /\ ~\E n \in Media : EnqueueDownload(s, n)
    <3>1. UNCHANGED <<clips, jobs>>
      BY <1>2, <2>2 DEF SyncNow, SyncStep, Start, ListMedia, SyncFails, SyncEnds, SyncCutOff,
                        ChainBreaks, tables
    <3> QED BY <1>1, <3>1
  <2> QED BY <2>1, <2>2
<1>3. ASSUME NEW n \in Media, DownloadStep(n) \/ DownloadCutOff(n)
      PROVE  UNCHANGED Life(m)!vars \/ Life(m)!Next
  BY <1>3, LifeDownloads
<1>4. ASSUME (\E n \in Media : Upload(n)) \/ ToggleCamera \/ UNCHANGED vars
      PROVE  UNCHANGED Life(m)!vars
  <2>1. UNCHANGED <<clips, jobs>>
    BY <1>4 DEF Upload, ToggleCamera, vars, tables, jobs
  <2> QED BY <1>1, <2>1
<1>5. CASE WorkerCrash
  BY <1>5, LifeCrash
<1> QED BY <1>2, <1>3, <1>4, <1>5 DEF Next

LEMMA LifeInit == ASSUME Init, NEW m \in Media PROVE Life(m)!Init
BY DEF Init, Life!Init, LifeRow, LifeDownload

\* However syncs overlap, fail and crash, every clip has the life that
\* ClipLifecycle gives it: inserted by one sync, its one download enqueued by
\* that sync, and nothing else to obtain the video (_insert_new_clips, download_clip).
THEOREM SyncImplementsLifecycle == Spec => SyncKeepsLifecycle
<1>1. Init => \A m \in Media : Life(m)!Init
  BY LifeInit
<1>2. SyncInv /\ [Next]_vars =>
        [\A m \in Media : UNCHANGED Life(m)!vars \/ Life(m)!Next]_vars
  BY LifeStep
<1> QED BY <1>1, <1>2, SyncsAgree, PTL DEF Spec, SyncKeepsLifecycle

\* The same of each clip by itself: a behaviour of the syncs is one of its
\* ClipLifecycle.
THEOREM EachClipLives == ASSUME NEW m \in Media PROVE Spec => Life(m)!Spec
<1>1. Init => Life(m)!Init
  BY LifeInit
<1>2. SyncInv /\ [Next]_vars => [Life(m)!Next]_(Life(m)!vars)
  BY LifeStep
<1> QED BY <1>1, <1>2, SyncsAgree, PTL DEF Spec, Life!Spec
===============================================================================
