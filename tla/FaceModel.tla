------------------------------ MODULE FaceModel ------------------------------
(***************************************************************************)
(* The face recognition settings and the check of the chosen model: a      *)
(* request marks the row "downloading" and queues a job, the job loads the *)
(* model for minutes and writes the outcome.  Each has the row as it was   *)
(* when it was read, and a session writes only the columns it changed.     *)
(***************************************************************************)
EXTENDS Naturals, FiniteSets

CONSTANTS
    Packs,        \* a model pack with an execution provider preference
    Pages,        \* slots for requests under way
    Loads         \* slots for download jobs

ASSUME FaceModelAssumption == "none" \notin Packs

VARIABLES
    pack,       \* what is configured
    verdict,    \* model_download_status
    found,      \* model_download_providers: of which pack, or "none"
    page,       \* per slot, the request under way
    load,       \* per slot, the job
    engines,    \* the packs this worker process has loaded
    mixed,      \* history: what is found came of requests and jobs that overlapped
    dropped     \* history: a job was lost or cut off

modelVars == <<pack, verdict, found, page, load, engines, mixed, dropped>>

Verdicts == {"idle", "downloading", "ready", "error"}
NoPage == [pc |-> "off", pack |-> "none", verdict |-> "idle", found |-> "none", to |-> "none"]
NoLoad == [pc |-> "off", try |-> 0, pack |-> "none", verdict |-> "idle", found |-> "none"]

ModelInit ==
    /\ pack \in Packs
    /\ verdict = "idle" /\ found = "none"
    /\ page = [r \in Pages |-> NoPage]
    /\ load = [j \in Loads |-> NoLoad]
    /\ engines = {}
    /\ mixed = FALSE /\ dropped = FALSE

Reading == {r \in Pages : page[r].pc \in {"save", "mark"}}
Loading == {j \in Loads : load[j].pc = "loading"}

\* A session's flush: a column goes out when it is not what was loaded.
Flush(loaded, new, now) == IF new # loaded THEN new ELSE now

-----------------------------------------------------------------------------

\* update_settings_route and verify_model_route read the row.
Open(r, to) ==
    /\ page[r].pc = "off"
    /\ page' = [page EXCEPT ![r] = [pc |-> "save", pack |-> pack, verdict |-> verdict, found |-> found, to |-> to]]
    /\ UNCHANGED <<pack, verdict, found, load, engines, mixed, dropped>>

\* Mutant: the outcome stays when another pack is chosen.
NewVerdictKept(r) == page[r].verdict

NewVerdict(r) == IF page[r].pack # page[r].to THEN "idle" ELSE page[r].verdict
NewFound(r) == IF page[r].pack # page[r].to THEN "none" ELSE page[r].found

\* update_biometrics_settings.
SaveChoice(r) ==
    /\ page[r].pc = "save"
    /\ pack' = Flush(page[r].pack, page[r].to, pack)
    /\ verdict' = Flush(page[r].verdict, NewVerdict(r), verdict)
    /\ found' = Flush(page[r].found, NewFound(r), found)
    /\ page' = [page EXCEPT ![r] = NoPage]
    /\ mixed' = (mixed \/ Reading # {r} \/ Loading # {})
    /\ UNCHANGED <<load, engines, dropped>>

\* verify_model_route: a check already under way is not started again.
AskVerify(r) ==
    /\ page[r].pc = "off" /\ verdict # "downloading"
    /\ page' = [page EXCEPT ![r] = [NoPage EXCEPT !.pc = "mark"]]
    /\ UNCHANGED <<pack, verdict, found, load, engines, mixed, dropped>>

\* start_model_download.
Mark(r) ==
    /\ page[r].pc = "mark"
    /\ verdict' = "downloading"
    /\ page' = [page EXCEPT ![r].pc = "enqueue"]
    /\ mixed' = (mixed \/ Reading # {r} \/ Loading # {})
    /\ UNCHANGED <<pack, found, load, engines, dropped>>

EnqueueLoad(r, j) ==
    /\ page[r].pc = "enqueue" /\ load[j].pc = "off"
    /\ load' = [load EXCEPT ![j].pc = "queued"]
    /\ page' = [page EXCEPT ![r] = NoPage]
    /\ UNCHANGED <<pack, verdict, found, engines, mixed, dropped>>

\* The process ends, the database or Redis is away.
PageFails(r) ==
    /\ page[r].pc # "off"
    /\ dropped' = (dropped \/ page[r].pc = "enqueue")
    /\ page' = [page EXCEPT ![r] = NoPage]
    /\ UNCHANGED <<pack, verdict, found, load, engines, mixed>>

\* download_biometrics_model_job reads the row and ends its transaction.
StartLoad(j) ==
    /\ load[j].pc = "queued"
    /\ load' = [load EXCEPT ![j] =
         [pc |-> "loading", try |-> load[j].try + 1, pack |-> pack, verdict |-> verdict, found |-> found]]
    /\ UNCHANGED <<pack, verdict, found, page, engines, mixed, dropped>>

Alone(j) == Loading = {j} /\ Reading = {}

\* ensure_model_ready returns.  What a load does by itself says again what is
\* true of the row.
LoadEnds(j) ==
    /\ load[j].pc = "loading"
    /\ engines' = engines \cup {load[j].pack}
    /\ verdict' = Flush(load[j].verdict, "ready", verdict)
    /\ found' = Flush(load[j].found, load[j].pack, found)
    /\ load' = [load EXCEPT ![j] = NoLoad]
    /\ mixed' = (mixed \/ ~Alone(j))
    /\ UNCHANGED <<pack, page, dropped>>

\* ModelLoadError.  An engine that was built is not built again.
LoadFails(j) ==
    /\ load[j].pc = "loading" /\ load[j].pack \notin engines
    /\ verdict' = Flush(load[j].verdict, "error", verdict)
    /\ load' = [load EXCEPT ![j] = NoLoad]
    /\ mixed' = (mixed \/ ~Alone(j))
    /\ UNCHANGED <<pack, found, page, engines, dropped>>

\* The job's 300 seconds are over; the thread goes on, and may end well.
LoadTimesOut(j) ==
    /\ load[j].pc = "loading"
    /\ engines' \in {engines, engines \cup {load[j].pack}}
    /\ load' = [load EXCEPT ![j] = NoLoad]
    /\ dropped' = TRUE
    /\ UNCHANGED <<pack, verdict, found, page, mixed>>

\* The worker ends: its jobs are tried again, once.
WorkerEnds ==
    /\ Loading # {}
    /\ engines' = {}
    /\ load' = [j \in Loads |->
         IF j \notin Loading THEN load[j]
         ELSE IF load[j].try < 2 THEN [NoLoad EXCEPT !.pc = "queued", !.try = load[j].try] ELSE NoLoad]
    /\ dropped' = (dropped \/ \E j \in Loading : load[j].try = 2)
    /\ UNCHANGED <<pack, verdict, found, page, mixed>>

ModelNext ==
    \/ \E r \in Pages :
         \/ \E p \in Packs : Open(r, p)
         \/ SaveChoice(r) \/ AskVerify(r) \/ Mark(r) \/ PageFails(r)
         \/ \E j \in Loads : EnqueueLoad(r, j)
    \/ \E j \in Loads : StartLoad(j) \/ LoadEnds(j) \/ LoadFails(j) \/ LoadTimesOut(j)
    \/ WorkerEnds

ModelSpec == ModelInit /\ [][ModelNext]_modelVars

-----------------------------------------------------------------------------

ModelTypeOK ==
    /\ pack \in Packs /\ verdict \in Verdicts /\ found \in Packs \cup {"none"}
    /\ page \in [Pages -> [pc : {"off", "save", "mark", "enqueue"}, pack : Packs \cup {"none"}, verdict : Verdicts,
                           found : Packs \cup {"none"}, to : Packs \cup {"none"}]]
    /\ load \in [Loads -> [pc : {"off", "queued", "loading"}, try : 0 .. 2, pack : Packs \cup {"none"}, verdict : Verdicts,
                           found : Packs \cup {"none"}]]
    /\ engines \subseteq Packs
    /\ mixed \in BOOLEAN /\ dropped \in BOOLEAN

\* "ready" is said, with the providers found, of the very pack that is
\* configured: unless a change of the settings overlapped a job or another
\* request (biometrics/service.py:69-72).
ReadyIsForThisPack == verdict = "ready" /\ ~mixed => found = pack

\* As long as the row says "downloading", which keeps a second check from
\* being queued, a job is queued or running, or about to be queued; unless one
\* was lost before it could say how it ended.
DownloadingIsPending ==
    verdict = "downloading" /\ ~dropped =>
      \/ \E r \in Pages : page[r].pc = "enqueue"
      \/ \E j \in Loads : load[j].pc # "off"

\* What holds of the model: the row does not say what is not so.
ModelInv == ModelTypeOK /\ ReadyIsForThisPack /\ DownloadingIsPending

-----------------------------------------------------------------------------
(* What makes ModelInv inductive.                                          *)

\* What a request and a job hold at each point.
SlotsFit ==
    /\ \A r \in Pages : page[r].pc = "save" => page[r].to \in Packs
    /\ \A j \in Loads :
         /\ load[j].pc = "off" => load[j].try = 0
         /\ load[j].pc = "queued" => load[j].try < 2
         /\ load[j].pc = "loading" => load[j].pack \in Packs

Sees(slot) == slot.pack = pack /\ slot.verdict = verdict /\ slot.found = found

\* As long as nothing overlapped, a request and a job hold the row as it is.
SeenIsCurrent ==
    ~mixed =>
      /\ \A r \in Pages : page[r].pc = "save" => Sees(page[r])
      /\ \A j \in Loads : load[j].pc = "loading" => Sees(load[j])

\* A job that has read "downloading" will write another verdict; one that had
\* read the verdict it comes to leaves the row alone, and is not waited for.
SomeoneWillSay ==
    verdict = "downloading" /\ ~dropped =>
      \/ \E r \in Pages : page[r].pc = "enqueue"
      \/ \E j \in Loads : load[j].pc = "queued"
      \/ \E j \in Loads : load[j].pc = "loading" /\ load[j].verdict = "downloading"

ModelIInv == ModelInv /\ SlotsFit /\ SeenIsCurrent /\ SomeoneWillSay
=============================================================================
