---------------------------- MODULE ClipAnalysis ----------------------------
(***************************************************************************)
(* The AI analyses of one clip: analyze_clip jobs that call the providers, *)
(* recognise faces and store an Analysis that supersedes the current one,  *)
(* and a household member's report that a person was recognised wrongly.   *)
(*                                                                         *)
(* A job works in one database transaction (READ COMMITTED) that it        *)
(* commits once, at the end, or earlier when a provider call fails; its    *)
(* updates and upserts lock rows until then.  What a transaction has not   *)
(* committed is kept in its own record and nobody else sees it.            *)
(***************************************************************************)
EXTENDS Naturals, FiniteSets, Sequences

CONSTANTS
    Jobs,        \* analyze_clip jobs: automatic, "Analyze now", bulk
    EventTypes,  \* the types of events that analyses list, in any order
    Faces,       \* the faces in the clip's keyframes that resemble the person
    Face,        \* stands for the RecognizedFace row of the clip
    Breach       \* stands for the event of a vehicle approached too closely

ASSUME AnalysisAssumption ==
    /\ IsFiniteSet(EventTypes)
    /\ "report" \notin Jobs
    /\ Face # Breach /\ {Face, Breach} \cap EventTypes = {}

MaxTries == 2

Analyses == Jobs \X (1..MaxTries)
Rows == Analyses \cup EventTypes \cup {Face, Breach}

\* The rows of different tables differ.
ASSUME RowsAssumption == Analyses \cap (EventTypes \cup {Face, Breach}) = {}

VARIABLES
    stored,      \* the analyses committed so far
    current,     \* those of them with is_current
    named,       \* their entities that name the person, by the face matched
    recognized,  \* the faces that the RecognizedFace row came by; {}: no row
    negative,    \* the faces that are kept as negative samples
    job,         \* per job, its local state and its transaction
    report,      \* the report_false_positive request
    lost,        \* has a provider call been made whose ai_usage row was lost?
    mishaps      \* history: the hazards that have occurred so far

vars == <<stored, current, named, recognized, negative, job, report, lost, mishaps>>
tables == <<stored, current, named, recognized, negative>>

Mishaps == {"runs", "report", "cut_off"}
Orders == {s \in UNION {[1..n -> EventTypes] : n \in 0..Cardinality(EventTypes)} :
             \A a, b \in DOMAIN s : a # b => s[a] # s[b]}

PCs == {"new", "queued", "running", "called", "matched", "superseding", "writing",
        "committed", "done"}

JobRecord == [pc : PCs, try : 0..MaxTries, usage : BOOLEAN, seen : SUBSET Faces,
              snap : SUBSET Analyses, alone : BOOLEAN, todo : Seq(Rows), held : SUBSET Rows]

Fresh(pc, n) == [pc |-> pc, try |-> n, usage |-> FALSE, seen |-> {},
                 snap |-> {}, alone |-> FALSE, todo |-> <<>>, held |-> {}]

Id(j) == <<j, job[j].try>>
InWrite(j) == job[j].pc \in {"superseding", "writing"}
Set(j, pc) == [job EXCEPT ![j].pc = pc]

\* The session is closed without a commit: the flushed usage rows are gone.
Leave(j, next) ==
    /\ job' = [job EXCEPT ![j] = next]
    /\ lost' = (lost \/ job[j].usage)

\* What becomes of a job whose worker died.
Retried(j) == IF job[j].try < MaxTries THEN Fresh("queued", job[j].try) ELSE Fresh("done", job[j].try)

-----------------------------------------------------------------------------
(* Up to the write phase                                                   *)

\* After a download, by reanalyze_clip, or by bulk_analyze_clips.
Enqueue(j) ==
    /\ job[j].pc = "new"
    /\ job' = Set(j, "queued")
    /\ UNCHANGED <<tables, report, lost, mishaps>>

Start(j) ==
    /\ job[j].pc = "queued"
    /\ job' = [job EXCEPT ![j].pc = "running", ![j].try = job[j].try + 1]
    /\ UNCHANGED <<tables, report, lost, mishaps>>

\* AI or camera disabled, provider not configured, no keyframes.
Skip(j) ==
    /\ job[j].pc = "running"
    /\ Leave(j, Fresh("done", job[j].try))
    /\ UNCHANGED <<tables, report, mishaps>>

\* Mutant: the usage row of a failed call is flushed like any other.
Tier1FailsFlushed(j) ==
    /\ job[j].pc = "running"
    /\ job' = [job EXCEPT ![j] = Fresh("done", job[j].try)]
    /\ lost' = TRUE
    /\ UNCHANGED <<tables, report, mishaps>>

\* Its usage row is committed at once, before AnalysisSkippedError.
Tier1Fails(j) ==
    /\ job[j].pc = "running"
    /\ job' = [job EXCEPT ![j] = Fresh("done", job[j].try)]
    /\ UNCHANGED <<tables, report, lost, mishaps>>

\* Tier 1 answers; tier 2 is not asked, or answers too, or fails.  A failure
\* commits the usage rows of both; otherwise they are flushed only.
Call(j) ==
    /\ job[j].pc = "running"
    /\ \E flushed \in BOOLEAN : job' = [job EXCEPT ![j].pc = "called", ![j].usage = flushed]
    /\ UNCHANGED <<tables, report, lost, mishaps>>

\* match_faces reads the samples as they are committed now.  A face that is a
\* negative sample is nearer to itself than to any other and never matches;
\* another one of the clip may, or may not: it is at least as near to the
\* negative sample as to the person's.
Match(j) ==
    /\ job[j].pc = "called"
    /\ \E seen \in SUBSET (Faces \ negative) :
         job' = [job EXCEPT ![j].pc = "matched", ![j].seen = seen]
    /\ mishaps' = IF report.pc \in {"examined", "applied"} THEN mishaps \cup {"report"} ELSE mishaps
    /\ UNCHANGED <<tables, report, lost>>

-----------------------------------------------------------------------------
(* Row locks                                                               *)

\* Who holds them: the jobs and the report.
Parties == Jobs \cup {"report"}
Held(t) == IF t = "report" THEN report.held ELSE job[t].held

\* Those of the analyses that name the person.
Naming(as) == {a \in as : \E f \in Faces : <<a, f>> \in named}

\* The rows that a transaction's next statement locks: what it saw as current,
\* the row it upserts, the face row if there is one, the analysis it reverts.
Wanted(t) ==
    IF t = "report" THEN (IF report.pc = "applied" THEN Naming(report.target)
                          ELSE IF report.pc = "examined" /\ recognized # {} THEN {Face} ELSE {})
    ELSE IF job[t].pc = "superseding" THEN job[t].snap
    ELSE IF job[t].pc = "writing" /\ job[t].todo # <<>> THEN {Head(job[t].todo)} ELSE {}

WaitsFor(t, u) == t # u /\ Wanted(t) \cap Held(u) # {}
Unhindered(t) == \A u \in Parties : ~WaitsFor(t, u)

\* Those that t waits for, directly or through others: the least set with the
\* ones that t waits for and the ones that its members wait for.
Ahead(t) ==
    {u \in Parties : \A s \in SUBSET Parties :
       (\A v \in Parties : WaitsFor(t, v) \/ (\E w \in s : WaitsFor(w, v)) => v \in s)
         => u \in s}

\* A cycle of waits, of any length.
Deadlocked(t) == ~Unhindered(t) /\ t \in Ahead(t)

-----------------------------------------------------------------------------
(* The write phase                                                         *)

\* Mutant: one current row is superseded, not all.
SupersedeOne(j) ==
    /\ job[j].pc = "matched"
    /\ \E s \in SUBSET current :
         /\ Cardinality(s) = IF current = {} THEN 0 ELSE 1
         /\ job' = [k \in Jobs |->
              IF k = j THEN [job[j] EXCEPT !.pc = "superseding", !.snap = s,
                                           !.alone = \A i \in Jobs \ {j} : ~InWrite(i)]
              ELSE [job[k] EXCEPT !.alone = job[k].alone /\ ~InWrite(k)]]
    /\ mishaps' = IF \E i \in Jobs \ {j} : InWrite(i) THEN mishaps \cup {"runs"} ELSE mishaps
    /\ UNCHANGED <<tables, report, lost>>

\* The UPDATE of _supersede_current_analysis takes its snapshot.
Supersede(j) ==
    /\ job[j].pc = "matched"
    /\ job' = [k \in Jobs |->
         IF k = j THEN [job[j] EXCEPT !.pc = "superseding", !.snap = current,
                                      !.alone = \A i \in Jobs \ {j} : ~InWrite(i)]
         ELSE [job[k] EXCEPT !.alone = job[k].alone /\ ~InWrite(k)]]
    /\ mishaps' = IF \E i \in Jobs \ {j} : InWrite(i) THEN mishaps \cup {"runs"} ELSE mishaps
    /\ UNCHANGED <<tables, report, lost>>

\* The event of a breach, if there is one, and the face.
BeforeEvents(j) ==
    IF job[j].seen = {} THEN {<<>>, <<Breach>>} ELSE {<<Face>>, <<Breach, Face>>}

\* Mutant: the face is upserted before the events or after them.
UpsertsEitherWay(j) ==
    UNION {{before \o order, order \o before} : before \in BeforeEvents(j), order \in Orders}

\* What a run upserts: these, and then the events in the order in which the
\* provider listed the entities.  (SUSPICIOUS_ACTIVITY comes after them in every
\* run and is left out.)
Upserts(j) == {before \o order : before \in BeforeEvents(j), order \in Orders}

\* Mutant: the superseded rows are committed before the new one is there.
WriteRowCommitting(j) ==
    /\ job[j].pc = "superseding"
    /\ Unhindered(j)
    /\ current' = current \ job[j].snap
    /\ \E todo \in Upserts(j) :
         job' = [job EXCEPT ![j].pc = "writing", ![j].snap = {}, ![j].todo = todo]
    /\ UNCHANGED <<stored, named, recognized, negative, report, lost, mishaps>>

\* It waits for the rows of its snapshot, then locks those still current, and
\* the new row is inserted.
WriteRow(j) ==
    /\ job[j].pc = "superseding"
    /\ Unhindered(j)
    /\ \E todo \in Upserts(j) :
         job' = [job EXCEPT ![j].pc = "writing", ![j].held = job[j].snap \cap current,
                            ![j].snap = {}, ![j].todo = todo]
    /\ UNCHANGED <<tables, report, lost, mishaps>>

Upsert(j) ==
    /\ job[j].pc = "writing" /\ job[j].todo # <<>>
    /\ Unhindered(j)
    /\ job' = [job EXCEPT ![j].todo = Tail(job[j].todo),
                          ![j].held = job[j].held \cup {Head(job[j].todo)}]
    /\ UNCHANGED <<tables, report, lost, mishaps>>

\* The labels are of faces in the first keyframe, the row is of all of them.
Commit(j) ==
    /\ job[j].pc = "writing" /\ job[j].todo = <<>>
    /\ stored' = stored \cup {Id(j)}
    /\ current' = (current \ job[j].held) \cup {Id(j)}
    /\ \E first \in SUBSET job[j].seen : named' = named \cup {Id(j)} \X first
    /\ recognized' = IF job[j].seen = {} THEN recognized ELSE job[j].seen
    /\ job' = [job EXCEPT ![j] = Fresh("committed", job[j].try)]
    /\ UNCHANGED <<negative, report, lost, mishaps>>

\* _maybe_send_alerts enqueues what AlertDelivery models, and the job ends.
Alert(j) ==
    /\ job[j].pc = "committed"
    /\ job' = [job EXCEPT ![j] = Fresh("done", job[j].try)]
    /\ UNCHANGED <<tables, report, lost, mishaps>>

-----------------------------------------------------------------------------
(* Reporting a wrong recognition                                           *)

\* The faces of the clip are examined; the one that resembles the person most
\* is found, or none does any more.
Report ==
    /\ report.pc = "new" /\ recognized # {}
    /\ \E found \in {{}} \cup {{f} : f \in Faces} :
         report' = [report EXCEPT !.pc = "examined", !.captured = found]
    /\ mishaps' = IF \E j \in Jobs : job[j].pc = "matched" \/ InWrite(j)
                  THEN mishaps \cup {"report"} ELSE mishaps
    /\ UNCHANGED <<tables, job, lost>>

\* The RecognizedFace row is deleted; then the current analysis is read.
DeleteFace ==
    /\ report.pc = "examined"
    /\ Unhindered("report")
    /\ Cardinality(current) <= 1
    /\ report' = [report EXCEPT !.pc = "applied", !.target = current,
                                !.held = IF recognized # {} THEN {Face} ELSE {}]
    /\ UNCHANGED <<tables, job, lost, mishaps>>

\* After it scalar_one_or_none finds two current analyses and raises.
ReportFails ==
    /\ report.pc = "examined"
    /\ Unhindered("report")
    /\ Cardinality(current) > 1
    /\ report' = [report EXCEPT !.pc = "failed"]
    /\ UNCHANGED <<tables, job, lost, mishaps>>

\* Mutant: the negative sample is forgotten.
CommitReportForgetful ==
    /\ report.pc = "applied"
    /\ Unhindered("report")
    /\ recognized' = IF Face \in report.held THEN {} ELSE recognized
    /\ named' = named \ (report.target \X Faces)
    /\ report' = [report EXCEPT !.pc = "done", !.held = {}]
    /\ UNCHANGED <<stored, current, negative, job, lost, mishaps>>

\* The label of the analysis that was read is reverted, and all is committed.
CommitReport ==
    /\ report.pc = "applied"
    /\ Unhindered("report")
    /\ negative' = negative \cup report.captured
    /\ recognized' = IF Face \in report.held THEN {} ELSE recognized
    /\ named' = named \ (report.target \X Faces)
    /\ report' = [report EXCEPT !.pc = "done", !.held = {}]
    /\ UNCHANGED <<stored, current, job, lost, mishaps>>

-----------------------------------------------------------------------------
(* Failures                                                                *)

\* Postgres aborts a transaction of a deadlock: the job fails for good.
AbortJob(j) ==
    /\ Deadlocked(j)
    /\ Leave(j, Fresh("done", job[j].try))
    /\ mishaps' = mishaps \cup {"cut_off"}
    /\ UNCHANGED <<tables, report>>

AbortReport ==
    /\ Deadlocked("report")
    /\ report' = [report EXCEPT !.pc = "failed", !.held = {}]
    /\ mishaps' = mishaps \cup {"cut_off"}
    /\ UNCHANGED <<tables, job, lost>>

\* An exception nobody expects, or the timeout: not retried.
JobFails(j) ==
    /\ job[j].pc \notin {"new", "queued", "done"}
    /\ Leave(j, Fresh("done", job[j].try))
    /\ mishaps' = mishaps \cup {"cut_off"}
    /\ UNCHANGED <<tables, report>>

WorkerCrash ==
    /\ \E j \in Jobs : job[j].pc \notin {"new", "queued", "done"}
    /\ job' = [j \in Jobs |-> IF job[j].pc \in {"new", "queued", "done"} THEN job[j]
                               ELSE Retried(j)]
    /\ lost' = (lost \/ \E j \in Jobs : job[j].usage)
    /\ mishaps' = mishaps \cup {"cut_off"}
    /\ UNCHANGED <<tables, report>>

-----------------------------------------------------------------------------
Init ==
    /\ stored = {} /\ current = {} /\ named = {}
    /\ recognized = {} /\ negative = {}
    /\ job = [j \in Jobs |-> Fresh("new", 0)]
    /\ report = [pc |-> "new", captured |-> {}, target |-> {}, held |-> {}]
    /\ lost = FALSE
    /\ mishaps = {}

Step(j) ==
    \/ Start(j) \/ Skip(j) \/ Tier1Fails(j) \/ Call(j) \/ Match(j)
    \/ Supersede(j) \/ WriteRow(j) \/ Upsert(j) \/ Commit(j) \/ Alert(j)
    \/ AbortJob(j)

Next ==
    \/ \E j \in Jobs : Enqueue(j) \/ Step(j) \/ JobFails(j)
    \/ Report \/ DeleteFace \/ ReportFails \/ CommitReport \/ AbortReport
    \/ WorkerCrash

Spec == Init /\ [][Next]_vars

-----------------------------------------------------------------------------
(* Properties                                                              *)

\* What the analyses' transactions leave in the tables and hold while they run.
TypeOK ==
    /\ stored \subseteq Analyses /\ current \subseteq stored /\ named \subseteq stored \X Faces
    /\ recognized \subseteq Faces /\ negative \subseteq Faces /\ lost \in BOOLEAN
    /\ job \in [Jobs -> JobRecord]
    /\ report.pc \in {"new", "examined", "applied", "done", "failed"}
    /\ report.captured \subseteq Faces
    /\ report.target \subseteq Analyses /\ report.held \subseteq Rows
    /\ mishaps \subseteq Mishaps

\* Once a clip has been analysed it always has a current analysis: superseding
\* and inserting are one transaction, whatever overlaps, crashes or aborts.
CurrentKept == stored # {} => current # {}

\* Runs whose write phases do not overlap leave one current analysis
\* (_supersede_current_analysis and the insert after it).
SoleCurrent == "runs" \notin mishaps => Cardinality(current) <= 1

\* What holds of the clip's analyses: there is a current one, and one only.
Consistent == TypeOK /\ CurrentKept /\ SoleCurrent

\* A later run that writes alone supersedes whatever earlier overlaps left.
LoneRunRepairs ==
    [][\A j \in Jobs : InWrite(j) /\ job'[j].pc = "committed" /\ job[j].alone
                         => current' = {Id(j)}]_vars

\* Failed provider calls included, no ai_usage row is lost unless the job ends
\* in an unexpected error, a deadlock or a crash (the eager commit of _call_tier).
UsageKept == "cut_off" \notin mishaps => ~lost

\* The analyses that a report reverted stay reverted, whatever commits around
\* it.  If it met no analysis on its way, the face that it captured names the
\* person no more, now or later: neither the row nor the current analysis
\* (report_false_positive).  Another face of the clip may.
ReportHonoured ==
    report.pc = "done" =>
      /\ Naming(report.target) = {}
      /\ "report" \notin mishaps =>
           report.captured \cap (recognized \cup {f \in Faces : \E a \in current : <<a, f>> \in named}) = {}

\* Do the transactions upsert their events in one common order?
EventsInOrder(S) ==
    \E rank \in [EventTypes -> 1..Cardinality(EventTypes)] :
       \A j \in S \cap Jobs : \A e \in job[j].held, k \in DOMAIN job[j].todo :
          {e, job[j].todo[k]} \subseteq EventTypes => rank[e] < rank[job[j].todo[k]]

\* What can make transactions wait for each other in a cycle of any length.
\* Analyses do so over their events only, and only when the providers listed
\* them in no common order: snapshots, breaches and faces are locked alike by
\* all.  With a report they do so even then, in one way: it has deleted the
\* face that one of them recognised again, and waits for the analysis that one
\* of them supersedes.
DeadlockCauses ==
    \A t \in Parties : Deadlocked(t) /\ EventsInOrder(Ahead(t)) =>
       /\ "report" \in Ahead(t)
       /\ \E j \in Jobs \cap Ahead(t) : Wanted(j) = {Face}
       /\ \E j \in Jobs \cap Ahead(t) : report.target \cap job[j].held # {}

-----------------------------------------------------------------------------
(* The inductive invariant of ReportHonoured.                              *)

\* A job's try is stored once: before its commit nobody knows its analysis.
TriesAreNew ==
    \A a \in stored :
       /\ a[2] <= job[a[1]].try
       /\ a[2] = job[a[1]].try => job[a[1]].pc \in {"committed", "queued", "done"}

HasMatched(j) == job[j].pc = "matched" \/ InWrite(j)

\* A report that meets no analysis finds the tables as it leaves them, and no
\* analysis that comes later has matched the face.
ReportAlone ==
    "report" \notin mishaps =>
      /\ report.pc \in {"examined", "applied"} => \A j \in Jobs : ~HasMatched(j)
      /\ report.pc = "applied" => report.target = current /\ (recognized # {} => Face \in report.held)
      /\ report.pc = "done" =>
           \A f \in report.captured :
             /\ f \in negative /\ f \notin recognized
             /\ \A a \in current : <<a, f>> \notin named
             /\ \A j \in Jobs : HasMatched(j) => f \notin job[j].seen

\* What is reverted is stored, and is not stored again.
Reverted ==
    /\ report.target \subseteq stored
    /\ report.pc = "done" => Naming(report.target) = {}

HonourInv == TriesAreNew /\ ReportAlone /\ Reverted

\* The inductive invariant of DeadlockCauses: only analyses that write and the
\* report hold rows, and what they still want comes after what they have.
UpsertOrder(j) ==
    LET held == job[j].held  todo == job[j].todo
    IN \A k \in DOMAIN todo :
         /\ todo[k] \notin Analyses
         /\ todo[k] = Breach => k = 1 /\ held \subseteq Analyses
         /\ todo[k] = Face =>
              \/ k = 1 /\ held \subseteq Analyses \cup {Breach}
              \/ k = 2 /\ todo[1] = Breach

LocksInv ==
    /\ \A j \in Jobs : job[j].held # {} => job[j].pc = "writing"
    /\ \A j \in Jobs : job[j].pc = "writing" => UpsertOrder(j)
    /\ report.held \subseteq {Face} /\ (report.held # {} => report.pc = "applied")

-----------------------------------------------------------------------------
(* What a comment says and overlapping analyses break                      *)

\* pipeline.py: an Analysis is persisted "superseding any prior current one
\* for the clip"; reads of the current analysis rely on there being one.
AtMostOneCurrent == Cardinality(current) <= 1
=============================================================================
