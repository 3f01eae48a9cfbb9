-------------------------- MODULE Recognition_proofs --------------------------
(***************************************************************************)
(* Theorems about what recognises and judges clips: ClipAnalysis for any   *)
(* number of jobs and event types (how many current analyses there are,    *)
(* what is counted of provider calls, what becomes of a report), the AI    *)
(* settings, the face recognition model and the library of faces.          *)
(***************************************************************************)
EXTENDS ClipAnalysis, FaceLibrary, FaceModel, AISettings, SequenceTheorems, FiniteSetTheorems, TLAPS

-----------------------------------------------------------------------------
(* The analyses of a clip                                                  *)

ReportRecord == [pc : {"new", "examined", "applied", "done", "failed"}, captured : SUBSET Faces,
                 target : SUBSET Analyses, held : SUBSET Rows]

\* Tries count up with every start; until a provider has answered there is
\* nothing to be counted.
JobShape(q) ==
    /\ q.pc = "new" => q.try = 0
    /\ q.pc = "queued" => q.try < MaxTries
    /\ q.pc \notin {"new", "queued", "done"} => q.try # 0
    /\ q.pc \in {"new", "queued", "running"} => ~q.usage

Writes(q) == q.pc \in {"superseding", "writing"}

\* A run that writes alone has seen, or holds, every current analysis.
LoneRun(j) ==
    Writes(job[j]) /\ job[j].alone =>
      /\ \A k \in Jobs \ {j} : ~Writes(job[k])
      /\ job[j].pc = "superseding" => job[j].snap = current
      /\ job[j].pc = "writing" => current \subseteq job[j].held

\* The strengthening: without "runs", every run that writes is alone.
AnalysisInv ==
    /\ TypeOK /\ report \in ReportRecord
    /\ \A j \in Jobs : JobShape(job[j]) /\ LoneRun(j)
    /\ stored # {} => current # {}
    /\ "runs" \notin mishaps =>
         /\ \A a, b \in current : a = b
         /\ \A j \in Jobs : Writes(job[j]) => job[j].alone
    /\ "cut_off" \notin mishaps => ~lost

LEMMA AnalysisFacts ==
    ASSUME AnalysisInv
    PROVE  /\ job \in [Jobs -> JobRecord]
           /\ \A j \in Jobs : job[j] \in JobRecord /\ JobShape(job[j])
           /\ stored \subseteq Analyses /\ current \subseteq stored /\ named \subseteq stored \X Faces
           /\ recognized \subseteq Faces /\ negative \subseteq Faces /\ lost \in BOOLEAN
           /\ report \in ReportRecord /\ mishaps \subseteq Mishaps
BY DEF AnalysisInv, TypeOK

LEMMA FreshType ==
    ASSUME NEW pc \in {"new", "queued", "committed", "done"}, NEW n \in 0..MaxTries
    PROVE  /\ Fresh(pc, n) \in JobRecord /\ ~Writes(Fresh(pc, n))
           /\ Fresh(pc, n).pc = pc /\ Fresh(pc, n).try = n /\ ~Fresh(pc, n).usage
<1>1. <<>> \in Seq(Rows)
  BY EmptySeq
<1> QED BY <1>1 DEF Fresh, JobRecord, PCs, Writes

LEMMA AnalysisInit == Init => AnalysisInv
<1> SUFFICES ASSUME Init PROVE AnalysisInv
  OBVIOUS
<1>1. 0 \in 0..MaxTries
  BY DEF MaxTries
<1>2. job \in [Jobs -> JobRecord] /\ \A j \in Jobs : job[j] = Fresh("new", 0)
  BY <1>1, FreshType DEF Init
<1>3. report \in ReportRecord
  BY DEF Init, ReportRecord
<1>4. /\ stored = {} /\ current = {} /\ named = {} /\ mishaps = {}
      /\ recognized = {} /\ negative = {} /\ lost \in BOOLEAN /\ ~lost
  BY DEF Init
<1>5. \A j \in Jobs : JobShape(job[j]) /\ ~Writes(job[j])
  BY <1>1, <1>2, FreshType DEF JobShape, MaxTries
<1>6. TypeOK
  BY <1>2, <1>3, <1>4 DEF TypeOK, ReportRecord
<1> QED BY <1>3, <1>4, <1>5, <1>6 DEF AnalysisInv, LoneRun

\* One job goes on; the tables stay.
LEMMA JobMoves ==
    ASSUME AnalysisInv, NEW j \in Jobs, NEW q \in JobRecord, JobShape(q),
           job' = [job EXCEPT ![j] = q],
           \/ ~Writes(q)
           \/ /\ Writes(job[j]) /\ q.alone = job[j].alone /\ q.pc = "writing"
              /\ job[j].pc = "superseding" => q.held = job[j].snap \cap current
              /\ job[j].pc = "writing" => job[j].held \subseteq q.held,
           lost' \in BOOLEAN,
           mishaps \subseteq mishaps', mishaps' \subseteq Mishaps,
           "cut_off" \notin mishaps' => ~lost',
           UNCHANGED <<tables, report>>
    PROVE  AnalysisInv'
<1>1. /\ job' \in [Jobs -> JobRecord] /\ job'[j] = q
      /\ \A k \in Jobs \ {j} : job'[k] = job[k]
  BY AnalysisFacts
<1>2. UNCHANGED <<stored, current, named, recognized, negative, report>>
  BY DEF tables
<1>3. TypeOK'
  BY <1>1, <1>2, AnalysisFacts DEF TypeOK, ReportRecord
<1>4. \A k \in Jobs : JobShape(job'[k])
  BY <1>1, AnalysisFacts
<1>5. Writes(q) => Writes(job[j]) /\ q.alone = job[j].alone
  OBVIOUS
<1>6. ASSUME NEW k \in Jobs PROVE LoneRun(k)'
  <2> SUFFICES ASSUME Writes(job'[k]), job'[k].alone
               PROVE  /\ \A i \in Jobs \ {k} : ~Writes(job'[i])
                      /\ job'[k].pc = "superseding" => job'[k].snap = current
                      /\ job'[k].pc = "writing" => current \subseteq job'[k].held
    BY <1>2 DEF LoneRun, Writes
  <2>1. Writes(job[k]) /\ job[k].alone
    BY <1>1, <1>5
  <2>2. /\ \A i \in Jobs \ {k} : ~Writes(job[i])
        /\ job[k].pc = "superseding" => job[k].snap = current
        /\ job[k].pc = "writing" => current \subseteq job[k].held
    BY <2>1 DEF AnalysisInv, LoneRun
  <2>3. \A i \in Jobs \ {k} : ~Writes(job'[i])
    BY <1>1, <1>5, <2>2
  <2>4. CASE k = j
    <3>1. q.pc = "writing" /\ current \subseteq q.held
      BY <1>1, <2>1, <2>2, <2>4 DEF Writes
    <3> QED BY <1>1, <2>3, <2>4, <3>1
  <2>5. CASE k # j
    BY <1>1, <2>2, <2>3, <2>5
  <2> QED BY <2>4, <2>5
<1>7. ASSUME "runs" \notin mishaps'
      PROVE  (\A a, b \in current : a = b) /\ \A k \in Jobs : Writes(job'[k]) => job'[k].alone
  BY <1>1, <1>5, <1>7 DEF AnalysisInv
<1>8. stored # {} => current # {}
  BY DEF AnalysisInv
<1> QED BY <1>2, <1>3, <1>4, <1>6, <1>7, <1>8, AnalysisFacts DEF AnalysisInv, Writes

\* The report goes on; the analyses stay.
LEMMA ReportMoves ==
    ASSUME AnalysisInv, report' \in ReportRecord, named' \subseteq named,
           recognized' \subseteq Faces, negative' \subseteq Faces,
           mishaps \subseteq mishaps', mishaps' \subseteq Mishaps,
           UNCHANGED <<stored, current, job, lost>>
    PROVE  AnalysisInv'
<1>1. TypeOK'
  BY AnalysisFacts DEF TypeOK, ReportRecord
<1> QED BY <1>1, AnalysisFacts DEF AnalysisInv, LoneRun

LEMMA ReportSteps ==
    ASSUME AnalysisInv, Report \/ DeleteFace \/ ReportFails \/ CommitReport \/ AbortReport
    PROVE  AnalysisInv'
<1>1. report \in ReportRecord /\ current \subseteq Analyses
  BY AnalysisFacts
<1>2. CASE Report
  <2>1. PICK seen \in SUBSET Faces : report' = [report EXCEPT !.pc = "examined", !.captured = seen]
    BY <1>2 DEF Report
  <2>2. report' \in ReportRecord
    BY <1>1, <2>1 DEF ReportRecord
  <2> QED BY <1>2, <2>2, AnalysisFacts, ReportMoves DEF Report, tables, Mishaps
<1>3. CASE DeleteFace
  <2>1. (IF recognized # {} THEN {Face} ELSE {}) \subseteq Rows
    BY DEF Rows
  <2>2. report' \in ReportRecord
    BY <1>1, <1>3, <2>1 DEF DeleteFace, ReportRecord
  <2> QED BY <1>3, <2>2, AnalysisFacts, ReportMoves DEF DeleteFace, tables
<1>4. CASE ReportFails
  <2>1. report' \in ReportRecord
    BY <1>1, <1>4 DEF ReportFails, ReportRecord
  <2> QED BY <1>4, <2>1, AnalysisFacts, ReportMoves DEF ReportFails, tables
<1>5. CASE CommitReport
  <2>1. report' \in ReportRecord /\ report.captured \subseteq Faces
    BY <1>1, <1>5 DEF CommitReport, ReportRecord
  <2> QED BY <1>5, <2>1, AnalysisFacts, ReportMoves DEF CommitReport
<1>6. CASE AbortReport
  <2>1. report' \in ReportRecord
    BY <1>1, <1>6 DEF AbortReport, ReportRecord
  <2> QED BY <1>6, <2>1, AnalysisFacts, ReportMoves DEF AbortReport, tables, Mishaps
<1> QED BY <1>2, <1>3, <1>4, <1>5, <1>6

-----------------------------------------------------------------------------
(* The steps of a job.                                                     *)

\* Before its write phase, and after it.
LEMMA QuietSteps ==
    ASSUME AnalysisInv, NEW j \in Jobs,
           \/ Enqueue(j) \/ Start(j) \/ Skip(j) \/ Tier1Fails(j) \/ Call(j) \/ Match(j)
           \/ Alert(j) \/ AbortJob(j) \/ JobFails(j)
    PROVE  AnalysisInv'
<1>1. /\ job[j] \in JobRecord /\ JobShape(job[j]) /\ job[j].try \in 0..MaxTries
      /\ job[j].usage \in BOOLEAN /\ job[j].pc \in PCs /\ Id(j) = <<j, job[j].try>>
  BY AnalysisFacts DEF JobRecord, Id
\* The usage that leaves with a job's session.
<1>2. ASSUME job' = [job EXCEPT ![j] = Fresh("done", job[j].try)],
             lost' = lost \/ lost' = (lost \/ job[j].usage),
             UNCHANGED <<tables, report>>,
             mishaps \subseteq mishaps', mishaps' \subseteq Mishaps,
             "cut_off" \in mishaps' \/ lost' = lost \/ ~job[j].usage
      PROVE  AnalysisInv'
  <2> DEFINE q == Fresh("done", job[j].try)
  <2>1. q \in JobRecord /\ ~Writes(q) /\ q.pc = "done"
    BY <1>1, FreshType
  <2>2. JobShape(q)
    BY <2>1 DEF JobShape
  <2>3. lost' \in BOOLEAN /\ ("cut_off" \notin mishaps' => ~lost')
    <3>1. ("cut_off" \notin mishaps => ~lost) /\ lost \in BOOLEAN
      BY AnalysisFacts DEF AnalysisInv
    <3> QED BY <1>1, <1>2, <3>1
  <2> HIDE DEF q
  <2>4. job' = [job EXCEPT ![j] = q]
    BY <1>2 DEF q
  <2> QED BY <1>2, <2>1, <2>2, <2>3, <2>4, JobMoves
\* A phase that leaves the rest of the record alone.
<1>3. ASSUME NEW q \in JobRecord, JobShape(q), ~Writes(q), job' = [job EXCEPT ![j] = q],
             mishaps \subseteq mishaps', mishaps' \subseteq Mishaps,
             UNCHANGED <<tables, report, lost>>
      PROVE  AnalysisInv'
  <2>1. lost' \in BOOLEAN /\ ("cut_off" \notin mishaps' => ~lost')
    BY <1>3, AnalysisFacts DEF AnalysisInv
  <2> QED BY <1>3, <2>1, JobMoves
<1>4. CASE Enqueue(j)
  <2> DEFINE q == [job[j] EXCEPT !.pc = "queued"]
  <2>1. q \in JobRecord /\ q.pc = "queued" /\ q.try = job[j].try /\ q.usage = job[j].usage
    BY <1>1 DEF JobRecord, PCs
  <2>2. JobShape(q) /\ ~Writes(q) /\ job' = [job EXCEPT ![j] = q]
    BY <1>1, <1>4, <2>1 DEF Enqueue, Set, JobShape, Writes, MaxTries
  <2> HIDE DEF q
  <2> QED BY <1>3, <1>4, <2>1, <2>2, AnalysisFacts DEF Enqueue
<1>5. CASE Start(j)
  <2> DEFINE n == job[j].try + 1
             q == [job[j] EXCEPT !.pc = "running", !.try = n]
  <2>1. job[j].pc = "queued" /\ n \in 0..MaxTries /\ n # 0 /\ ~job[j].usage
    BY <1>1, <1>5 DEF Start, JobShape, MaxTries
  <2>2. job' = [job EXCEPT ![j] = q]
    BY <1>5 DEF Start
  <2> HIDE DEF n
  <2>3. q.pc = "running" /\ q.try = n /\ q.usage = job[j].usage /\ q \in JobRecord
    BY <1>1, <2>1 DEF JobRecord, PCs
  <2>4. JobShape(q) /\ ~Writes(q)
    BY <2>1, <2>3 DEF JobShape, Writes
  <2> HIDE DEF q
  <2> QED BY <1>3, <1>5, <2>2, <2>3, <2>4, AnalysisFacts DEF Start
<1>6. CASE Skip(j)
  <2>1. ~job[j].usage
    BY <1>1, <1>6 DEF Skip, JobShape
  <2> QED BY <1>2, <1>6, <2>1, AnalysisFacts DEF Skip, Leave
<1>7. CASE Tier1Fails(j)
  BY <1>2, <1>7, AnalysisFacts DEF Tier1Fails
<1>8. CASE Call(j)
  <2>1. PICK flushed \in BOOLEAN : job' = [job EXCEPT ![j].pc = "called", ![j].usage = flushed]
    BY <1>8 DEF Call
  <2> DEFINE q == [job[j] EXCEPT !.pc = "called", !.usage = flushed]
  <2>2. q.pc = "called" /\ q.try = job[j].try /\ q \in JobRecord /\ job[j].pc = "running"
    BY <1>1, <1>8 DEF Call, JobRecord, PCs
  <2>3. JobShape(q) /\ ~Writes(q) /\ job' = [job EXCEPT ![j] = q]
    BY <1>1, <2>1, <2>2 DEF JobShape, Writes
  <2> HIDE DEF q
  <2> QED BY <1>3, <1>8, <2>2, <2>3, AnalysisFacts DEF Call
<1>9. CASE Match(j)
  <2>1. PICK seen \in SUBSET Faces : job' = [job EXCEPT ![j].pc = "matched", ![j].seen = seen]
    BY <1>9 DEF Match
  <2> DEFINE q == [job[j] EXCEPT !.pc = "matched", !.seen = seen]
  <2>2. q.pc = "matched" /\ q.try = job[j].try /\ q \in JobRecord /\ job[j].pc = "called"
    BY <1>1, <1>9 DEF Match, JobRecord, PCs
  <2>3. JobShape(q) /\ ~Writes(q) /\ job' = [job EXCEPT ![j] = q]
    BY <1>1, <2>1, <2>2 DEF JobShape, Writes
  <2>4. mishaps \subseteq mishaps' /\ mishaps' \subseteq Mishaps
    BY <1>9, AnalysisFacts DEF Match, Mishaps
  <2> HIDE DEF q
  <2> QED BY <1>3, <1>9, <2>2, <2>3, <2>4 DEF Match
<1>10. CASE Alert(j)
  BY <1>2, <1>10, AnalysisFacts DEF Alert
<1>11. CASE AbortJob(j) \/ JobFails(j)
  <2>1. "cut_off" \in mishaps' /\ mishaps \subseteq mishaps' /\ mishaps' \subseteq Mishaps
    BY <1>11, AnalysisFacts DEF AbortJob, JobFails, Mishaps
  <2> QED BY <1>2, <1>11, <2>1, AnalysisFacts DEF AbortJob, JobFails, Leave
<1> QED BY <1>4, <1>5, <1>6, <1>7, <1>8, <1>9, <1>10, <1>11

\* What a run has to upsert: first the event of a breach, then the face, then
\* events of other types.
LEMMA UpsertsAreRows ==
    ASSUME NEW j \in Jobs, NEW todo, todo \in Upserts(j)
    PROVE  /\ todo \in Seq(Rows)
           /\ \A k \in DOMAIN todo :
                /\ todo[k] \notin Analyses
                /\ todo[k] = Breach => k = 1
                /\ todo[k] = Face => k = 1 \/ (k = 2 /\ todo[1] = Breach)
<1>1. PICK front \in BeforeEvents(j), order \in Orders : todo = front \o order
  BY DEF Upserts
<1>2. PICK n \in Nat : order \in [1..n -> EventTypes]
  <2>1. order \in Orders
    BY <1>1
  <2>2. PICK m \in 0..Cardinality(EventTypes) : order \in [1..m -> EventTypes]
    BY <2>1 DEF Orders
  <2> QED BY <2>2
<1>3. order \in Seq(EventTypes) /\ order \in Seq(Rows)
  <2>1. EventTypes \subseteq Rows
    BY DEF Rows
  <2>2. order \in [1..n -> Rows]
    BY <1>2, <2>1
  <2> QED BY <1>2, <2>2
<1>4. front \in {<<>>, <<Face>>, <<Breach>>, <<Breach, Face>>}
  BY <1>1 DEF BeforeEvents
<1>5. /\ front \in Seq({Breach, Face}) /\ front \in Seq(Rows) /\ Len(front) \in 0..2
      /\ Len(front) >= 1 => front[1] \in {Breach, Face}
      /\ Len(front) = 2 => front[1] = Breach /\ front[2] = Face
  <2>1. Breach \in Rows /\ Face \in Rows /\ Breach # Face
    BY AnalysisAssumption DEF Rows
  <2>2. CASE front = <<>>
    BY <2>1, <2>2
  <2>3. CASE front = <<Face>>
    BY <2>1, <2>3
  <2>4. CASE front = <<Breach>>
    BY <2>1, <2>4
  <2>5. CASE front = <<Breach, Face>>
    BY <2>1, <2>5
  <2> QED BY <1>4, <2>2, <2>3, <2>4, <2>5
<1>6. todo = front \o order
  BY <1>1
<1>7. /\ todo \in Seq(Rows) /\ Len(todo) = Len(front) + Len(order)
      /\ \A k \in 1..Len(front) + Len(order) :
           todo[k] = IF k <= Len(front) THEN front[k] ELSE order[k - Len(front)]
  BY <1>3, <1>5, <1>6, ConcatProperties
<1>8. Len(order) \in Nat /\ DOMAIN todo = 1..Len(front) + Len(order)
  BY <1>3, <1>7
<1>9. ASSUME NEW k \in 1..Len(front) + Len(order), k > Len(front) PROVE todo[k] \in EventTypes
  <2>1. k - Len(front) \in 1..Len(order)
    BY <1>5, <1>8, <1>9
  <2>2. order[k - Len(front)] \in EventTypes
    BY <1>3, <2>1, ElementOfSeq
  <2> QED BY <1>5, <1>7, <1>9, <2>2
<1>10. ASSUME NEW k \in 1..Len(front) + Len(order)
      PROVE  /\ todo[k] \notin Analyses
             /\ todo[k] = Breach => k = 1
             /\ todo[k] = Face => k = 1 \/ (k = 2 /\ todo[1] = Breach)
  <2>1. CASE k > Len(front)
    BY <1>9, <2>1, AnalysisAssumption, RowsAssumption
  <2>2. CASE ~(k > Len(front))
    <3>1. k \in 1..Len(front) /\ 1 \in 1..Len(front) /\ 1 \in 1..Len(front) + Len(order)
      BY <1>5, <1>8, <2>2
    <3>2. todo[k] = front[k] /\ todo[1] = front[1]
      BY <1>5, <1>7, <3>1
    <3>3. front[k] \in {Breach, Face}
      BY <1>5, <3>1, ElementOfSeq
    <3>4. front[k] \notin Analyses
      BY <3>3, RowsAssumption
    <3>5. k = 1 \/ (k = 2 /\ front[1] = Breach /\ front[2] = Face)
      <4>1. Len(front) \in {0, 1, 2} /\ 1 <= k /\ k <= Len(front) /\ k \in Int
        BY <1>5, <3>1
      <4>2. \A m \in {0, 1, 2}, i \in Int : 1 <= i /\ i <= m => i = 1 \/ (i = 2 /\ m = 2)
        OBVIOUS
      <4> QED BY <1>5, <4>1, <4>2
    <3> QED BY <3>2, <3>4, <3>5, AnalysisAssumption
  <2> QED BY <2>1, <2>2
<1> QED BY <1>7, <1>8, <1>10

LEMMA WriteSteps ==
    ASSUME AnalysisInv, NEW j \in Jobs, WriteRow(j) \/ Upsert(j)
    PROVE  AnalysisInv'
<1>1. /\ job[j] \in JobRecord /\ JobShape(job[j]) /\ Writes(job[j])
      /\ UNCHANGED <<tables, report, lost, mishaps>>
  BY AnalysisFacts DEF WriteRow, Upsert, Writes
<1>2. /\ lost' \in BOOLEAN /\ mishaps' \subseteq Mishaps
      /\ "cut_off" \notin mishaps' => ~lost'
  BY <1>1, AnalysisFacts DEF AnalysisInv
<1>3. CASE WriteRow(j)
  <2>1. PICK todo \in Upserts(j) :
          job' = [job EXCEPT ![j].pc = "writing", ![j].held = job[j].snap \cap current,
                             ![j].snap = {}, ![j].todo = todo]
    BY <1>3 DEF WriteRow
  <2> DEFINE q == [job[j] EXCEPT !.pc = "writing", !.held = job[j].snap \cap current,
                                 !.snap = {}, !.todo = todo]
  <2>2. todo \in Seq(Rows)
    BY UpsertsAreRows
  <2>3. job[j].snap \cap current \subseteq Rows
    BY <1>1 DEF JobRecord, Rows
  <2>4. /\ q \in JobRecord /\ q.pc = "writing" /\ q.held = job[j].snap \cap current
        /\ q.alone = job[j].alone /\ q.try = job[j].try
    BY <1>1, <2>2, <2>3 DEF JobRecord, PCs
  <2>5. JobShape(q) /\ job' = [job EXCEPT ![j] = q] /\ job[j].pc = "superseding"
    BY <1>1, <1>3, <2>1, <2>4 DEF JobShape, Writes, WriteRow
  <2> HIDE DEF q
  <2> QED BY <1>1, <1>2, <2>4, <2>5, JobMoves
<1>4. CASE Upsert(j)
  <2> DEFINE q == [job[j] EXCEPT !.todo = Tail(job[j].todo), !.held = job[j].held \cup {Head(job[j].todo)}]
  <2>1. job[j].pc = "writing" /\ job[j].todo # <<>> /\ job[j].todo \in Seq(Rows)
    BY <1>1, <1>4 DEF Upsert, JobRecord
  <2>2. Tail(job[j].todo) \in Seq(Rows) /\ Head(job[j].todo) \in Rows
    BY <2>1, HeadTailProperties
  <2>3. /\ q \in JobRecord /\ q.pc = "writing" /\ job[j].held \subseteq q.held
        /\ q.alone = job[j].alone /\ q.try = job[j].try
    BY <1>1, <2>1, <2>2 DEF JobRecord
  <2>4. JobShape(q) /\ job' = [job EXCEPT ![j] = q]
    BY <1>1, <1>4, <2>1, <2>3 DEF JobShape, Upsert
  <2> HIDE DEF q
  <2> QED BY <1>1, <1>2, <2>1, <2>3, <2>4, JobMoves
<1> QED BY <1>3, <1>4

\* A run enters its write phase: it is alone, or nobody is any more.
LEMMA SupersedeStep ==
    ASSUME AnalysisInv, NEW j \in Jobs, Supersede(j)
    PROVE  AnalysisInv'
<1> DEFINE q == [job[j] EXCEPT !.pc = "superseding", !.snap = current,
                               !.alone = \A i \in Jobs \ {j} : ~InWrite(i)]
           marked(k) == [job[k] EXCEPT !.alone = job[k].alone /\ ~InWrite(k)]
<1>1. job[j] \in JobRecord /\ JobShape(job[j]) /\ job[j].pc = "matched" /\ current \subseteq Analyses
  BY AnalysisFacts DEF Supersede
<1>2. \A i \in Jobs : InWrite(i) = Writes(job[i])
  BY DEF InWrite, Writes
<1>3. /\ q \in JobRecord /\ q.pc = "superseding" /\ q.snap = current /\ q.try = job[j].try
      /\ q.alone = (\A i \in Jobs \ {j} : ~Writes(job[i]))
  <2>1. \A b \in BOOLEAN : /\ [job[j] EXCEPT !.pc = "superseding", !.snap = current, !.alone = b] \in JobRecord
                           /\ [job[j] EXCEPT !.pc = "superseding", !.snap = current, !.alone = b].alone = b
    BY <1>1 DEF JobRecord, PCs
  <2>2. (\A i \in Jobs \ {j} : ~InWrite(i)) \in BOOLEAN
    OBVIOUS
  <2>3. q \in JobRecord /\ q.alone = (\A i \in Jobs \ {j} : ~InWrite(i))
    BY <2>1, <2>2
  <2>4. q.pc = "superseding" /\ q.snap = current /\ q.try = job[j].try
    BY <1>1 DEF JobRecord
  <2>5. (\A i \in Jobs \ {j} : ~InWrite(i)) <=> (\A i \in Jobs \ {j} : ~Writes(job[i]))
    BY <1>2
  <2> QED BY <2>3, <2>4, <2>5
<1>4. ASSUME NEW k \in Jobs
      PROVE  /\ marked(k) \in JobRecord /\ marked(k).pc = job[k].pc /\ marked(k).try = job[k].try
             /\ marked(k).usage = job[k].usage /\ (Writes(job[k]) => ~marked(k).alone)
  <2>1. job[k] \in JobRecord /\ (job[k].alone /\ ~InWrite(k)) \in BOOLEAN
    BY AnalysisFacts
  <2>2. \A b \in BOOLEAN : /\ [job[k] EXCEPT !.alone = b] \in JobRecord
                           /\ [job[k] EXCEPT !.alone = b].pc = job[k].pc
                           /\ [job[k] EXCEPT !.alone = b].try = job[k].try
                           /\ [job[k] EXCEPT !.alone = b].usage = job[k].usage
                           /\ [job[k] EXCEPT !.alone = b].alone = b
    BY <2>1 DEF JobRecord
  <2> QED BY <1>2, <2>1, <2>2
<1>5. job' = [k \in Jobs |-> IF k = j THEN q ELSE marked(k)]
  BY DEF Supersede
<1> HIDE DEF q, marked
<1>6. /\ job' \in [Jobs -> JobRecord] /\ job'[j] = q
      /\ \A k \in Jobs \ {j} : job'[k] = marked(k)
  BY <1>3, <1>4, <1>5
<1>7. /\ mishaps' = (IF \E i \in Jobs \ {j} : Writes(job[i]) THEN mishaps \cup {"runs"} ELSE mishaps)
      /\ UNCHANGED <<stored, current, named, recognized, negative, report, lost>>
  BY <1>2 DEF Supersede, tables
<1>8. mishaps' \subseteq Mishaps
  BY <1>7, AnalysisFacts DEF Mishaps
<1>9. TypeOK'
  BY <1>6, <1>7, <1>8, AnalysisFacts DEF TypeOK, ReportRecord
<1>10. \A k \in Jobs : JobShape(job'[k])
  <2>1. JobShape(q)
    BY <1>1, <1>3 DEF JobShape
  <2>2. \A k \in Jobs : JobShape(marked(k))
    BY <1>4, AnalysisFacts DEF JobShape
  <2> QED BY <1>6, <2>1, <2>2
<1>11. \A k \in Jobs \ {j} : Writes(job'[k]) = Writes(job[k]) /\ (Writes(job'[k]) => ~job'[k].alone)
  BY <1>4, <1>6 DEF Writes
<1>12. \A k \in Jobs : LoneRun(k)'
  BY <1>3, <1>6, <1>7, <1>11 DEF LoneRun, Writes
<1>13. "runs" \notin mishaps' =>
          /\ "runs" \notin mishaps
          /\ \A k \in Jobs : Writes(job'[k]) => job'[k].alone
  BY <1>3, <1>6, <1>7, <1>11
<1>14. "cut_off" \notin mishaps' => "cut_off" \notin mishaps
  BY <1>7
<1> QED BY <1>7, <1>9, <1>10, <1>12, <1>13, <1>14, AnalysisFacts DEF AnalysisInv, Writes

\* The new analysis takes the place of those that the run has locked.
LEMMA CommitStep ==
    ASSUME AnalysisInv, NEW j \in Jobs, Commit(j)
    PROVE  /\ AnalysisInv'
           /\ job[j].alone => current' = {Id(j)}
<1> DEFINE q == Fresh("committed", job[j].try)
<1>1. /\ job[j] \in JobRecord /\ JobShape(job[j]) /\ job[j].pc = "writing" /\ Writes(job[j])
      /\ job[j].try \in 1..MaxTries /\ job[j].seen \subseteq Faces
  BY AnalysisFacts DEF Commit, JobRecord, JobShape, Writes
<1>2. Id(j) \in Analyses
  BY <1>1 DEF Id, Analyses
<1>3. q \in JobRecord /\ ~Writes(q) /\ q.pc = "committed" /\ q.try = job[j].try
  BY <1>1, FreshType
<1>4. JobShape(q)
  BY <1>1, <1>3 DEF JobShape
<1>5. /\ stored' = stored \cup {Id(j)} /\ current' = (current \ job[j].held) \cup {Id(j)}
      /\ \E first \in SUBSET job[j].seen : named' = named \cup {Id(j)} \X first
      /\ recognized' = (IF job[j].seen = {} THEN recognized ELSE job[j].seen)
      /\ job' = [job EXCEPT ![j] = q]
      /\ UNCHANGED <<negative, report, lost, mishaps>>
  BY DEF Commit
<1> HIDE DEF q
<1>6. /\ job' \in [Jobs -> JobRecord] /\ job'[j] = q
      /\ \A k \in Jobs \ {j} : job'[k] = job[k]
  BY <1>3, <1>5, AnalysisFacts
<1>7. TypeOK'
  <2>1. recognized' \subseteq Faces
    BY <1>1, <1>5, AnalysisFacts
  <2>2. stored' \subseteq Analyses /\ current' \subseteq stored'
    BY <1>2, <1>5, AnalysisFacts
  <2>3. named' \subseteq stored' \X Faces
    BY <1>1, <1>5, AnalysisFacts
  <2> QED BY <1>5, <1>6, <2>1, <2>2, <2>3, AnalysisFacts DEF TypeOK, ReportRecord
<1>8. job[j].alone => current' = {Id(j)}
  BY <1>1, <1>5 DEF AnalysisInv, LoneRun
<1>9. ASSUME NEW k \in Jobs PROVE JobShape(job'[k]) /\ LoneRun(k)'
  <2>1. CASE k = j
    BY <1>3, <1>4, <1>6, <2>1 DEF LoneRun
  <2>2. CASE k # j
    \* k is not alone: j writes as well.
    <3>1. job'[k] = job[k] /\ JobShape(job[k])
      BY <1>6, <2>2, AnalysisFacts
    <3>2. ~(Writes(job[k]) /\ job[k].alone)
      BY <1>1, <2>2 DEF AnalysisInv, LoneRun
    <3> QED BY <3>1, <3>2 DEF LoneRun
  <2> QED BY <2>1, <2>2
<1>10. ASSUME "runs" \notin mishaps
       PROVE  (\A a, b \in current' : a = b) /\ \A k \in Jobs : Writes(job'[k]) => job'[k].alone
  <2>1. job[j].alone
    BY <1>1, <1>10 DEF AnalysisInv
  <2> QED BY <1>3, <1>6, <1>8, <1>10, <2>1 DEF AnalysisInv
<1>11. current' # {}
  BY <1>5
<1>12. AnalysisInv'
  BY <1>5, <1>7, <1>9, <1>10, <1>11, AnalysisFacts DEF AnalysisInv, Writes
<1> QED BY <1>8, <1>12

LEMMA CrashStep ==
    ASSUME AnalysisInv, WorkerCrash
    PROVE  AnalysisInv'
<1>1. /\ job' = [j \in Jobs |-> IF job[j].pc \in {"new", "queued", "done"} THEN job[j] ELSE Retried(j)]
      /\ lost' = (lost \/ \E j \in Jobs : job[j].usage)
      /\ mishaps' = mishaps \cup {"cut_off"} /\ UNCHANGED <<tables, report>>
  BY DEF WorkerCrash
<1>2. ASSUME NEW j \in Jobs PROVE job'[j] \in JobRecord /\ JobShape(job'[j]) /\ ~Writes(job'[j])
  <2>1. job[j] \in JobRecord /\ JobShape(job[j]) /\ job[j].try \in 0..MaxTries
    BY AnalysisFacts DEF JobRecord
  <2>2. CASE job[j].pc \in {"new", "queued", "done"}
    BY <1>1, <2>1, <2>2 DEF Writes
  <2>3. CASE job[j].pc \notin {"new", "queued", "done"} /\ job[j].try < MaxTries
    <3> DEFINE q == Fresh("queued", job[j].try)
    <3>1. q \in JobRecord /\ ~Writes(q) /\ q.pc = "queued" /\ q.try = job[j].try /\ ~q.usage
      BY <2>1, FreshType
    <3>2. job'[j] = q
      BY <1>1, <2>3 DEF Retried
    <3> HIDE DEF q
    <3> QED BY <2>3, <3>1, <3>2 DEF JobShape
  <2>4. CASE job[j].pc \notin {"new", "queued", "done"} /\ ~(job[j].try < MaxTries)
    <3> DEFINE q == Fresh("done", job[j].try)
    <3>1. q \in JobRecord /\ ~Writes(q) /\ q.pc = "done"
      BY <2>1, FreshType
    <3>2. job'[j] = q
      BY <1>1, <2>4 DEF Retried
    <3> HIDE DEF q
    <3> QED BY <3>1, <3>2 DEF JobShape
  <2> QED BY <2>2, <2>3, <2>4
<1>3. job' \in [Jobs -> JobRecord]
  <2>1. job' = [j \in Jobs |-> job'[j]]
    BY <1>1
  <2> QED BY <1>2, <2>1
<1>4. lost' \in BOOLEAN /\ mishaps' \subseteq Mishaps
  BY <1>1, AnalysisFacts DEF Mishaps
<1>5. UNCHANGED <<stored, current, named, recognized, negative, report>>
  BY <1>1 DEF tables
<1>6. TypeOK'
  BY <1>3, <1>4, <1>5, AnalysisFacts DEF TypeOK, ReportRecord
<1>7. \A j \in Jobs : LoneRun(j)'
  BY <1>2 DEF LoneRun
<1> QED BY <1>1, <1>2, <1>5, <1>6, <1>7, AnalysisFacts DEF AnalysisInv, Writes

LEMMA AnalysisStep == AnalysisInv /\ [Next]_vars => AnalysisInv'
<1> SUFFICES ASSUME AnalysisInv, [Next]_vars PROVE AnalysisInv'
  OBVIOUS
<1>1. ASSUME NEW j \in Jobs, Enqueue(j) \/ Step(j) \/ JobFails(j) PROVE AnalysisInv'
  BY <1>1, QuietSteps, WriteSteps, SupersedeStep, CommitStep DEF Step
<1>2. CASE Report \/ DeleteFace \/ ReportFails \/ CommitReport \/ AbortReport
  BY <1>2, ReportSteps
<1>3. CASE WorkerCrash
  BY <1>3, CrashStep
<1>4. CASE UNCHANGED vars
  BY <1>4 DEF AnalysisInv, TypeOK, LoneRun, vars
<1> QED BY <1>1, <1>2, <1>3, <1>4 DEF Next

-----------------------------------------------------------------------------

LEMMA AnalysisInvariant == Spec => []AnalysisInv
<1> QED BY AnalysisInit, AnalysisStep, PTL DEF Spec

\* A clip that was analysed keeps a current analysis, and runs whose write
\* phases do not overlap leave one only, whatever crashes, aborts and reports
\* come in between (pipeline.py's _supersede_current_analysis and the insert
\* that follows it in one transaction).
THEOREM ACurrentAnalysis == Spec => []Consistent
<1>1. AnalysisInv => Consistent
  <2> SUFFICES ASSUME AnalysisInv PROVE Consistent
    OBVIOUS
  <2>1. ASSUME \A a, b \in current : a = b PROVE Cardinality(current) <= 1
    <3>1. CASE current = {}
      BY <3>1, FS_EmptySet
    <3>2. CASE current # {}
      <4>1. PICK a \in current : TRUE
        BY <3>2
      <4>2. \A b \in current : b = a
        BY <2>1, <4>1
      <4>3. current = {a}
        BY <4>1, <4>2
      <4>4. Cardinality({a}) = 1
        BY FS_Singleton
      <4> QED BY <4>3, <4>4
    <3> QED BY <3>1, <3>2
  <2> QED BY <2>1 DEF AnalysisInv, Consistent, CurrentKept, SoleCurrent
<1> QED BY <1>1, AnalysisInvariant, PTL

\* The rows that count provider calls are lost with a job that is cut off, and
\* in no other way (pipeline.py's _call_tier commits before it gives up).
THEOREM CallsAreCounted == Spec => []UsageKept
<1>1. AnalysisInv => UsageKept
  BY DEF AnalysisInv, UsageKept
<1> QED BY <1>1, AnalysisInvariant, PTL

\* However many current analyses earlier overlaps left, a run that writes
\* alone leaves its own only (_supersede_current_analysis updates them all).
THEOREM ALoneRunRepairs == Spec => LoneRunRepairs
<1> DEFINE Repairs == \A j \in Jobs : InWrite(j) /\ job'[j].pc = "committed" /\ job[j].alone
                                        => current' = {Id(j)}
<1>1. AnalysisInv /\ [Next]_vars => [Repairs]_vars
  <2> SUFFICES ASSUME AnalysisInv, Next, NEW j \in Jobs,
                      InWrite(j), job'[j].pc = "committed", job[j].alone
               PROVE  current' = {Id(j)}
    OBVIOUS
  <2>1. /\ job[j].pc \in {"superseding", "writing"} /\ job \in [Jobs -> JobRecord]
        /\ job[j].try \in 0..MaxTries
    BY AnalysisFacts DEF InWrite, JobRecord
  <2>2. Commit(j)
    <3>1. ASSUME NEW k \in Jobs, k # j, Enqueue(k) \/ Step(k) \/ JobFails(k) PROVE FALSE
      <4>1. job'[j].pc = job[j].pc
        <5>1. CASE Supersede(k)
          <6>1. job'[j] = [job[j] EXCEPT !.alone = job[j].alone /\ ~InWrite(j)]
            BY <3>1, <5>1 DEF Supersede
          <6>2. job[j] \in JobRecord
            BY <2>1
          <6> QED BY <6>1, <6>2 DEF JobRecord
        <5>2. CASE ~Supersede(k)
          <6>1. job'[j] = job[j]
            BY <2>1, <3>1, <5>2 DEF Enqueue, Set, Step, Start, Skip, Tier1Fails, Call, Match,
                 WriteRow, Upsert, Commit, Alert, AbortJob, JobFails, Leave
          <6> QED BY <6>1
        <5> QED BY <5>1, <5>2
      <4> QED BY <2>1, <4>1
    <3>2. ASSUME Report \/ DeleteFace \/ ReportFails \/ CommitReport \/ AbortReport PROVE FALSE
      BY <2>1, <3>2 DEF Report, DeleteFace, ReportFails, CommitReport, AbortReport
    <3>3. ASSUME WorkerCrash PROVE FALSE
      <4>1. job'[j] = Retried(j)
        BY <2>1, <3>3 DEF WorkerCrash
      <4>2. Retried(j).pc \in {"queued", "done"}
        BY <2>1, FreshType DEF Retried
      <4> QED BY <4>1, <4>2
    <3>4. PICK k \in Jobs : Enqueue(k) \/ Step(k) \/ JobFails(k)
      BY <3>2, <3>3 DEF Next
    <3>5. Enqueue(j) \/ Step(j) \/ JobFails(j)
      BY <3>1, <3>4
    <3>6. ASSUME job' = [job EXCEPT ![j] = Fresh("done", job[j].try)] PROVE FALSE
      BY <2>1, <3>6, FreshType
    <3>7. ~JobFails(j) /\ ~AbortJob(j)
      BY <3>6 DEF JobFails, AbortJob, Leave
    <3>8. ~WriteRow(j) /\ ~Upsert(j)
      <4>1. ASSUME WriteRow(j) PROVE job'[j].pc = "writing"
        <5>1. job[j] \in JobRecord
          BY <2>1
        <5> QED BY <2>1, <4>1, <5>1 DEF WriteRow, JobRecord
      <4>2. ASSUME Upsert(j) PROVE job'[j].pc = "writing"
        <5>1. job[j] \in JobRecord
          BY <2>1
        <5> QED BY <2>1, <4>2, <5>1 DEF Upsert, JobRecord
      <4> QED BY <4>1, <4>2
    <3> QED BY <2>1, <3>5, <3>7, <3>8 DEF Enqueue, Step, Start, Skip, Tier1Fails, Call, Match,
              Supersede, Alert
  <2> QED BY <2>2, CommitStep
<1>2. Spec => [][Repairs]_vars
  BY <1>1, AnalysisInvariant, PTL DEF Spec
<1> QED BY <1>2 DEF LoneRunRepairs

-----------------------------------------------------------------------------
(* Reports                                                                 *)

IsMatched(q) == q.pc \in {"matched", "superseding", "writing"}
Stores(q) == q.pc \in {"committed", "queued", "done"}

\* What a job may do while tables and report stay as they are.
Follows(old, new) ==
    /\ \/ new.try > old.try
       \/ new.try = old.try /\ (Stores(old) => Stores(new))
    /\ IsMatched(new) =>
         \/ IsMatched(old) /\ new.seen = old.seen
         \/ /\ report.pc \in {"examined", "applied"} => "report" \in mishaps'
            /\ new.seen \cap negative = {}

LEMMA HonourBegins == Init => HonourInv
BY DEF Init, HonourInv, TriesAreNew, ReportAlone, Reverted

LEMMA StoredTries ==
    ASSUME AnalysisInv, NEW a \in stored
    PROVE  a[1] \in Jobs /\ a[2] \in Nat /\ job[a[1]].try \in Nat
BY AnalysisFacts DEF Analyses, JobRecord

LEMMA JobsFollow ==
    ASSUME AnalysisInv, HonourInv, AnalysisInv',
           \A j \in Jobs : Follows(job[j], job'[j]),
           mishaps \subseteq mishaps',
           UNCHANGED <<tables, report>>
    PROVE  HonourInv'
<1>1. UNCHANGED <<stored, current, named, recognized, negative, report>>
  BY DEF tables
<1>2. TriesAreNew'
  <2> SUFFICES ASSUME NEW a \in stored
               PROVE  /\ a[2] <= job'[a[1]].try
                      /\ a[2] = job'[a[1]].try => Stores(job'[a[1]])
    BY <1>1 DEF TriesAreNew, Stores
  <2>1. a[1] \in Jobs /\ a[2] \in Nat /\ job[a[1]].try \in Nat
    BY StoredTries
  <2>2. job'[a[1]].try \in Nat
    BY <2>1, AnalysisFacts DEF AnalysisInv, TypeOK, JobRecord
  <2>3. a[2] <= job[a[1]].try /\ (a[2] = job[a[1]].try => Stores(job[a[1]]))
    BY DEF HonourInv, TriesAreNew, Stores
  <2>4. \/ job'[a[1]].try > job[a[1]].try
        \/ job'[a[1]].try = job[a[1]].try /\ (Stores(job[a[1]]) => Stores(job'[a[1]]))
    BY <2>1 DEF Follows
  <2> QED BY <2>1, <2>2, <2>3, <2>4
<1>3. ReportAlone'
  <2> SUFFICES ASSUME "report" \notin mishaps'
               PROVE  /\ report.pc \in {"examined", "applied"} => \A j \in Jobs : ~IsMatched(job'[j])
                      /\ report.pc = "applied" => report.target = current /\ (recognized # {} => Face \in report.held)
                      /\ report.pc = "done" => \A f \in report.captured :
                           /\ f \in negative /\ f \notin recognized /\ \A a \in current : <<a, f>> \notin named
                           /\ \A j \in Jobs : IsMatched(job'[j]) => f \notin job'[j].seen
    BY <1>1 DEF ReportAlone, HasMatched, InWrite, IsMatched
  <2>1. /\ report.pc \in {"examined", "applied"} => \A j \in Jobs : ~IsMatched(job[j])
        /\ report.pc = "applied" => report.target = current /\ (recognized # {} => Face \in report.held)
        /\ report.pc = "done" => \A f \in report.captured :
             /\ f \in negative /\ f \notin recognized /\ \A a \in current : <<a, f>> \notin named
             /\ \A j \in Jobs : IsMatched(job[j]) => f \notin job[j].seen
    BY DEF HonourInv, ReportAlone, HasMatched, InWrite, IsMatched
  <2>2. \A j \in Jobs : IsMatched(job'[j]) =>
             \/ IsMatched(job[j]) /\ job'[j].seen = job[j].seen
             \/ report.pc \notin {"examined", "applied"} /\ job'[j].seen \cap negative = {}
    BY DEF Follows
  <2> QED BY <2>1, <2>2
<1>4. Reverted'
  BY <1>1 DEF HonourInv, Reverted, Naming
<1> QED BY <1>2, <1>3, <1>4 DEF HonourInv

\* One job goes on.
LEMMA OneFollows ==
    ASSUME AnalysisInv, HonourInv, AnalysisInv', NEW j \in Jobs, NEW q,
           job' = [job EXCEPT ![j] = q], Follows(job[j], q),
           mishaps \subseteq mishaps', UNCHANGED <<tables, report>>
    PROVE  HonourInv'
<1>1. \A k \in Jobs : Follows(job[k], job[k])
  BY DEF Follows
<1>2. \A k \in Jobs : job'[k] = IF k = j THEN q ELSE job[k]
  BY AnalysisFacts
<1>3. \A k \in Jobs : Follows(job[k], job'[k])
  BY <1>1, <1>2
<1> QED BY <1>3, JobsFollow

\* A job that ends without a commit, and one that has committed.
LEMMA HonourEnds ==
    ASSUME AnalysisInv, HonourInv, AnalysisInv', NEW j \in Jobs,
           job' = [job EXCEPT ![j] = Fresh("done", job[j].try)],
           mishaps \subseteq mishaps', UNCHANGED <<tables, report>>
    PROVE  HonourInv'
<1> DEFINE q == Fresh("done", job[j].try)
<1>1. q.pc = "done" /\ q.try = job[j].try
  BY DEF Fresh
<1>2. Follows(job[j], q)
  BY <1>1 DEF Follows, IsMatched, Stores
<1> HIDE DEF q
<1>3. job' = [job EXCEPT ![j] = q]
  BY DEF q
<1> QED BY <1>2, <1>3, OneFollows

LEMMA HonourSteps ==
    ASSUME AnalysisInv, HonourInv, AnalysisInv', NEW j \in Jobs,
           \/ Enqueue(j) \/ Start(j) \/ Skip(j) \/ Tier1Fails(j) \/ Call(j) \/ Match(j)
           \/ WriteRow(j) \/ Upsert(j) \/ Alert(j) \/ AbortJob(j) \/ JobFails(j)
    PROVE  HonourInv'
<1>1. job[j] \in JobRecord /\ job[j].try \in 0..MaxTries
  BY AnalysisFacts DEF JobRecord
<1>2. CASE Skip(j) \/ Tier1Fails(j) \/ Alert(j) \/ AbortJob(j) \/ JobFails(j)
  BY <1>2, HonourEnds DEF Skip, Tier1Fails, Alert, AbortJob, JobFails, Leave
<1>3. CASE Enqueue(j)
  <2> DEFINE q == [job[j] EXCEPT !.pc = "queued"]
  <2>1. q.pc = "queued" /\ q.try = job[j].try /\ job' = [job EXCEPT ![j] = q]
    BY <1>1, <1>3 DEF Enqueue, Set, JobRecord
  <2>2. Follows(job[j], q)
    BY <2>1 DEF Follows, IsMatched, Stores
  <2> HIDE DEF q
  <2> QED BY <1>3, <2>1, <2>2, OneFollows DEF Enqueue
<1>4. CASE Start(j)
  <2> DEFINE q == [job[j] EXCEPT !.pc = "running", !.try = job[j].try + 1]
  <2>1. q.pc = "running" /\ q.try = job[j].try + 1 /\ job' = [job EXCEPT ![j] = q]
    BY <1>1, <1>4 DEF Start, JobRecord
  <2>2. Follows(job[j], q)
    BY <1>1, <2>1 DEF Follows, IsMatched
  <2> HIDE DEF q
  <2> QED BY <1>4, <2>1, <2>2, OneFollows DEF Start
<1>5. CASE Call(j)
  <2>1. PICK flushed \in BOOLEAN : job' = [job EXCEPT ![j].pc = "called", ![j].usage = flushed]
    BY <1>5 DEF Call
  <2> DEFINE q == [job[j] EXCEPT !.pc = "called", !.usage = flushed]
  <2>2. q.pc = "called" /\ q.try = job[j].try /\ job' = [job EXCEPT ![j] = q] /\ job[j].pc = "running"
    BY <1>1, <1>5, <2>1 DEF Call, JobRecord
  <2>3. Follows(job[j], q)
    BY <2>2 DEF Follows, IsMatched, Stores
  <2> HIDE DEF q
  <2> QED BY <1>5, <2>2, <2>3, OneFollows DEF Call
<1>6. CASE Match(j)
  <2>1. PICK seen \in SUBSET (Faces \ negative) : job' = [job EXCEPT ![j].pc = "matched", ![j].seen = seen]
    BY <1>6 DEF Match
  <2> DEFINE q == [job[j] EXCEPT !.pc = "matched", !.seen = seen]
  <2>2. /\ q.pc = "matched" /\ q.try = job[j].try /\ q.seen = seen
        /\ job' = [job EXCEPT ![j] = q] /\ job[j].pc = "called"
    BY <1>1, <1>6, <2>1 DEF Match, JobRecord
  <2>3. report.pc \in {"examined", "applied"} => "report" \in mishaps'
    BY <1>6 DEF Match
  <2>4. Follows(job[j], q)
    BY <2>1, <2>2, <2>3 DEF Follows, IsMatched, Stores
  <2>5. mishaps \subseteq mishaps' /\ UNCHANGED <<tables, report>>
    BY <1>6 DEF Match
  <2> HIDE DEF q
  <2> QED BY <2>2, <2>4, <2>5, OneFollows
<1>7. CASE WriteRow(j)
  <2>1. PICK todo \in Upserts(j) :
          job' = [job EXCEPT ![j].pc = "writing", ![j].held = job[j].snap \cap current,
                             ![j].snap = {}, ![j].todo = todo]
    BY <1>7 DEF WriteRow
  <2> DEFINE q == [job[j] EXCEPT !.pc = "writing", !.held = job[j].snap \cap current,
                                 !.snap = {}, !.todo = todo]
  <2>2. /\ q.pc = "writing" /\ q.try = job[j].try /\ q.seen = job[j].seen
        /\ job' = [job EXCEPT ![j] = q] /\ job[j].pc = "superseding"
    BY <1>1, <1>7, <2>1 DEF WriteRow, JobRecord
  <2>3. Follows(job[j], q)
    BY <2>2 DEF Follows, IsMatched, Stores
  <2> HIDE DEF q
  <2> QED BY <1>7, <2>2, <2>3, OneFollows DEF WriteRow
<1>8. CASE Upsert(j)
  <2> DEFINE q == [job[j] EXCEPT !.todo = Tail(job[j].todo), !.held = job[j].held \cup {Head(job[j].todo)}]
  <2>1. /\ q.pc = job[j].pc /\ q.try = job[j].try /\ q.seen = job[j].seen
        /\ job' = [job EXCEPT ![j] = q]
    BY <1>1, <1>8 DEF Upsert, JobRecord
  <2>2. Follows(job[j], q)
    BY <2>1 DEF Follows, IsMatched, Stores
  <2> HIDE DEF q
  <2> QED BY <1>8, <2>1, <2>2, OneFollows DEF Upsert
<1> QED BY <1>2, <1>3, <1>4, <1>5, <1>6, <1>7, <1>8

\* Those that write are marked, and go on as they were.
LEMMA HonourSupersede ==
    ASSUME AnalysisInv, HonourInv, AnalysisInv', NEW j \in Jobs, Supersede(j)
    PROVE  HonourInv'
<1>1. /\ job[j].pc = "matched" /\ mishaps \subseteq mishaps' /\ UNCHANGED <<tables, report>>
      /\ job' = [k \in Jobs |->
           IF k = j THEN [job[j] EXCEPT !.pc = "superseding", !.snap = current,
                                        !.alone = \A i \in Jobs \ {j} : ~InWrite(i)]
           ELSE [job[k] EXCEPT !.alone = job[k].alone /\ ~InWrite(k)]]
  BY DEF Supersede
<1>2. ASSUME NEW k \in Jobs PROVE Follows(job[k], job'[k])
  <2>1. job[k] \in JobRecord
    BY AnalysisFacts
  <2>2. /\ job'[k].try = job[k].try /\ job'[k].seen = job[k].seen
        /\ job'[k].pc = IF k = j THEN "superseding" ELSE job[k].pc
    BY <1>1, <2>1 DEF JobRecord
  <2> QED BY <1>1, <2>2 DEF Follows, IsMatched, Stores
<1> QED BY <1>1, <1>2, JobsFollow

\* An analysis that commits is a new one: what a report reverted stays as it
\* is, and a captured face is not among those that the analysis has matched.
LEMMA HonourCommit ==
    ASSUME AnalysisInv, HonourInv, AnalysisInv', NEW j \in Jobs, Commit(j)
    PROVE  HonourInv'
<1>1. /\ job[j].pc = "writing" /\ job[j].try \in 1..MaxTries /\ named \subseteq stored \X Faces
      /\ report.target \subseteq stored
  BY AnalysisFacts DEF Commit, JobRecord, JobShape, HonourInv, Reverted
<1>2. PICK first \in SUBSET job[j].seen : named' = named \cup {Id(j)} \X first
  BY DEF Commit
<1>3. /\ stored' = stored \cup {Id(j)} /\ current' = (current \ job[j].held) \cup {Id(j)}
      /\ recognized' = (IF job[j].seen = {} THEN recognized ELSE job[j].seen)
      /\ UNCHANGED <<negative, report, mishaps>>
  BY DEF Commit
<1>4. /\ job'[j].pc = "committed" /\ job'[j].try = job[j].try
      /\ \A k \in Jobs \ {j} : job'[k] = job[k]
  BY AnalysisFacts DEF Commit, Fresh
<1>5. Id(j) \notin stored /\ Id(j)[1] = j /\ Id(j)[2] = job[j].try
  BY <1>1 DEF HonourInv, TriesAreNew, Id
<1>6. \A a, f : <<a, f>> \in named' <=> <<a, f>> \in named \/ (a = Id(j) /\ f \in first)
  BY <1>2
<1>7. TriesAreNew'
  <2> SUFFICES ASSUME NEW a \in stored'
               PROVE  /\ a[2] <= job'[a[1]].try
                      /\ a[2] = job'[a[1]].try => job'[a[1]].pc \in {"committed", "queued", "done"}
    BY DEF TriesAreNew
  <2>1. CASE a = Id(j)
    BY <1>1, <1>4, <1>5, <2>1
  <2>2. CASE a \in stored
    <3>1. /\ a[1] \in Jobs
          /\ a[2] <= job[a[1]].try
          /\ a[2] = job[a[1]].try => job[a[1]].pc \in {"committed", "queued", "done"}
      BY <2>2, StoredTries DEF HonourInv, TriesAreNew
    <3> QED BY <1>4, <3>1
  <2> QED BY <1>3, <2>1, <2>2
<1>8. ReportAlone'
  <2> SUFFICES ASSUME "report" \notin mishaps
               PROVE  /\ report.pc \notin {"examined", "applied"}
                      /\ report.pc = "done" => \A f \in report.captured :
                           /\ f \in negative /\ f \notin recognized' /\ \A a \in current' : <<a, f>> \notin named'
                           /\ \A k \in Jobs : IsMatched(job'[k]) => f \notin job'[k].seen
    BY <1>3 DEF ReportAlone, HasMatched, InWrite, IsMatched
  <2>1. /\ report.pc \notin {"examined", "applied"}
        /\ report.pc = "done" => \A f \in report.captured :
             /\ f \in negative /\ f \notin recognized /\ \A a \in current : <<a, f>> \notin named
             /\ \A k \in Jobs : IsMatched(job[k]) => f \notin job[k].seen
    BY <1>1 DEF HonourInv, ReportAlone, HasMatched, InWrite, IsMatched
  <2>2. ASSUME report.pc = "done", NEW f \in report.captured
        PROVE  /\ f \in negative /\ f \notin recognized' /\ \A a \in current' : <<a, f>> \notin named'
               /\ \A k \in Jobs : IsMatched(job'[k]) => f \notin job'[k].seen
    <3>1. /\ f \in negative /\ f \notin recognized /\ \A a \in current : <<a, f>> \notin named
          /\ f \notin job[j].seen /\ f \notin first
      BY <1>1, <2>1, <2>2 DEF IsMatched
    <3>2. <<Id(j), f>> \notin named
      BY <1>1, <1>5
    <3>3. \A a \in current' : <<a, f>> \notin named'
      BY <1>3, <1>6, <3>1, <3>2
    <3>4. \A k \in Jobs : IsMatched(job'[k]) => f \notin job'[k].seen
      BY <1>4, <2>1, <2>2 DEF IsMatched
    <3> QED BY <1>3, <3>1, <3>3, <3>4
  <2> QED BY <2>1, <2>2
<1>9. Reverted'
  <2>1. report.pc = "done" => Naming(report.target)' = {}
    BY <1>1, <1>3, <1>5, <1>6 DEF HonourInv, Reverted, Naming
  <2> QED BY <1>1, <1>3, <2>1 DEF Reverted
<1> QED BY <1>7, <1>8, <1>9 DEF HonourInv

\* The report's own steps.
LEMMA HonourReports ==
    ASSUME AnalysisInv, HonourInv, Report \/ DeleteFace \/ ReportFails \/ CommitReport \/ AbortReport
    PROVE  HonourInv'
<1>1. report \in ReportRecord /\ report.target \subseteq stored /\ current \subseteq stored
  BY AnalysisFacts DEF HonourInv, Reverted
<1>2. TriesAreNew'
  BY DEF HonourInv, TriesAreNew, Report, DeleteFace, ReportFails, CommitReport, AbortReport, tables
<1>3. CASE Report
  <2>1. report'.pc = "examined" /\ report'.target = report.target
    BY <1>1, <1>3 DEF Report, ReportRecord
  <2>2. "report" \notin mishaps' => \A j \in Jobs : ~HasMatched(j)
    BY <1>3 DEF Report, HasMatched
  <2>3. Reverted'
    BY <1>1, <1>3, <2>1 DEF Reverted, Report, tables
  <2> QED BY <1>2, <1>3, <2>1, <2>2, <2>3 DEF HonourInv, ReportAlone, HasMatched, InWrite, Report
<1>4. CASE DeleteFace
  <2>1. /\ report'.pc = "applied" /\ report'.target = current
        /\ recognized # {} => Face \in report'.held
        /\ report.pc = "examined"
    BY <1>1, <1>4 DEF DeleteFace, ReportRecord
  <2>2. Reverted'
    BY <1>1, <1>4, <2>1 DEF Reverted, DeleteFace, tables
  <2> QED BY <1>2, <1>4, <2>1, <2>2 DEF HonourInv, ReportAlone, HasMatched, InWrite, DeleteFace, tables
<1>5. CASE ReportFails \/ AbortReport
  <2>1. report'.pc = "failed" /\ report'.target = report.target /\ UNCHANGED <<stored, named>>
    BY <1>1, <1>5 DEF ReportFails, AbortReport, ReportRecord, tables
  <2> QED BY <1>1, <1>2, <2>1 DEF HonourInv, ReportAlone, Reverted
<1>6. CASE CommitReport
  <2>1. /\ report'.pc = "done" /\ report'.captured = report.captured /\ report'.target = report.target
        /\ report.pc = "applied"
        /\ negative' = negative \cup report.captured
        /\ recognized' = (IF Face \in report.held THEN {} ELSE recognized)
        /\ named' = named \ (report.target \X Faces)
        /\ UNCHANGED <<stored, current, job, mishaps>>
    BY <1>1, <1>6 DEF CommitReport, ReportRecord
  <2>2. ASSUME "report" \notin mishaps
        PROVE  /\ \A j \in Jobs : ~HasMatched(j)
               /\ report.target = current /\ (recognized # {} => Face \in report.held)
    BY <2>1, <2>2 DEF HonourInv, ReportAlone
  <2>3. \A a \in report.target, f \in Faces : <<a, f>> \notin named'
    BY <2>1
  <2>4. ReportAlone'
    <3>1. report.captured \subseteq Faces
      BY <1>1 DEF ReportRecord
    <3> QED BY <2>1, <2>2, <2>3, <3>1 DEF ReportAlone, HasMatched, InWrite
  <2>5. Reverted'
    BY <1>1, <2>1, <2>3 DEF Reverted, Naming
  <2> QED BY <1>2, <2>4, <2>5 DEF HonourInv
<1> QED BY <1>3, <1>4, <1>5, <1>6

LEMMA HonourCrash ==
    ASSUME AnalysisInv, HonourInv, AnalysisInv', WorkerCrash
    PROVE  HonourInv'
<1>1. ASSUME NEW j \in Jobs PROVE Follows(job[j], job'[j])
  <2>1. job'[j] = IF job[j].pc \in {"new", "queued", "done"} THEN job[j] ELSE Retried(j)
    BY DEF WorkerCrash
  <2>2. Retried(j).try = job[j].try /\ Retried(j).pc \in {"queued", "done"}
    BY DEF Retried, Fresh
  <2> QED BY <2>1, <2>2 DEF Follows, IsMatched, Stores
<1>2. mishaps \subseteq mishaps' /\ UNCHANGED <<tables, report>>
  BY DEF WorkerCrash
<1> QED BY <1>1, <1>2, JobsFollow

\* What a report reverted is never labelled again; and if it met no analysis
\* on its way, the negative sample keeps the face it captured from naming the
\* person in any later analysis, retried or overlapping others
\* (biometrics/service.py's report_false_positive).
THEOREM ReportsAreHonoured == Spec => []ReportHonoured
<1>1. AnalysisInv /\ HonourInv /\ [Next]_vars => HonourInv'
  <2> SUFFICES ASSUME AnalysisInv, HonourInv, [Next]_vars PROVE HonourInv'
    OBVIOUS
  <2>1. AnalysisInv'
    BY AnalysisStep
  <2>2. ASSUME NEW j \in Jobs, Enqueue(j) \/ Step(j) \/ JobFails(j) PROVE HonourInv'
    BY <2>1, <2>2, HonourSteps, HonourSupersede, HonourCommit DEF Step
  <2>3. CASE Report \/ DeleteFace \/ ReportFails \/ CommitReport \/ AbortReport
    BY <2>3, HonourReports
  <2>4. CASE WorkerCrash
    BY <2>1, <2>4, HonourCrash
  <2>5. CASE UNCHANGED vars
    BY <2>5 DEF HonourInv, TriesAreNew, ReportAlone, Reverted, Naming, HasMatched, InWrite, vars
  <2> QED BY <2>2, <2>3, <2>4, <2>5 DEF Next
<1>2. HonourInv => ReportHonoured
  BY DEF HonourInv, ReportAlone, Reverted, ReportHonoured
<1> QED BY <1>1, <1>2, HonourBegins, AnalysisInvariant, PTL DEF Spec

-----------------------------------------------------------------------------
(* Row locks                                                               *)

\* What one job does to the rows that it holds and still wants.
Ordered(q) ==
    /\ q.held # {} => q.pc = "writing"
    /\ q.pc = "writing" =>
         \A k \in DOMAIN q.todo :
            /\ q.todo[k] \notin Analyses
            /\ q.todo[k] = Breach => k = 1 /\ q.held \subseteq Analyses
            /\ q.todo[k] = Face =>
                 \/ k = 1 /\ q.held \subseteq Analyses \cup {Breach}
                 \/ k = 2 /\ q.todo[1] = Breach

LEMMA LocksParts ==
    LocksInv <=> /\ \A j \in Jobs : Ordered(job[j])
                 /\ report.held \subseteq {Face} /\ (report.held # {} => report.pc = "applied")
BY DEF LocksInv, UpsertOrder, Ordered

LEMMA LocksOne ==
    ASSUME AnalysisInv, LocksInv, NEW j \in Jobs, NEW q,
           job' = [job EXCEPT ![j] = q], Ordered(q), UNCHANGED report
    PROVE  LocksInv'
<1>1. job'[j] = q /\ \A k \in Jobs \ {j} : job'[k] = job[k]
  BY AnalysisFacts
<1>2. \A k \in Jobs : Ordered(job'[k])
  BY <1>1, LocksParts
<1>3. report'.held \subseteq {Face} /\ (report'.held # {} => report'.pc = "applied")
  BY LocksParts
<1> QED BY <1>2, <1>3 DEF LocksInv, UpsertOrder, Ordered

\* A job that does not write holds nothing.
LEMMA LocksQuiet ==
    ASSUME AnalysisInv, LocksInv, NEW j \in Jobs, NEW q,
           job' = [job EXCEPT ![j] = q], q.held = {}, q.pc # "writing", UNCHANGED report
    PROVE  LocksInv'
BY LocksOne DEF Ordered

LEMMA LocksReports ==
    ASSUME AnalysisInv, LocksInv, Report \/ DeleteFace \/ ReportFails \/ CommitReport \/ AbortReport
    PROVE  LocksInv'
<1>1. /\ report \in ReportRecord /\ report.held \subseteq {Face}
      /\ report.held # {} => report.pc = "applied"
  BY AnalysisFacts, LocksParts
<1>2. UNCHANGED job
  BY DEF Report, DeleteFace, ReportFails, CommitReport, AbortReport
<1>3. report'.held \subseteq {Face} /\ (report'.held # {} => report'.pc = "applied")
  <2>1. CASE Report
    BY <1>1, <2>1 DEF Report, ReportRecord
  <2>2. CASE DeleteFace
    BY <1>1, <2>2 DEF DeleteFace, ReportRecord
  <2>3. CASE ReportFails
    BY <1>1, <2>3 DEF ReportFails, ReportRecord
  <2>4. CASE CommitReport \/ AbortReport
    BY <1>1, <2>4 DEF CommitReport, AbortReport, ReportRecord
  <2> QED BY <2>1, <2>2, <2>3, <2>4
<1> QED BY <1>2, <1>3, LocksParts DEF LocksInv, UpsertOrder, Ordered

\* What a run has upserted precedes what it has still to upsert.
LEMMA LocksUpsert ==
    ASSUME AnalysisInv, LocksInv, NEW j \in Jobs, Upsert(j)
    PROVE  LocksInv'
<1> DEFINE todo == job[j].todo
           q == [job[j] EXCEPT !.todo = Tail(todo), !.held = job[j].held \cup {Head(todo)}]
<1>1. /\ job[j] \in JobRecord /\ job[j].pc = "writing" /\ Ordered(job[j])
      /\ todo \in Seq(Rows) /\ todo # <<>>
      /\ job' = [job EXCEPT ![j] = q] /\ UNCHANGED report
  BY AnalysisFacts, LocksParts DEF Upsert, JobRecord
<1>2. q.pc = "writing" /\ q.todo = Tail(todo) /\ q.held = job[j].held \cup {Head(todo)}
  BY <1>1 DEF JobRecord
<1>3. /\ Head(todo) = todo[1] /\ 1 \in DOMAIN todo
      /\ \A k \in DOMAIN Tail(todo) : /\ k \in Nat \ {0} /\ k + 1 \in DOMAIN todo
                                     /\ Tail(todo)[k] = todo[k + 1]
  <2>1. todo \in Seq(Rows) /\ todo # <<>>
    BY <1>1
  <2> HIDE DEF todo
  <2> QED BY <2>1
<1> HIDE DEF q
<1>4. ASSUME NEW k \in DOMAIN Tail(todo)
      PROVE  /\ Tail(todo)[k] \notin Analyses
             /\ Tail(todo)[k] # Breach
             /\ Tail(todo)[k] = Face => k = 1 /\ q.held \subseteq Analyses \cup {Breach}
  <2>1. k \in Nat \ {0} /\ k + 1 \in DOMAIN todo /\ Tail(todo)[k] = todo[k + 1] /\ 1 \in DOMAIN todo
    BY <1>3
  <2>2. /\ todo[k + 1] \notin Analyses
        /\ todo[k + 1] = Breach => k + 1 = 1
        /\ todo[k + 1] = Face => k + 1 = 1 \/ (k + 1 = 2 /\ todo[1] = Breach)
        /\ todo[1] = Breach => job[j].held \subseteq Analyses
    BY <1>1, <2>1 DEF Ordered
  <2> QED BY <1>2, <1>3, <2>1, <2>2
<1>5. Ordered(q)
  BY <1>2, <1>4 DEF Ordered
<1> QED BY <1>1, <1>5, LocksOne

LEMMA LocksJob ==
    ASSUME AnalysisInv, LocksInv, NEW j \in Jobs, Enqueue(j) \/ Step(j) \/ JobFails(j)
    PROVE  LocksInv'
<1>1. job[j] \in JobRecord /\ Ordered(job[j])
  BY AnalysisFacts, LocksParts
<1>2. CASE Skip(j) \/ Tier1Fails(j) \/ Commit(j) \/ Alert(j) \/ AbortJob(j) \/ JobFails(j)
  <2>1. \A n : /\ Fresh("done", n).held = {} /\ Fresh("done", n).pc # "writing"
               /\ Fresh("committed", n).held = {} /\ Fresh("committed", n).pc # "writing"
    BY DEF Fresh
  <2>2. \/ job' = [job EXCEPT ![j] = Fresh("done", job[j].try)]
        \/ job' = [job EXCEPT ![j] = Fresh("committed", job[j].try)]
    BY <1>2 DEF Skip, Tier1Fails, Commit, Alert, AbortJob, JobFails, Leave
  <2>3. UNCHANGED report
    BY <1>2 DEF Skip, Tier1Fails, Commit, Alert, AbortJob, JobFails
  <2>4. PICK q : job' = [job EXCEPT ![j] = q] /\ q.held = {} /\ q.pc # "writing"
    BY <2>1, <2>2
  <2> QED BY <2>3, <2>4, LocksQuiet, Zenon
<1>3. CASE Enqueue(j)
  <2> DEFINE q == [job[j] EXCEPT !.pc = "queued"]
  <2>1. q.held = {} /\ q.pc = "queued" /\ job' = [job EXCEPT ![j] = q] /\ UNCHANGED report
    BY <1>1, <1>3 DEF Enqueue, Set, JobRecord, Ordered
  <2> HIDE DEF q
  <2> QED BY <2>1, LocksQuiet
<1>4. CASE Start(j)
  <2> DEFINE q == [job[j] EXCEPT !.pc = "running", !.try = job[j].try + 1]
  <2>1. q.held = {} /\ q.pc = "running" /\ job' = [job EXCEPT ![j] = q] /\ UNCHANGED report
    BY <1>1, <1>4 DEF Start, JobRecord, Ordered
  <2> HIDE DEF q
  <2> QED BY <2>1, LocksQuiet
<1>5. CASE Call(j)
  <2>1. PICK flushed \in BOOLEAN : job' = [job EXCEPT ![j].pc = "called", ![j].usage = flushed]
    BY <1>5 DEF Call
  <2> DEFINE q == [job[j] EXCEPT !.pc = "called", !.usage = flushed]
  <2>2. job' = [job EXCEPT ![j] = q] /\ UNCHANGED report /\ job[j].pc = "running"
    BY <1>5, <2>1 DEF Call
  <2>3. q.held = {} /\ q.pc = "called"
    BY <1>1, <2>2 DEF JobRecord, Ordered
  <2> HIDE DEF q
  <2> QED BY <2>2, <2>3, LocksQuiet
<1>6. CASE Match(j)
  <2>1. PICK seen \in SUBSET Faces : job' = [job EXCEPT ![j].pc = "matched", ![j].seen = seen]
    BY <1>6 DEF Match
  <2> DEFINE q == [job[j] EXCEPT !.pc = "matched", !.seen = seen]
  <2>2. job' = [job EXCEPT ![j] = q] /\ UNCHANGED report /\ job[j].pc = "called"
    BY <1>6, <2>1 DEF Match
  <2>3. q.held = {} /\ q.pc = "matched"
    BY <1>1, <2>2 DEF JobRecord, Ordered
  <2> HIDE DEF q
  <2> QED BY <2>2, <2>3, LocksQuiet
<1>7. CASE Supersede(j)
  <2>1. ASSUME NEW k \in Jobs PROVE Ordered(job'[k])
    <3>1. job[k] \in JobRecord /\ Ordered(job[k])
      BY AnalysisFacts, LocksParts
    <3>2. CASE k = j
      <4>1. job'[k].held = job[k].held /\ job'[k].pc = "superseding" /\ job[k].pc = "matched"
        BY <1>7, <3>1, <3>2 DEF Supersede, JobRecord
      <4> QED BY <3>1, <4>1 DEF Ordered
    <3>3. CASE k # j
      <4>1. /\ job'[k].held = job[k].held /\ job'[k].pc = job[k].pc
            /\ job'[k].todo = job[k].todo
        BY <1>7, <3>1, <3>3 DEF Supersede, JobRecord
      <4> QED BY <3>1, <4>1 DEF Ordered
    <3> QED BY <3>2, <3>3
  <2>2. report'.held \subseteq {Face} /\ (report'.held # {} => report'.pc = "applied")
    BY <1>7, LocksParts DEF Supersede
  <2> QED BY <2>1, <2>2 DEF LocksInv, UpsertOrder, Ordered
<1>8. CASE WriteRow(j)
  <2>1. PICK todo \in Upserts(j) :
          job' = [job EXCEPT ![j].pc = "writing", ![j].held = job[j].snap \cap current,
                             ![j].snap = {}, ![j].todo = todo]
    BY <1>8 DEF WriteRow
  <2> DEFINE q == [job[j] EXCEPT !.pc = "writing", !.held = job[j].snap \cap current,
                                 !.snap = {}, !.todo = todo]
  <2>2. /\ q.held = job[j].snap \cap current /\ q.pc = "writing" /\ q.todo = todo
        /\ job[j].snap \subseteq Analyses
    BY <1>1, <2>1 DEF JobRecord
  <2>3. job' = [job EXCEPT ![j] = q] /\ UNCHANGED report
    BY <1>8, <2>1 DEF WriteRow
  <2> HIDE DEF q
  <2>4. Ordered(q)
    BY <2>2, UpsertsAreRows DEF Ordered
  <2> QED BY <2>3, <2>4, LocksOne
<1>9. CASE Upsert(j)
  BY <1>9, LocksUpsert
<1> QED BY <1>2, <1>3, <1>4, <1>5, <1>6, <1>7, <1>8, <1>9 DEF Step

LEMMA LocksStep == AnalysisInv /\ LocksInv /\ [Next]_vars => LocksInv'
<1> SUFFICES ASSUME AnalysisInv, LocksInv, [Next]_vars PROVE LocksInv'
  OBVIOUS
<1>1. CASE Report \/ DeleteFace \/ ReportFails \/ CommitReport \/ AbortReport
  BY <1>1, LocksReports
<1>2. CASE WorkerCrash
  <2>1. \A j \in Jobs : Ordered(job'[j])
    <3>1. \A j \in Jobs : job'[j] = job[j] \/ (job'[j].held = {} /\ job'[j].pc # "writing")
      BY <1>2 DEF WorkerCrash, Retried, Fresh
    <3> QED BY <3>1, LocksParts DEF Ordered
  <2>2. report'.held \subseteq {Face} /\ (report'.held # {} => report'.pc = "applied")
    BY <1>2, LocksParts DEF WorkerCrash
  <2> QED BY <2>1, <2>2 DEF LocksInv, UpsertOrder, Ordered
<1>3. CASE UNCHANGED vars
  BY <1>3 DEF vars, LocksInv, UpsertOrder
<1> QED BY <1>1, <1>2, <1>3, LocksJob DEF Next

LEMMA LocksInvariant == Spec => [](AnalysisInv /\ LocksInv)
<1>1. Init => LocksInv
  BY DEF Init, Fresh, LocksInv
<1> QED BY <1>1, AnalysisInit, AnalysisStep, LocksStep, PTL DEF Spec

-----------------------------------------------------------------------------
(* Cycles of waits                                                         *)

LEMMA AheadIsClosed ==
    ASSUME NEW t \in Parties
    PROVE  /\ Ahead(t) \subseteq Parties
           /\ \A v \in Parties : WaitsFor(t, v) => v \in Ahead(t)
           /\ \A u \in Ahead(t), v \in Parties : WaitsFor(u, v) => v \in Ahead(t)
<1>1. Ahead(t) \subseteq Parties
  BY DEF Ahead
<1>2. ASSUME NEW v \in Parties, WaitsFor(t, v) \/ \E u \in Ahead(t) : WaitsFor(u, v)
      PROVE  v \in Ahead(t)
  <2>1. ASSUME NEW s \in SUBSET Parties,
               \A x \in Parties : WaitsFor(t, x) \/ (\E w \in s : WaitsFor(w, x)) => x \in s
        PROVE  v \in s
    <3>1. Ahead(t) \subseteq s
      BY <2>1 DEF Ahead
    <3> QED BY <1>2, <2>1, <3>1
  <2> QED BY <2>1 DEF Ahead
<1> QED BY <1>1, <1>2

\* What holds of those that t waits for, and is handed on by whoever waits,
\* holds of everybody ahead.
LEMMA AheadIsLeast ==
    ASSUME NEW t \in Parties, NEW S \in SUBSET Ahead(t),
           \A v \in Ahead(t) : WaitsFor(t, v) => v \in S,
           \A u \in S, v \in Ahead(t) : WaitsFor(u, v) => v \in S
    PROVE  S = Ahead(t)
<1>1. S \in SUBSET Parties /\ \A u \in S : u \in Ahead(t)
  BY AheadIsClosed
<1>2. \A v \in Parties : WaitsFor(t, v) \/ (\E w \in S : WaitsFor(w, v)) => v \in S
  BY <1>1, AheadIsClosed
<1>3. Ahead(t) \subseteq S
  BY <1>1, <1>2 DEF Ahead
<1> QED BY <1>3

\* Whoever is ahead holds a row: an analysis among them is writing, and waits
\* for the row that it upserts next.
LEMMA AheadHolds ==
    ASSUME AnalysisInv, LocksInv, NEW t \in Parties, NEW u \in Ahead(t)
    PROVE  /\ Held(u) # {}
           /\ u = "report" => report.pc = "applied" /\ Wanted(u) \subseteq report.target
           /\ u # "report" =>
                /\ u \in Jobs /\ job[u].pc = "writing" /\ Ordered(job[u])
                /\ Wanted(u) = IF job[u].todo # <<>> THEN {Head(job[u].todo)} ELSE {}
<1>1. {v \in Ahead(t) : Held(v) # {}} = Ahead(t)
  <2> DEFINE S == {v \in Ahead(t) : Held(v) # {}}
  <2>1. \A x, v : WaitsFor(x, v) => Held(v) # {}
    BY DEF WaitsFor
  <2>2. S \in SUBSET Ahead(t)
    OBVIOUS
  <2>3. \A v \in Ahead(t) : WaitsFor(t, v) => v \in S
    BY <2>1
  <2>4. \A x \in S, v \in Ahead(t) : WaitsFor(x, v) => v \in S
    BY <2>1
  <2> HIDE DEF S
  <2>5. S = Ahead(t)
    BY <2>2, <2>3, <2>4, AheadIsLeast
  <2> QED BY <2>5 DEF S
<1>2. Held(u) # {} /\ u \in Parties
  BY <1>1, AheadIsClosed
<1>3. CASE u = "report"
  <2>1. report.pc = "applied"
    BY <1>2, <1>3, LocksParts DEF Held
  <2> QED BY <1>2, <1>3, <2>1 DEF Wanted, Naming
<1>4. CASE u # "report"
  <2>1. u \in Jobs /\ job[u].pc = "writing" /\ Ordered(job[u])
    BY <1>2, <1>4, LocksParts DEF Held, Parties, Ordered
  <2> QED BY <1>2, <1>4, <2>1 DEF Wanted
<1> QED BY <1>3, <1>4

\* The place of a row in the order in which runs lock them.
Place(rank, r) ==
    IF r \in Analyses THEN 0 ELSE IF r = Breach THEN 1 ELSE IF r = Face THEN 2 ELSE 2 + rank[r]

LEMMA RowsAscend ==
    ASSUME AnalysisInv, LocksInv, NEW rank \in [EventTypes -> 1..Cardinality(EventTypes)],
           NEW j \in Jobs, job[j].pc = "writing", job[j].todo # <<>>, Ordered(job[j]),
           \A e \in job[j].held, k \in DOMAIN job[j].todo :
              {e, job[j].todo[k]} \subseteq EventTypes => rank[e] < rank[job[j].todo[k]],
           NEW r \in job[j].held
    PROVE  /\ Place(rank, r) \in Int /\ Place(rank, Head(job[j].todo)) \in Int
           /\ Place(rank, r) < Place(rank, Head(job[j].todo))
<1> DEFINE todo == job[j].todo  h == Head(todo)
<1>1. /\ job[j] \in JobRecord /\ todo \in Seq(Rows) /\ r \in Rows
  BY AnalysisFacts DEF JobRecord
<1>2. h = todo[1] /\ 1 \in DOMAIN todo /\ h \in Rows
  <2>1. todo \in Seq(Rows) /\ todo # <<>>
    BY <1>1
  <2> HIDE DEF todo
  <2> QED BY <2>1
<1>3. /\ h \notin Analyses
      /\ h = Breach => job[j].held \subseteq Analyses
      /\ h = Face => job[j].held \subseteq Analyses \cup {Breach}
  BY <1>2, AnalysisAssumption DEF Ordered
<1>4. \A e \in EventTypes : rank[e] \in Int /\ rank[e] >= 1
  OBVIOUS
<1>5. r \in EventTypes /\ h \in EventTypes => rank[r] < rank[h]
  BY <1>2
<1> HIDE DEF h, todo
<1>6. /\ r \in Analyses \cup EventTypes \cup {Face, Breach} /\ h \in EventTypes \cup {Face, Breach}
      /\ Face # Breach /\ Face \notin EventTypes /\ Breach \notin EventTypes
      /\ Analyses \cap (EventTypes \cup {Face, Breach}) = {}
  BY <1>1, <1>2, <1>3, AnalysisAssumption, RowsAssumption DEF Rows
<1>7. Place(rank, r) \in Int /\ Place(rank, h) \in Int
  BY <1>4, <1>6 DEF Place
<1>8. Place(rank, r) < Place(rank, h)
  BY <1>3, <1>4, <1>5, <1>6 DEF Place
<1> QED BY <1>7, <1>8 DEF h, todo

\* For any number of jobs and types of events: without a report there is a
\* cycle of waits only if the events are upserted in no common order, and with
\* one the cycle runs through the face that it deleted and the analysis that it
\* reverts (the order of the statements of pipeline.py's run_analysis and of
\* report_false_positive).
THEOREM CausesOfDeadlocks == Spec => []DeadlockCauses
<1>1. ASSUME AnalysisInv, LocksInv PROVE DeadlockCauses
  <2> SUFFICES ASSUME NEW t \in Parties, Deadlocked(t), EventsInOrder(Ahead(t))
               PROVE  /\ "report" \in Ahead(t)
                      /\ \E j \in Jobs \cap Ahead(t) : Wanted(j) = {Face}
                      /\ \E j \in Jobs \cap Ahead(t) : report.target \cap job[j].held # {}
    BY DEF DeadlockCauses
  <2>1. /\ t \in Ahead(t) /\ Ahead(t) \subseteq Parties
        /\ \E v \in Parties : WaitsFor(t, v)
    BY AheadIsClosed DEF Deadlocked, Unhindered
  <2>2. PICK rank \in [EventTypes -> 1..Cardinality(EventTypes)] :
          \A j \in Ahead(t) \cap Jobs : \A e \in job[j].held, k \in DOMAIN job[j].todo :
             {e, job[j].todo[k]} \subseteq EventTypes => rank[e] < rank[job[j].todo[k]]
    BY DEF EventsInOrder
  \* A wait goes from a row to a later one.
  <2>3. ASSUME NEW u \in Ahead(t), NEW v \in Ahead(t), u # "report", v # "report", WaitsFor(u, v),
               NEW r \in Wanted(u), NEW s \in Wanted(v)
        PROVE  /\ Place(rank, r) \in Int /\ Place(rank, s) \in Int
               /\ Place(rank, r) < Place(rank, s)
    <3>1. r \in Held(v)
      BY <1>1, <2>3, AheadHolds DEF WaitsFor
    <3>2. /\ v \in Jobs /\ job[v].pc = "writing" /\ Ordered(job[v])
          /\ job[v].todo # <<>> /\ s = Head(job[v].todo)
      BY <1>1, <2>3, AheadHolds
    <3>3. r \in job[v].held
      BY <2>3, <3>1 DEF Held
    <3> QED BY <1>1, <2>2, <2>3, <3>2, <3>3, RowsAscend
  <2>4. "report" \in Ahead(t) /\ \E v \in Parties : WaitsFor("report", v)
    <3> SUFFICES ASSUME \A v \in Ahead(t) : ~("report" \in Ahead(t) /\ WaitsFor("report", v)),
                        t # "report"
                 PROVE  FALSE
      BY <2>1
    <3> DEFINE Later(v) == \A r \in Wanted(t), s \in Wanted(v) :
                              /\ Place(rank, r) \in Int /\ Place(rank, s) \in Int
                              /\ Place(rank, r) < Place(rank, s)
               S == {v \in Ahead(t) : v = "report" \/ Later(v)}
    <3>1. PICK x : x \in Wanted(t)
      BY <2>1 DEF WaitsFor
    <3>2. \A v \in Ahead(t) : WaitsFor(t, v) => v \in S
      BY <2>1, <2>3
    <3>3. ASSUME NEW u \in S, NEW v \in Ahead(t), WaitsFor(u, v), v # "report" PROVE Later(v)
      <4>1. u # "report" /\ u \in Ahead(t) /\ Later(u)
        BY <3>3
      <4>2. PICK y : y \in Wanted(u)
        BY <3>3 DEF WaitsFor
      <4>3. ASSUME NEW r \in Wanted(t), NEW s \in Wanted(v)
            PROVE  /\ Place(rank, r) \in Int /\ Place(rank, s) \in Int
                   /\ Place(rank, r) < Place(rank, s)
        <5>1. /\ Place(rank, r) \in Int /\ Place(rank, y) \in Int
              /\ Place(rank, r) < Place(rank, y)
          BY <4>1, <4>2
        <5>2. Place(rank, s) \in Int /\ Place(rank, y) < Place(rank, s)
          BY <2>3, <3>3, <4>1, <4>2
        <5> QED BY <5>1, <5>2
      <4> QED BY <4>3
    <3>4. S = Ahead(t)
      <4>1. S \in SUBSET Ahead(t)
        OBVIOUS
      <4>2. \A u \in S, v \in Ahead(t) : WaitsFor(u, v) => v \in S
        BY <3>3
      <4> HIDE DEF S
      <4> QED BY <3>2, <4>1, <4>2, AheadIsLeast
    <3>5. Later(t)
      BY <2>1, <3>4
    <3>6. Place(rank, x) \in Int /\ Place(rank, x) < Place(rank, x)
      BY <3>1, <3>5
    <3> QED BY <3>6
  \* Somebody waits for the report, which holds the face only.
  <2>5. \E j \in Jobs \cap Ahead(t) : Wanted(j) = {Face}
    <3>1. PICK u \in Ahead(t) : WaitsFor(u, "report")
      <4> SUFFICES ASSUME \A u \in Ahead(t) : ~WaitsFor(u, "report")
                   PROVE  FALSE
        OBVIOUS
      <4> DEFINE S == {v \in Ahead(t) : v # "report"}
      <4>1. S \in SUBSET Ahead(t)
        OBVIOUS
      <4>2. \A v \in Ahead(t) : WaitsFor(t, v) => v \in S
        BY <2>1
      <4>3. \A u \in S, v \in Ahead(t) : WaitsFor(u, v) => v \in S
        OBVIOUS
      <4> HIDE DEF S
      <4>4. S = Ahead(t)
        BY <4>1, <4>2, <4>3, AheadIsLeast
      <4> QED BY <2>4, <4>4 DEF S
    <3>2. u # "report" /\ Wanted(u) \cap {Face} # {}
      BY <1>1, <3>1, LocksParts DEF WaitsFor, Held
    <3>3. u \in Jobs /\ Wanted(u) = {Face}
      BY <1>1, <3>2, AheadHolds
    <3> QED BY <3>1, <3>3
  \* The report waits for an analysis that a run has locked.
  <2>6. \E j \in Jobs \cap Ahead(t) : report.target \cap job[j].held # {}
    <3>1. PICK v \in Parties : WaitsFor("report", v)
      BY <2>4
    <3>2. v \in Ahead(t) /\ v \in Jobs /\ v # "report"
      BY <2>4, <3>1, AheadIsClosed, AnalysisAssumption DEF WaitsFor, Parties
    <3>3. Wanted("report") \subseteq report.target
      BY <1>1, <2>4, AheadHolds
    <3> QED BY <3>1, <3>2, <3>3 DEF WaitsFor, Held
  <2> QED BY <2>4, <2>5, <2>6
<1> QED BY <1>1, LocksInvariant, PTL

-----------------------------------------------------------------------------
(* The AI settings                                                         *)

FormSlots == [pc : {"off", "insert", "open"}, read : Record]

LEMMA DefaultIsARow ==
    Default \in Record /\ NoForm \in FormSlots /\ NoForm.pc = "off"
<1>1. FirstKind \in Kinds
  BY AISettingsAssumption DEF FirstKind
<1>2. Default \in Record
  BY <1>1 DEF Default, Record
<1> QED BY <1>2 DEF NoForm, FormSlots

LEMMA AIFacts ==
    ASSUME AIInv
    PROVE  /\ record \in Record /\ form \in [Forms -> FormSlots]
           /\ exists \in Forms \cup {"no", "yes"} /\ "no" \notin Forms /\ "yes" \notin Forms
BY AISettingsAssumption DEF AIInv, AITypeOK, FormSlots

LEMMA AIBegins == AIInit => AIInv
<1> SUFFICES ASSUME AIInit PROVE AIInv
  OBVIOUS
<1>1. AITypeOK
  <2>1. record = Default /\ exists = "no" /\ form = [r \in Forms |-> NoForm] /\ tangled = FALSE
    BY DEF AIInit
  <2> QED BY <2>1, DefaultIsARow DEF AITypeOK, FormSlots
<1>2. FirstUseWins
  BY AISettingsAssumption DEF AIInit, FirstUseWins
<1>3. LinkedTiersAgree
  <2>1. record.linked = FALSE
    BY DEF AIInit, Default
  <2> QED BY <2>1 DEF LinkedTiersAgree
<1> QED BY <1>1, <1>2, <1>3 DEF AIInv

\* One session goes on; the row stays as it is.
LEMMA FormMoves ==
    ASSUME AIInv, NEW r \in Forms, NEW q \in FormSlots, form' = [form EXCEPT ![r] = q],
           \/ exists' = exists /\ exists # r
           \/ exists' = r /\ q.pc = "open"
           \/ exists' = "no",
           UNCHANGED <<record, tangled>>
    PROVE  AIInv'
<1>1. AITypeOK'
  BY AIFacts DEF AIInv, AITypeOK, FormSlots
<1>2. FirstUseWins'
  BY AIFacts DEF AIInv, FirstUseWins
<1> QED BY <1>1, <1>2 DEF AIInv, LinkedTiersAgree

LEMMA Sessions ==
    ASSUME AIInv, NEW r \in Forms, LookUp(r) \/ Insert(r) \/ InsertConflict(r) \/ Close(r)
    PROVE  AIInv'
<1> DEFINE opened == [pc |-> "open", read |-> record]
<1>1. opened \in FormSlots /\ opened.pc = "open"
  BY AIFacts DEF FormSlots
<1>2. CASE LookUp(r)
  <2>1. exists # r /\ exists' = exists /\ UNCHANGED <<record, tangled>>
    BY <1>2 DEF LookUp, AIInv, FirstUseWins
  <2>2. CASE exists = "yes"
    BY <1>1, <1>2, <2>1, <2>2, FormMoves DEF LookUp, Opened
  <2>3. CASE exists # "yes"
    <3> DEFINE q == [form[r] EXCEPT !.pc = "insert"]
    <3>1. q \in FormSlots /\ form' = [form EXCEPT ![r] = q]
      BY <1>2, <2>3, AIFacts DEF LookUp, FormSlots
    <3> HIDE DEF q
    <3> QED BY <2>1, <3>1, FormMoves
  <2> QED BY <2>2, <2>3
<1>3. CASE Insert(r)
  BY <1>1, <1>3, FormMoves DEF Insert, Opened
<1>4. CASE InsertConflict(r)
  <2>1. exists # r
    BY <1>4, AIFacts DEF InsertConflict
  <2> QED BY <1>1, <1>4, <2>1, FormMoves DEF InsertConflict, Opened
<1>5. CASE Close(r)
  BY <1>5, DefaultIsARow, FormMoves DEF Close
<1> QED BY <1>2, <1>3, <1>4, <1>5

\* A form that has seen the row leaves what it says; one that has not leaves
\* a row, and is on record.
LEMMA FormSaved ==
    ASSUME AIInv, NEW r \in Forms, NEW p \in Payload, Save(r, p)
    PROVE  AIInv'
<1> DEFINE new == Edited(form[r].read, p)
           dirty == Dirty(form[r].read, new, p)
<1>1. form[r].read \in Record /\ form[r] \in FormSlots
  BY AIFacts DEF FormSlots
<1>2. /\ new \in Record /\ new.linked = p.linked
      /\ p.linked => new.kind2 = new.kind1 /\ new.key2 = new.key1
  BY <1>1 DEF Edited, ApplyKey, Record, Payload
<1>3. \A c \in Columns : c \notin dirty => new[c] = form[r].read[c]
  BY DEF Dirty
<1>4. /\ record' = [c \in Columns |-> IF c \in dirty THEN new[c] ELSE record[c]]
      /\ exists' = "yes" /\ form' = [form EXCEPT ![r] = NoForm]
      /\ tangled' = (form[r].read # record)
  BY DEF Save
<1> HIDE DEF new, dirty
<1>5. record' \in Record
  <2>1. \A c \in Columns : record'[c] = new[c] \/ record'[c] = record[c]
    BY <1>4
  <2>2. record' = [linked |-> record'.linked, kind1 |-> record'.kind1, kind2 |-> record'.kind2,
                   key1 |-> record'.key1, key2 |-> record'.key2]
    BY <1>4 DEF Columns
  <2>3. /\ record'.linked \in BOOLEAN /\ record'.kind1 \in Kinds /\ record'.kind2 \in Kinds
        /\ record'.key1 \in Keys \cup {"none"} /\ record'.key2 \in Keys \cup {"none"}
    BY <1>2, <2>1, AIFacts DEF Columns, Record
  <2> QED BY <2>2, <2>3 DEF Record
<1>6. ~tangled' => \A c \in Columns : record'[c] = new[c]
  BY <1>3, <1>4
<1>7. LinkedTiersAgree'
  BY <1>2, <1>6 DEF LinkedTiersAgree, Columns
<1>8. AITypeOK' /\ FirstUseWins'
  BY <1>4, <1>5, AIFacts, DefaultIsARow DEF AITypeOK, FirstUseWins, FormSlots
<1> QED BY <1>7, <1>8 DEF AIInv

\* One row of AI settings is made, however many sessions find none, and a
\* linked tier 2 keeps tier 1's provider, address and key unless the last form
\* had not seen the one before it (db.py's get_or_create_singleton,
\* ai/service.py's update_ai_settings).
THEOREM LinkedTiersStay == AISpec => []AIInv
<1>1. AIInv /\ [AINext]_aiVars => AIInv'
  <2> SUFFICES ASSUME AIInv, [AINext]_aiVars PROVE AIInv'
    OBVIOUS
  <2>1. CASE UNCHANGED aiVars
    BY <2>1 DEF aiVars, AIInv, AITypeOK, FirstUseWins, LinkedTiersAgree
  <2> QED BY <2>1, Sessions, FormSaved DEF AINext
<1> QED BY <1>1, AIBegins, PTL DEF AISpec

-----------------------------------------------------------------------------
(* The face recognition model                                              *)

PageSlots == [pc : {"off", "save", "mark", "enqueue"}, pack : Packs \cup {"none"}, verdict : Verdicts,
              found : Packs \cup {"none"}, to : Packs \cup {"none"}]
LoadSlots == [pc : {"off", "queued", "loading"}, try : 0 .. 2, pack : Packs \cup {"none"}, verdict : Verdicts,
              found : Packs \cup {"none"}]

RowTyped == pack \in Packs /\ verdict \in Verdicts /\ found \in Packs \cup {"none"}
HistoryTyped == engines \subseteq Packs /\ mixed \in BOOLEAN /\ dropped \in BOOLEAN
PagesTyped == page \in [Pages -> PageSlots] /\ \A r \in Pages : page[r].pc = "save" => page[r].to \in Packs
LoadFits(q) ==
    /\ q.pc = "off" => q.try = 0
    /\ q.pc = "queued" => q.try < 2
    /\ q.pc = "loading" => q.pack \in Packs
LoadsTyped == load \in [Loads -> LoadSlots] /\ \A j \in Loads : LoadFits(load[j])

\* ModelIInv, by what each part is about.
ModelParts ==
    /\ RowTyped /\ HistoryTyped /\ PagesTyped /\ LoadsTyped
    /\ ReadyIsForThisPack /\ SeenIsCurrent /\ SomeoneWillSay

LEMMA PartsAreModelIInv == ModelIInv <=> ModelParts
<1>1. ModelTypeOK /\ SlotsFit <=> RowTyped /\ HistoryTyped /\ PagesTyped /\ LoadsTyped
  BY DEF ModelTypeOK, SlotsFit, RowTyped, HistoryTyped, PagesTyped, LoadsTyped, LoadFits, PageSlots, LoadSlots
<1>2. SomeoneWillSay => DownloadingIsPending
  BY DEF SomeoneWillSay, DownloadingIsPending
<1> QED BY <1>1, <1>2 DEF ModelIInv, ModelInv, ModelParts

LEMMA EmptySlots ==
    NoPage \in PageSlots /\ NoPage.pc = "off" /\ NoLoad \in LoadSlots /\ NoLoad.pc = "off" /\ NoLoad.try = 0
BY DEF NoPage, NoLoad, PageSlots, LoadSlots, Verdicts

LEMMA ModelBegins == ModelInit => ModelParts
<1> SUFFICES ASSUME ModelInit PROVE ModelParts
  OBVIOUS
<1>1. /\ page = [r \in Pages |-> NoPage] /\ load = [j \in Loads |-> NoLoad]
      /\ pack \in Packs /\ verdict = "idle" /\ found = "none" /\ engines = {} /\ mixed = FALSE /\ dropped = FALSE
  BY DEF ModelInit
<1>2. RowTyped /\ HistoryTyped
  BY <1>1 DEF RowTyped, HistoryTyped, Verdicts
<1>3. PagesTyped /\ LoadsTyped
  BY <1>1, EmptySlots DEF PagesTyped, LoadsTyped, LoadFits
<1>4. ReadyIsForThisPack /\ SeenIsCurrent /\ SomeoneWillSay
  BY <1>1, EmptySlots DEF ReadyIsForThisPack, SeenIsCurrent, SomeoneWillSay
<1> QED BY <1>2, <1>3, <1>4 DEF ModelParts

\* One request goes on: no other is touched.
LEMMA OnePage ==
    ASSUME PagesTyped, NEW r \in Pages, NEW q \in PageSlots, q.pc = "save" => q.to \in Packs,
           page' = [page EXCEPT ![r] = q]
    PROVE  PagesTyped' /\ page'[r] = q /\ \A o \in Pages \ {r} : page'[o] = page[o]
BY DEF PagesTyped

LEMMA OneLoad ==
    ASSUME LoadsTyped, NEW j \in Loads, NEW q \in LoadSlots, LoadFits(q), load' = [load EXCEPT ![j] = q]
    PROVE  LoadsTyped' /\ load'[j] = q /\ \A o \in Loads \ {j} : load'[o] = load[o]
BY DEF LoadsTyped

\* The row is as it was, and no request or job holds more of it than before.
LEMMA RowStays ==
    ASSUME ReadyIsForThisPack, SeenIsCurrent, UNCHANGED <<pack, verdict, found, mixed>>,
           \A r \in Pages : page'[r].pc = "save" => page'[r] = page[r] \/ Sees(page'[r]),
           \A j \in Loads : load'[j].pc = "loading" => load'[j] = load[j] \/ Sees(load'[j])
    PROVE  ReadyIsForThisPack' /\ SeenIsCurrent'
BY DEF ReadyIsForThisPack, SeenIsCurrent, Sees

LEMMA PageOpens ==
    ASSUME ModelParts, NEW r \in Pages, NEW to \in Packs, Open(r, to)
    PROVE  ModelParts'
<1> USE DEF ModelParts
<1> DEFINE q == [pc |-> "save", pack |-> pack, verdict |-> verdict, found |-> found, to |-> to]
<1>1. q \in PageSlots /\ q.pc = "save" /\ q.to \in Packs /\ Sees(q)
  BY DEF PageSlots, RowTyped, Sees
<1>2. page[r].pc = "off" /\ page' = [page EXCEPT ![r] = q] /\ UNCHANGED <<pack, verdict, found, load, engines, mixed, dropped>>
  BY DEF Open
<1> HIDE DEF q
<1>3. PagesTyped' /\ page'[r] = q /\ \A o \in Pages \ {r} : page'[o] = page[o]
  BY <1>1, <1>2, OnePage
<1>4. ReadyIsForThisPack' /\ SeenIsCurrent'
  BY <1>1, <1>2, <1>3, RowStays
<1>5. SomeoneWillSay'
  BY <1>2, <1>3 DEF SomeoneWillSay
<1>6. RowTyped' /\ HistoryTyped' /\ LoadsTyped'
  BY <1>2 DEF RowTyped, HistoryTyped, LoadsTyped
<1> QED BY <1>3, <1>4, <1>5, <1>6


\* An asked check has nothing of the row.
LEMMA VerifyAsked ==
    ASSUME ModelParts, NEW r \in Pages, AskVerify(r)
    PROVE  ModelParts'
<1> USE DEF ModelParts
<1> DEFINE q == [NoPage EXCEPT !.pc = "mark"]
<1>1. q \in PageSlots /\ q.pc = "mark"
  BY DEF NoPage, PageSlots, Verdicts
<1>2. page[r].pc = "off" /\ page' = [page EXCEPT ![r] = q] /\ UNCHANGED <<pack, verdict, found, load, engines, mixed, dropped>>
  BY DEF AskVerify
<1> HIDE DEF q
<1>3. PagesTyped' /\ page'[r] = q /\ \A o \in Pages \ {r} : page'[o] = page[o]
  BY <1>1, <1>2, OnePage
<1>4. ReadyIsForThisPack' /\ SeenIsCurrent'
  BY <1>1, <1>2, <1>3, RowStays
<1>5. SomeoneWillSay'
  BY <1>2, <1>3 DEF SomeoneWillSay
<1>6. RowTyped' /\ HistoryTyped' /\ LoadsTyped'
  BY <1>2 DEF RowTyped, HistoryTyped, LoadsTyped
<1> QED BY <1>3, <1>4, <1>5, <1>6

\* The row becomes "downloading": whoever else reads or loads is overlapped.
LEMMA Marked ==
    ASSUME ModelParts, NEW r \in Pages, Mark(r)
    PROVE  ModelParts'
<1> USE DEF ModelParts
<1> DEFINE q == [page[r] EXCEPT !.pc = "enqueue"]
<1>1. /\ page[r].pc = "mark" /\ page' = [page EXCEPT ![r] = q] /\ UNCHANGED <<pack, found, load, engines, dropped>>
      /\ verdict' = "downloading" /\ mixed' = (mixed \/ Reading # {r} \/ Loading # {})
  BY DEF Mark, PagesTyped
<1>2. q \in PageSlots /\ q.pc = "enqueue"
  BY DEF PagesTyped, PageSlots
<1> HIDE DEF q
<1>3. PagesTyped' /\ page'[r] = q /\ \A o \in Pages \ {r} : page'[o] = page[o]
  BY <1>1, <1>2, OnePage
<1>4. SeenIsCurrent'
  BY <1>1, <1>2, <1>3 DEF SeenIsCurrent, Reading, Loading
<1>5. ReadyIsForThisPack' /\ SomeoneWillSay'
  BY <1>1, <1>2, <1>3 DEF ReadyIsForThisPack, SomeoneWillSay
<1>6. RowTyped' /\ HistoryTyped' /\ LoadsTyped'
  BY <1>1 DEF RowTyped, HistoryTyped, LoadsTyped, Verdicts
<1> QED BY <1>3, <1>4, <1>5, <1>6

\* A change of the settings: a request that alone had the row writes what
\* follows from the row; no verdict becomes "downloading" by it.
LEMMA ChoiceSaved ==
    ASSUME ModelParts, NEW r \in Pages, SaveChoice(r)
    PROVE  ModelParts'
<1> USE DEF ModelParts
<1>1. /\ page[r].pc = "save" /\ page' = [page EXCEPT ![r] = NoPage] /\ UNCHANGED <<load, engines, dropped>>
      /\ pack' = Flush(page[r].pack, page[r].to, pack)
      /\ verdict' = Flush(page[r].verdict, NewVerdict(r), verdict)
      /\ found' = Flush(page[r].found, NewFound(r), found)
      /\ mixed' = (mixed \/ Reading # {r} \/ Loading # {})
  BY DEF SaveChoice
<1>2. PagesTyped' /\ page'[r] = NoPage /\ \A o \in Pages \ {r} : page'[o] = page[o]
  BY <1>1, EmptySlots, OnePage
<1>3. page[r] \in PageSlots /\ page[r].to \in Packs
  BY <1>1 DEF PagesTyped
<1>4. RowTyped'
  BY <1>1, <1>3 DEF RowTyped, Flush, NewVerdict, NewFound, PageSlots, Verdicts
<1>5. HistoryTyped' /\ LoadsTyped'
  BY <1>1 DEF HistoryTyped, LoadsTyped
<1>6. ASSUME ~mixed' PROVE Sees(page[r]) /\ ~mixed
  BY <1>1, <1>6 DEF SeenIsCurrent, HistoryTyped
<1>7. ReadyIsForThisPack'
  <2> SUFFICES ASSUME verdict' = "ready", ~mixed' PROVE found' = pack'
    BY DEF ReadyIsForThisPack
  <2>1. page[r].to = page[r].pack
    BY <1>1, <1>6 DEF Flush, NewVerdict, Sees
  <2> QED BY <1>1, <1>6, <2>1 DEF Flush, NewVerdict, NewFound, Sees, ReadyIsForThisPack
<1>8. SeenIsCurrent'
  BY <1>1, <1>2, EmptySlots DEF SeenIsCurrent, Reading, Loading
<1>9. SomeoneWillSay'
  <2>1. verdict' = "downloading" => verdict = "downloading"
    BY <1>1 DEF Flush, NewVerdict
  <2> QED BY <1>1, <1>2, <2>1 DEF SomeoneWillSay
<1> QED BY <1>2, <1>4, <1>5, <1>7, <1>8, <1>9

LEMMA LoadQueued ==
    ASSUME ModelParts, NEW r \in Pages, NEW j \in Loads, EnqueueLoad(r, j)
    PROVE  ModelParts'
<1> USE DEF ModelParts
<1> DEFINE q == [load[j] EXCEPT !.pc = "queued"]
<1>1. /\ page[r].pc = "enqueue" /\ load[j].pc = "off" /\ load' = [load EXCEPT ![j] = q]
      /\ page' = [page EXCEPT ![r] = NoPage] /\ UNCHANGED <<pack, verdict, found, engines, mixed, dropped>>
  BY DEF EnqueueLoad, LoadsTyped
<1>2. q \in LoadSlots /\ q.pc = "queued" /\ LoadFits(q)
  BY <1>1 DEF LoadsTyped, LoadSlots, LoadFits
<1> HIDE DEF q
<1>3. PagesTyped' /\ page'[r] = NoPage /\ \A o \in Pages \ {r} : page'[o] = page[o]
  BY <1>1, EmptySlots, OnePage
<1>4. LoadsTyped' /\ load'[j] = q /\ \A o \in Loads \ {j} : load'[o] = load[o]
  BY <1>1, <1>2, OneLoad
<1>5. ReadyIsForThisPack' /\ SeenIsCurrent'
  BY <1>1, <1>2, <1>3, <1>4, EmptySlots, RowStays
<1>6. SomeoneWillSay'
  BY <1>2, <1>4 DEF SomeoneWillSay
<1>7. RowTyped' /\ HistoryTyped'
  BY <1>1 DEF RowTyped, HistoryTyped
<1> QED BY <1>3, <1>4, <1>5, <1>6, <1>7

LEMMA PageDropped ==
    ASSUME ModelParts, NEW r \in Pages, PageFails(r)
    PROVE  ModelParts'
<1> USE DEF ModelParts
<1>1. /\ dropped' = (dropped \/ page[r].pc = "enqueue") /\ page' = [page EXCEPT ![r] = NoPage]
      /\ UNCHANGED <<pack, verdict, found, load, engines, mixed>>
  BY DEF PageFails
<1>2. PagesTyped' /\ page'[r] = NoPage /\ \A o \in Pages \ {r} : page'[o] = page[o]
  BY <1>1, EmptySlots, OnePage
<1>3. ReadyIsForThisPack' /\ SeenIsCurrent'
  BY <1>1, <1>2, EmptySlots, RowStays
<1>4. SomeoneWillSay'
  BY <1>1, <1>2 DEF SomeoneWillSay
<1>5. RowTyped' /\ HistoryTyped' /\ LoadsTyped'
  BY <1>1 DEF RowTyped, HistoryTyped, LoadsTyped
<1> QED BY <1>2, <1>3, <1>4, <1>5

LEMMA LoadStarted ==
    ASSUME ModelParts, NEW j \in Loads, StartLoad(j)
    PROVE  ModelParts'
<1> USE DEF ModelParts
<1> DEFINE q == [pc |-> "loading", try |-> load[j].try + 1, pack |-> pack, verdict |-> verdict, found |-> found]
<1>1. /\ load[j].pc = "queued" /\ load' = [load EXCEPT ![j] = q]
      /\ UNCHANGED <<pack, verdict, found, page, engines, mixed, dropped>>
  BY DEF StartLoad
<1>2. load[j].try + 1 \in 0 .. 2
  BY <1>1 DEF LoadsTyped, LoadFits, LoadSlots
<1>3. q \in LoadSlots /\ q.pc = "loading" /\ LoadFits(q) /\ Sees(q) /\ q.verdict = verdict
  BY <1>2 DEF LoadSlots, LoadFits, RowTyped, Sees
<1> HIDE DEF q
<1>4. LoadsTyped' /\ load'[j] = q /\ \A o \in Loads \ {j} : load'[o] = load[o]
  BY <1>1, <1>3, OneLoad
<1>5. ReadyIsForThisPack' /\ SeenIsCurrent'
  BY <1>1, <1>3, <1>4, RowStays
<1>6. SomeoneWillSay'
  BY <1>1, <1>3, <1>4 DEF SomeoneWillSay
<1>7. RowTyped' /\ HistoryTyped' /\ PagesTyped'
  BY <1>1 DEF RowTyped, HistoryTyped, PagesTyped
<1> QED BY <1>4, <1>5, <1>6, <1>7

\* A load ends with a verdict of its own: if it was alone with the row, about
\* the pack that is configured.
LEMMA LoadSays ==
    ASSUME ModelParts, NEW j \in Loads, load[j].pc = "loading", load' = [load EXCEPT ![j] = NoLoad],
           mixed' = (mixed \/ ~Alone(j)), UNCHANGED <<pack, page, dropped>>,
           NEW said \in {"ready", "error"}, verdict' = Flush(load[j].verdict, said, verdict),
           \/ said = "ready" /\ found' = Flush(load[j].found, load[j].pack, found) /\ engines' = engines \cup {load[j].pack}
           \/ said = "error" /\ UNCHANGED <<found, engines>>
    PROVE  ModelParts'
<1> USE DEF ModelParts
<1>1. LoadsTyped' /\ load'[j] = NoLoad /\ \A o \in Loads \ {j} : load'[o] = load[o]
  BY EmptySlots, OneLoad DEF LoadFits
<1>2. load[j] \in LoadSlots /\ load[j].pack \in Packs
  BY DEF LoadsTyped, LoadFits
<1>3. RowTyped' /\ PagesTyped'
  BY <1>2 DEF RowTyped, PagesTyped, Flush, LoadSlots, Verdicts
<1>4. HistoryTyped'
  BY <1>2 DEF HistoryTyped
<1>5. ASSUME ~mixed' PROVE Sees(load[j]) /\ ~mixed /\ Alone(j)
  BY <1>5 DEF SeenIsCurrent, HistoryTyped
<1>6. ReadyIsForThisPack'
  <2> SUFFICES ASSUME verdict' = "ready", ~mixed' PROVE found' = pack'
    BY DEF ReadyIsForThisPack
  <2>1. CASE said = "ready"
    BY <1>5, <2>1 DEF Flush, Sees
  <2>2. CASE said = "error"
    BY <1>5, <2>2 DEF Flush, Sees
  <2> QED BY <2>1, <2>2
<1>7. SeenIsCurrent'
  BY <1>1, <1>5, EmptySlots DEF SeenIsCurrent, Alone, Loading, Reading
<1>8. SomeoneWillSay'
  <2>1. verdict' = "downloading" => verdict = "downloading" /\ load[j].verdict # "downloading"
    BY DEF Flush
  <2> QED BY <1>1, <2>1 DEF SomeoneWillSay
<1> QED BY <1>1, <1>3, <1>4, <1>6, <1>7, <1>8

LEMMA LoadCutOff ==
    ASSUME ModelParts, NEW j \in Loads, LoadTimesOut(j)
    PROVE  ModelParts'
<1> USE DEF ModelParts
<1>1. /\ load[j].pc = "loading" /\ engines' \in {engines, engines \cup {load[j].pack}} /\ load' = [load EXCEPT ![j] = NoLoad]
      /\ dropped' = TRUE /\ UNCHANGED <<pack, verdict, found, page, mixed>>
  BY DEF LoadTimesOut
<1>2. LoadsTyped' /\ load'[j] = NoLoad /\ \A o \in Loads \ {j} : load'[o] = load[o]
  BY <1>1, EmptySlots, OneLoad DEF LoadFits
<1>3. ReadyIsForThisPack' /\ SeenIsCurrent'
  BY <1>1, <1>2, EmptySlots, RowStays
<1>4. SomeoneWillSay'
  BY <1>1 DEF SomeoneWillSay
<1>5. RowTyped' /\ PagesTyped' /\ HistoryTyped'
  BY <1>1 DEF RowTyped, PagesTyped, HistoryTyped, LoadsTyped, LoadFits
<1> QED BY <1>2, <1>3, <1>4, <1>5

\* A job that was loading for the first time is queued again; for the second
\* time, it is on record as lost.
LEMMA WorkerGone ==
    ASSUME ModelParts, WorkerEnds
    PROVE  ModelParts'
<1> USE DEF ModelParts
<1> DEFINE next(j) == IF j \notin Loading THEN load[j]
                      ELSE IF load[j].try < 2 THEN [NoLoad EXCEPT !.pc = "queued", !.try = load[j].try] ELSE NoLoad
<1>1. /\ load' = [j \in Loads |-> next(j)] /\ engines' = {}
      /\ dropped' = (dropped \/ \E j \in Loading : load[j].try = 2) /\ UNCHANGED <<pack, verdict, found, page, mixed>>
  BY DEF WorkerEnds
<1>2. \A j \in Loads : /\ j \notin Loading => next(j) = load[j]
                       /\ j \in Loading /\ load[j].try < 2 => next(j).pc = "queued"
                       /\ next(j).pc = "loading" => next(j) = load[j]
  BY EmptySlots DEF NoLoad, Loading
<1>3. \A j \in Loads : next(j) \in LoadSlots /\ LoadFits(next(j))
  <2> TAKE j \in Loads
  <2>1. load[j] \in LoadSlots /\ LoadFits(load[j])
    BY DEF LoadsTyped
  <2>2. CASE j \notin Loading
    BY <2>1, <2>2
  <2>3. CASE j \in Loading /\ load[j].try < 2
    BY <2>1, <2>3 DEF NoLoad, LoadSlots, LoadFits, Verdicts
  <2>4. CASE j \in Loading /\ ~(load[j].try < 2)
    BY <2>4, EmptySlots DEF LoadFits
  <2> QED BY <2>2, <2>3, <2>4
<1> HIDE DEF next
<1>4. LoadsTyped'
  BY <1>1, <1>3 DEF LoadsTyped
<1>5. ReadyIsForThisPack' /\ SeenIsCurrent'
  BY <1>1, <1>2, RowStays
<1>6. SomeoneWillSay'
  <2> SUFFICES ASSUME verdict' = "downloading", ~dropped'
               PROVE  \/ \E r \in Pages : page'[r].pc = "enqueue"
                      \/ \E j \in Loads : load'[j].pc = "queued"
                      \/ \E j \in Loads : load'[j].pc = "loading" /\ load'[j].verdict = "downloading"
    BY DEF SomeoneWillSay
  <2>1. CASE \E r \in Pages : page[r].pc = "enqueue"
    BY <1>1, <2>1
  <2>2. CASE \E j \in Loads : load[j].pc = "queued"
    BY <1>1, <1>2, <2>2 DEF Loading
  <2>3. CASE \E j \in Loads : load[j].pc = "loading" /\ load[j].verdict = "downloading"
    <3>1. PICK j \in Loads : load[j].pc = "loading"
      BY <2>3
    <3>2. j \in Loading /\ load[j].try # 2
      BY <1>1, <3>1 DEF Loading
    <3>3. load[j].try \in 0 .. 2
      BY DEF LoadsTyped, LoadSlots
    <3>4. load[j].try < 2
      BY <3>2, <3>3
    <3> QED BY <1>1, <1>2, <3>2, <3>4
  <2> QED BY <1>1, <2>1, <2>2, <2>3 DEF SomeoneWillSay
<1>7. RowTyped' /\ PagesTyped' /\ HistoryTyped'
  BY <1>1 DEF RowTyped, PagesTyped, HistoryTyped
<1> QED BY <1>4, <1>5, <1>6, <1>7

LEMMA ModelStep ==
    ASSUME ModelParts, [ModelNext]_modelVars
    PROVE  ModelParts'
<1>1. CASE UNCHANGED modelVars
  BY <1>1 DEF modelVars, ModelParts, RowTyped, HistoryTyped, PagesTyped, LoadsTyped,
              ReadyIsForThisPack, SeenIsCurrent, SomeoneWillSay, Sees
<1>2. ASSUME NEW j \in Loads, LoadEnds(j) PROVE ModelParts'
  BY <1>2, LoadSays DEF LoadEnds
<1>3. ASSUME NEW j \in Loads, LoadFails(j) PROVE ModelParts'
  BY <1>3, LoadSays DEF LoadFails
<1> QED
  BY <1>1, <1>2, <1>3, PageOpens, VerifyAsked, Marked, ChoiceSaved, LoadQueued, PageDropped, LoadStarted, LoadCutOff, WorkerGone
     DEF ModelNext

\* Unless requests and jobs overlapped, "ready" is said of the pack that is
\* configured; and while the row says "downloading", which keeps another check
\* from being queued, a check is queued, under way or about to be queued,
\* unless one was lost (biometrics/service.py's update_biometrics_settings and
\* start_model_download, worker/tasks/biometrics.py).
THEOREM VerdictIsOfThePack == ModelSpec => []ModelInv
<1>1. ModelInit => ModelParts
  BY ModelBegins
<1>2. ModelParts /\ [ModelNext]_modelVars => ModelParts'
  BY ModelStep
<1>3. ModelParts => ModelInv
  BY PartsAreModelIInv DEF ModelIInv
<1> QED BY <1>1, <1>2, <1>3, PTL DEF ModelSpec

-----------------------------------------------------------------------------
(* The library of faces                                                    *)

TaskSlots ==
    [pc : {"off", "enrol", "profile", "commit", "report", "negative", "face", "row", "person", "select", "files"},
     who : Persons \cup {"none"}, dir : Dirs \cup {"none"}, had : BOOLEAN, id : 0 .. MaxSamples, face : 0 .. MaxFace,
     todo : SUBSET FaceIds, owed : SUBSET FaceIds]

PeopleTyped ==
    /\ known \subseteq Persons /\ gone \subseteq Persons /\ known \cap gone = {}
    /\ profile \in [Persons -> Dirs \cup {"none"}]
    /\ samples \subseteq [id : FaceIds, of : known, face : 0 .. MaxFace, negative : BOOLEAN, dir : Dirs]
FilesTyped ==
    /\ images \subseteq Dirs \X Persons \X (0 .. MaxSamples)
    /\ taken \in 0 .. MaxSamples /\ dir \in Dirs
    /\ touched \subseteq FaceIds
    /\ promised \in [Persons -> SUBSET FaceIds]

\* What a request holds fits the files.
Fits(t) ==
    /\ Holds(t)
    /\ t.pc \in Writing => t.id <= taken
    /\ \A id \in t.owed : id <= taken
TasksFit == task \in [Enrolments -> TaskSlots] /\ \A r \in Enrolments : Fits(task[r])

\* The rows of the samples fit the files, and so do the promises.
SamplesFit == SamplesHaveImages /\ SamplesStayInPlace /\ \A s \in samples : s.id <= taken
FilesFit ==
    /\ PromisesKept
    /\ \A d \in Dirs, p \in Persons, id \in FaceIds : <<d, p, id>> \in images => id <= taken
    /\ \A p \in Persons : \A id \in promised[p] : id <= taken

\* FaceIInv, by what each part is about.
FaceParts == PeopleTyped /\ FilesTyped /\ TasksFit /\ SamplesFit /\ FilesFit

\* A reported face is as close to itself as a face can be, so every sample
\* that it hits is vetoed.
LEMMA ReportedIsVetoed ==
    ASSUME PeopleTyped
    PROVE  ReportsVeto
<1> SUFFICES ASSUME NEW s \in samples, s.negative, s.of \in Matched(s.face) PROVE FALSE
  BY DEF ReportsVeto
<1>1. s.of \in known /\ s.face \in 0 .. MaxFace
  BY DEF PeopleTyped
<1>2. PICK a \in Hits(s.of, s.face) : TRUE
  BY DEF Matched
<1>3. a \in Known(s.of, FALSE) /\ ~Vetoed(s.of, s.face, a)
  BY <1>2 DEF Hits
<1>4. a \in 0 .. MaxFace
  BY <1>3 DEF Known, SamplesOf, PeopleTyped
<1>5. s.face \in Known(s.of, TRUE)
  BY DEF Known, SamplesOf
<1>6. Likeness(s.face, a) <= Likeness(s.face, s.face)
  BY <1>1, <1>4, FaceLibraryAssumption DEF Likeness
<1> QED BY <1>3, <1>5, <1>6 DEF Vetoed

LEMMA PartsAreFaceIInv == FaceIInv <=> FaceParts
<1>1. FaceTypeOK <=> PeopleTyped /\ FilesTyped /\ task \in [Enrolments -> TaskSlots]
  BY DEF FaceTypeOK, PeopleTyped, FilesTyped, TaskSlots
<1>2. NumbersWereGiven /\ SamplesStayInPlace /\ PromisesKept /\ (\A r \in Enrolments : Holds(task[r])) /\ SamplesHaveImages
      <=> (\A r \in Enrolments : Fits(task[r])) /\ SamplesFit /\ FilesFit
  BY DEF NumbersWereGiven, Fits, SamplesFit, FilesFit
<1>3. PeopleTyped /\ PromisesKept => ImagesGoWithPeople
  BY DEF PeopleTyped, PromisesKept, ImagesGoWithPeople
<1> QED BY <1>1, <1>2, <1>3, ReportedIsVetoed DEF FaceIInv, FaceInv, FaceParts, TasksFit

LEMMA EmptyTask == NoTask \in TaskSlots /\ Fits(NoTask) /\ Fits(NoTask)'
<1>1. NoTask \in TaskSlots
  BY FaceLibraryAssumption DEF NoTask, TaskSlots
<1>2. NoTask.pc = "off" /\ NoTask.owed = {}
  BY DEF NoTask
<1> QED BY <1>1, <1>2 DEF Fits, Holds, Writing

LEMMA FaceBegins == FaceInit => FaceParts
<1> SUFFICES ASSUME FaceInit PROVE FaceParts
  OBVIOUS
<1>1. /\ known = {} /\ gone = {} /\ profile = [p \in Persons |-> "none"] /\ samples = {} /\ images = {} /\ taken = 0
      /\ dir \in Dirs /\ touched = {} /\ promised = [p \in Persons |-> {}] /\ task = [r \in Enrolments |-> NoTask]
  BY DEF FaceInit
<1>2. PeopleTyped
  BY <1>1 DEF PeopleTyped
<1>3. FilesTyped
  BY <1>1, FaceLibraryAssumption DEF FilesTyped
<1>4. TasksFit
  BY <1>1, EmptyTask DEF TasksFit
<1>5. SamplesFit /\ FilesFit
  BY <1>1 DEF SamplesFit, FilesFit, SamplesHaveImages, SamplesStayInPlace, PromisesKept
<1> QED BY <1>2, <1>3, <1>4, <1>5 DEF FaceParts

-----------------------------------------------------------------------------
(* What a step does to files others count on: it writes one of a new       *)
(* number, and removes none but of samples whose deletion was begun.       *)

Later ==
    /\ taken' \in 0 .. MaxSamples /\ taken <= taken' /\ touched \subseteq touched'
    /\ \A d \in Dirs, p \in Persons, id \in FaceIds :
         /\ <<d, p, id>> \in images' => <<d, p, id>> \in images \/ (taken < id /\ id <= taken')
         /\ <<d, p, id>> \in images => <<d, p, id>> \in images' \/ id \in touched'

LEMMA NothingLater ==
    ASSUME FilesTyped, UNCHANGED <<images, taken, touched>>
    PROVE  Later
BY DEF FilesTyped, Later

LEMMA FitsLater ==
    ASSUME FilesTyped, Later, NEW q \in TaskSlots, Fits(q)
    PROVE  Fits(q)'
<1>1. taken \in Nat /\ taken' \in Nat /\ FaceIds \subseteq Nat
  BY FaceLibraryAssumption DEF FilesTyped, Later, FaceIds
<1>2. q.owed \subseteq FaceIds
  BY DEF TaskSlots
<1>3. ASSUME NEW p \in Persons, NEW id \in FaceIds, id <= taken, NEW d, OnlyIn(p, id, d)
      PROVE  OnlyIn(p, id, d)'
  BY <1>1, <1>3 DEF OnlyIn, Later
<1>4. (q.pc \in Writing => q.id <= taken') /\ \A id \in q.owed : id <= taken'
  BY <1>1, <1>2 DEF Fits, Later, TaskSlots, FaceIds
<1>5. CASE q.pc \in Writing
  <2>1. /\ q.who \in Persons /\ q.dir \in Dirs /\ q.id \in FaceIds /\ OnlyIn(q.who, q.id, q.dir) /\ q.pc # "files"
        /\ q.id \in touched \/ <<q.dir, q.who, q.id>> \in images
    BY <1>5 DEF Fits, Holds, Writing
  <2>2. q.id \in touched' \/ <<q.dir, q.who, q.id>> \in images'
    BY <2>1 DEF Later
  <2>3. OnlyIn(q.who, q.id, q.dir)'
    BY <1>3, <1>5, <2>1 DEF Fits
  <2> QED BY <1>4, <2>1, <2>2, <2>3 DEF Fits, Holds
<1>6. CASE q.pc = "files"
  <2>1. /\ q.who \in Persons /\ q.dir \in Dirs /\ q.todo \subseteq touched /\ q.pc \notin Writing
        /\ \A id \in q.owed : OnlyIn(q.who, id, q.dir) /\ (id \in q.todo \/ <<q.dir, q.who, id>> \notin images)
    BY <1>6 DEF Fits, Holds, Writing
  <2>2. q.todo \subseteq touched'
    BY <2>1 DEF Later
  <2>3. ASSUME NEW id \in q.owed PROVE OnlyIn(q.who, id, q.dir)' /\ (id \in q.todo \/ <<q.dir, q.who, id>> \notin images')
    <3>1. id \in FaceIds /\ id <= taken
      BY <1>2, <2>3 DEF Fits
    <3>2. OnlyIn(q.who, id, q.dir)'
      BY <1>3, <2>1, <3>1
    <3>3. <<q.dir, q.who, id>> \notin images => <<q.dir, q.who, id>> \notin images'
      BY <1>1, <2>1, <3>1 DEF Later
    <3> QED BY <2>1, <3>2, <3>3
  <2> QED BY <1>4, <2>1, <2>2, <2>3 DEF Fits, Holds
<1>7. CASE q.pc \notin Writing /\ q.pc # "files"
  BY <1>4, <1>7 DEF Fits, Holds
<1> QED BY <1>5, <1>6, <1>7

\* One request goes on, the others stand as they did.
LEMMA OneTask ==
    ASSUME FilesTyped, TasksFit, Later, NEW r \in Enrolments, NEW q \in TaskSlots, Fits(q)', task' = [task EXCEPT ![r] = q]
    PROVE  TasksFit'
<1>1. task' \in [Enrolments -> TaskSlots]
  BY DEF TasksFit
<1>2. ASSUME NEW o \in Enrolments PROVE Fits(task[o])'
  <2>1. CASE o = r
    <3>1. task'[o] = q
      BY <2>1 DEF TasksFit
    <3> QED BY <3>1 DEF Fits, Holds, OnlyIn
  <2>2. CASE o # r
    <3>1. PICK t : t = task[o]
      OBVIOUS
    <3>2. t \in TaskSlots /\ Fits(t) /\ task'[o] = t
      BY <2>2, <3>1 DEF TasksFit
    <3>3. Fits(t)'
      BY <3>2, FitsLater
    <3> QED BY <3>2, <3>3 DEF Fits, Holds, OnlyIn
  <2> QED BY <2>1, <2>2
<1> QED BY <1>1, <1>2 DEF TasksFit

LEMMA SamplesLater ==
    ASSUME PeopleTyped, FilesTyped, SamplesFit, Later, samples' \subseteq samples
    PROVE  SamplesFit'
<1>1. taken \in Nat /\ taken' \in Nat
  BY DEF FilesTyped, Later
<1>2. ASSUME NEW s \in samples
      PROVE  /\ s.id <= taken' /\ OnlyIn(s.of, s.id, s.dir)'
             /\ s.id \in touched' \/ <<s.dir, s.of, s.id>> \in images'
  <2>1. s.id \in FaceIds /\ s.id \in Nat /\ s.of \in Persons /\ s.dir \in Dirs
    BY FaceLibraryAssumption DEF PeopleTyped, FaceIds
  <2>2. /\ s.id <= taken /\ OnlyIn(s.of, s.id, s.dir)
        /\ s.id \in touched \/ <<s.dir, s.of, s.id>> \in images
    BY DEF SamplesFit, SamplesHaveImages, SamplesStayInPlace
  <2> QED BY <1>1, <2>1, <2>2 DEF Later, OnlyIn
<1> QED BY <1>2 DEF SamplesFit, SamplesHaveImages, SamplesStayInPlace, OnlyIn

LEMMA FilesLater ==
    ASSUME FilesTyped, FilesFit, Later, promised' = promised
    PROVE  FilesFit'
<1>1. taken \in Nat /\ taken' \in Nat /\ FaceIds \subseteq Nat /\ \A p \in Persons : promised[p] \subseteq FaceIds
  BY FaceLibraryAssumption DEF FilesTyped, Later, FaceIds
<1>2. ASSUME NEW p \in Persons, NEW id \in promised[p] PROVE id \in FaceIds /\ id <= taken /\ id <= taken'
  <2>1. id \in FaceIds /\ id \in Nat
    BY <1>1
  <2>2. id <= taken
    BY DEF FilesFit
  <2>3. taken <= taken'
    BY DEF Later
  <2> QED BY <1>1, <2>1, <2>2, <2>3
<1>3. PromisesKept'
  <2> SUFFICES ASSUME NEW p \in Persons, NEW id \in promised[p], NEW d \in Dirs, <<d, p, id>> \in images' PROVE FALSE
    BY DEF PromisesKept
  <2>1. id \in FaceIds /\ id \in Nat /\ id <= taken
    BY <1>1, <1>2
  <2>2. <<d, p, id>> \in images
    BY <1>1, <2>1 DEF Later
  <2> QED BY <2>2 DEF FilesFit, PromisesKept
<1>4. \A d \in Dirs, p \in Persons, id \in FaceIds : <<d, p, id>> \in images' => id <= taken'
  BY <1>1 DEF FilesFit, Later
<1> QED BY <1>2, <1>3, <1>4 DEF FilesFit

-----------------------------------------------------------------------------

\* A step of the rows and of the files that leaves every request as it is.
LEMMA NobodyGoesOn ==
    ASSUME FaceParts, UNCHANGED <<images, taken, touched, promised, samples, task>>, PeopleTyped', FilesTyped'
    PROVE  FaceParts'
<1>1. Later
  BY NothingLater DEF FaceParts
<1>2. SamplesFit' /\ FilesFit'
  BY <1>1, SamplesLater, FilesLater DEF FaceParts
<1>3. TasksFit'
  BY DEF FaceParts, TasksFit, Fits, Holds, OnlyIn
<1> QED BY <1>2, <1>3 DEF FaceParts

LEMMA PersonAdded ==
    ASSUME FaceParts, NEW p \in Persons, AddPerson(p)
    PROVE  FaceParts'
<1>1. PeopleTyped' /\ FilesTyped'
  BY DEF AddPerson, FaceParts, PeopleTyped, FilesTyped
<1> QED BY <1>1, NobodyGoesOn DEF AddPerson

LEMMA DirChanged ==
    ASSUME FaceParts, NEW d \in Dirs, ChangeDir(d)
    PROVE  FaceParts'
<1>1. PeopleTyped' /\ FilesTyped'
  BY DEF ChangeDir, FaceParts, PeopleTyped, FilesTyped
<1> QED BY <1>1, NobodyGoesOn DEF ChangeDir

\* A step of one request on files: what it comes to hold fits, and it does to
\* the others' files what it may.
LEMMA OneGoesOn ==
    ASSUME FaceParts, Later, NEW r \in Enrolments, NEW q \in TaskSlots, Fits(q)', task' = [task EXCEPT ![r] = q],
           UNCHANGED <<known, gone, profile, dir, promised>>, samples' \subseteq samples,
           images' \subseteq Dirs \X Persons \X (0 .. MaxSamples), touched' \subseteq FaceIds
    PROVE  FaceParts'
<1>1. TasksFit' /\ SamplesFit' /\ FilesFit'
  BY OneTask, SamplesLater, FilesLater DEF FaceParts
<1>2. PeopleTyped' /\ FilesTyped'
  BY DEF FaceParts, PeopleTyped, FilesTyped, Later
<1> QED BY <1>1, <1>2 DEF FaceParts

\* ... and one that touches no file.
LEMMA OneMoves ==
    ASSUME FaceParts, NEW r \in Enrolments, NEW q \in TaskSlots, Fits(q), task' = [task EXCEPT ![r] = q],
           UNCHANGED <<known, gone, profile, images, taken, dir, touched, promised>>, samples' \subseteq samples
    PROVE  FaceParts'
<1>1. Later
  BY NothingLater DEF FaceParts
<1>2. Fits(q)'
  BY <1>1, FitsLater DEF FaceParts
<1> QED BY <1>1, <1>2, OneGoesOn DEF FaceParts, FilesTyped

LEMMA TaskFacts ==
    ASSUME FaceParts, NEW r \in Enrolments
    PROVE  task[r] \in TaskSlots /\ Fits(task[r]) /\ Holds(task[r]) /\ task = [o \in Enrolments |-> task[o]]
BY DEF FaceParts, TasksFit, Fits

LEMMA PersonLoaded ==
    ASSUME FaceParts, NEW r \in Enrolments, NEW p \in Persons, NEW pc \in {"enrol", "report", "face", "person"}, Load(r, p, pc)
    PROVE  FaceParts'
<1> DEFINE todo == IF pc \in {"face", "person"} THEN {s.id : s \in SamplesOf(p)} ELSE {}
           had == pc = "enrol" /\ profile[p] # "none"
           q == [NoTask EXCEPT !.pc = pc, !.who = p, !.dir = dir, !.had = had, !.todo = todo]
<1>1. task' = [task EXCEPT ![r] = q] /\ UNCHANGED <<known, gone, profile, samples, images, taken, dir, touched, promised>>
  BY DEF Load
<1>2. todo \subseteq FaceIds /\ had \in BOOLEAN /\ dir \in Dirs
  BY DEF FaceParts, PeopleTyped, FilesTyped, SamplesOf
<1> HIDE DEF todo, had
<1>4. q \in TaskSlots
  BY <1>2, EmptyTask DEF TaskSlots
<1>5. q.pc = pc /\ q.who = p /\ q.dir = dir /\ q.owed = {}
  BY DEF NoTask
<1> HIDE DEF q
<1>6. Fits(q)
  BY <1>5 DEF Fits, Holds, Writing, FaceParts, FilesTyped
<1> QED BY <1>1, <1>4, <1>6, OneMoves

\* A new sample's image is written: under a number nothing has.
LEMMA ImageWritten ==
    ASSUME FaceParts, NEW r \in Enrolments, task[r].pc \in {"enrol", "report"}, taken < MaxSamples, taken' = taken + 1,
           images' = images \cup {<<task[r].dir, task[r].who, taken + 1>>},
           NEW pc \in Writing, NEW f \in 0 .. MaxFace,
           task' = [task EXCEPT ![r].pc = pc, ![r].id = taken + 1, ![r].face = f],
           UNCHANGED <<known, gone, profile, samples, dir, touched, promised>>
    PROVE  FaceParts'
<1> PICK id, who, d, q : /\ id = taken + 1 /\ who = task[r].who /\ d = task[r].dir
                        /\ q = [task[r] EXCEPT !.pc = pc, !.id = id, !.face = f]
  OBVIOUS
<1>1. taken \in Nat /\ id \in FaceIds /\ id \in 0 .. MaxSamples /\ taken < id /\ taken' = id
  BY FaceLibraryAssumption DEF FaceParts, FilesTyped, FaceIds
<1>2. task[r] \in TaskSlots /\ who \in Persons /\ d \in Dirs /\ task[r].owed \subseteq FaceIds
      /\ \A i \in task[r].owed : i <= taken
  BY TaskFacts DEF Holds, TaskSlots, Fits
<1>3. task' = [task EXCEPT ![r] = q]
  BY DEF FaceParts, TasksFit
<1>4. images' = images \cup {<<d, who, id>>} /\ <<d, who, id>> \in images'
  OBVIOUS
<1>5. Later
  BY <1>1, <1>4 DEF Later
<1>6. /\ q \in TaskSlots /\ q.pc = pc /\ q.id = id /\ q.who = who /\ q.dir = d /\ q.owed = task[r].owed
  BY <1>1, <1>2 DEF TaskSlots, Writing
<1>7. OnlyIn(q.who, q.id, q.dir)'
  <2> SUFFICES ASSUME NEW e \in Dirs, <<e, who, id>> \in images' PROVE e = d
    BY <1>6 DEF OnlyIn
  <2>1. <<e, who, id>> \notin images
    BY <1>1, <1>2 DEF FaceParts, FilesFit
  <2> QED BY <1>4, <2>1
<1>8. images' \subseteq Dirs \X Persons \X (0 .. MaxSamples)
  BY <1>1, <1>2, <1>4 DEF FaceParts, FilesTyped
<1>9. \A i \in q.owed : i <= taken'
  <2> SUFFICES ASSUME NEW i \in task[r].owed PROVE i <= taken'
    BY <1>6
  <2>1. i \in Nat /\ i <= taken
    BY <1>2, FaceLibraryAssumption DEF FaceIds
  <2> QED BY <1>1, <2>1
<1>10. q.id <= taken' /\ q.pc # "files" /\ q.id \in FaceIds /\ <<q.dir, q.who, q.id>> \in images'
  BY <1>1, <1>4, <1>6 DEF Writing
<1>11. Fits(q)'
  BY <1>2, <1>6, <1>7, <1>9, <1>10 DEF Fits, Holds
<1> QED BY <1>3, <1>5, <1>6, <1>8, <1>11, OneGoesOn DEF FaceParts, FilesTyped

LEMMA ProfileWritten ==
    ASSUME FaceParts, NEW r \in Enrolments, WriteProfile(r)
    PROVE  FaceParts'
<1>1. /\ task[r].pc = "profile" /\ images' = images \cup {<<task[r].dir, task[r].who, 0>>}
      /\ task' = [task EXCEPT ![r].pc = "commit"] /\ UNCHANGED <<known, gone, profile, samples, taken, dir, touched, promised>>
  BY DEF WriteProfile, Goes
<1>2. task[r] \in TaskSlots /\ Fits(task[r]) /\ task[r].who \in Persons /\ task[r].dir \in Dirs
  BY <1>1, TaskFacts DEF Holds
<1>3. Later
  <2>1. \A id \in FaceIds : id # 0
    BY FaceLibraryAssumption DEF FaceIds
  <2>2. taken' \in 0 .. MaxSamples /\ taken <= taken' /\ touched \subseteq touched'
    BY <1>1 DEF FaceParts, FilesTyped
  <2> QED BY <1>1, <2>1, <2>2 DEF Later
<1>4. PICK q : q = [task[r] EXCEPT !.pc = "commit"]
  OBVIOUS
<1>5. q \in TaskSlots /\ task' = [task EXCEPT ![r] = q]
  BY <1>1, <1>2, <1>4 DEF TaskSlots, FaceParts, TasksFit
<1>6. Fits(q)
  BY <1>1, <1>2, <1>4 DEF Fits, Holds, Writing, TaskSlots
<1>7. Fits(q)'
  BY <1>3, <1>5, <1>6, FitsLater DEF FaceParts
<1>8. images' \subseteq Dirs \X Persons \X (0 .. MaxSamples)
  <2>1. 0 \in 0 .. MaxSamples
    BY FaceLibraryAssumption
  <2> QED BY <1>1, <1>2, <2>1 DEF FaceParts, FilesTyped
<1> QED BY <1>1, <1>3, <1>5, <1>7, <1>8, OneGoesOn DEF FaceParts, FilesTyped

\* The row says where the image is: where it was written.
LEMMA SampleCommitted ==
    ASSUME FaceParts, NEW r \in Enrolments, CommitSample(r)
    PROVE  FaceParts'
<1> DEFINE p == task[r].who
           new == Sample(r, task[r].pc = "negative")
<1>1. /\ task[r].pc \in Writing /\ task' = [task EXCEPT ![r] = NoTask]
      /\ samples' = IF p \in known THEN samples \cup {new} ELSE samples
      /\ profile' = IF p \in known /\ task[r].pc = "commit" /\ ~task[r].had
                    THEN [profile EXCEPT ![p] = task[r].dir] ELSE profile
      /\ UNCHANGED <<known, gone, images, taken, dir, touched, promised>>
  BY DEF CommitSample, Ended, Writing
<1>2. /\ task[r] \in TaskSlots /\ p \in Persons /\ task[r].dir \in Dirs /\ task[r].id \in FaceIds /\ task[r].id <= taken
      /\ OnlyIn(p, task[r].id, task[r].dir)
      /\ task[r].id \in touched \/ <<task[r].dir, p, task[r].id>> \in images
  BY <1>1, TaskFacts DEF Fits, Holds, Writing
<1>3. PICK n \in BOOLEAN : n = (task[r].pc = "negative")
  OBVIOUS
<1>4. new = [id |-> task[r].id, of |-> p, face |-> task[r].face, negative |-> n, dir |-> task[r].dir]
  BY <1>3 DEF Sample
<1>5. new.id = task[r].id /\ new.of = p /\ new.dir = task[r].dir
  BY <1>4
<1>6. p \in known => new \in [id : FaceIds, of : known, face : 0 .. MaxFace, negative : BOOLEAN, dir : Dirs]
  BY <1>2, <1>4 DEF TaskSlots
<1> HIDE DEF new
<1>7. PeopleTyped'
  <2>1. profile' \in [Persons -> Dirs \cup {"none"}]
    BY <1>1, <1>2 DEF FaceParts, PeopleTyped
  <2>2. samples' \subseteq [id : FaceIds, of : known, face : 0 .. MaxFace, negative : BOOLEAN, dir : Dirs]
    BY <1>1, <1>6 DEF FaceParts, PeopleTyped
  <2> QED BY <1>1, <2>1, <2>2 DEF FaceParts, PeopleTyped
<1>8. SamplesFit'
  <2>1. \A s \in samples' : s \in samples \/ s = new
    BY <1>1
  <2> QED BY <1>1, <1>2, <1>5, <2>1 DEF FaceParts, SamplesFit, SamplesHaveImages, SamplesStayInPlace, OnlyIn
<1>9. Later
  BY <1>1, NothingLater DEF FaceParts
<1>10. TasksFit'
  BY <1>1, <1>9, EmptyTask, OneTask DEF FaceParts
<1>11. FilesTyped' /\ FilesFit'
  BY <1>1, <1>9, FilesLater DEF FaceParts, FilesTyped
<1> QED BY <1>7, <1>8, <1>10, <1>11 DEF FaceParts

LEMMA SampleWritten ==
    ASSUME FaceParts, NEW r \in Enrolments, NEW f \in 0 .. MaxFace, WriteSample(r, f)
    PROVE  FaceParts'
<1> PICK pc : pc = IF task[r].had THEN "commit" ELSE "profile"
  OBVIOUS
<1> QED BY ImageWritten DEF WriteSample, Writing

LEMMA NegativeWritten ==
    ASSUME FaceParts, NEW r \in Enrolments, NEW fs \in SUBSET (0 .. MaxFace), WriteNegative(r, fs)
    PROVE  FaceParts'
<1>1. PICK f \in fs :
        /\ taken' = taken + 1
        /\ images' = images \cup {<<task[r].dir, task[r].who, taken + 1>>}
        /\ task' = [task EXCEPT ![r].pc = "negative", ![r].id = taken + 1, ![r].face = f]
  BY DEF WriteNegative
<1>2. task[r].pc = "report" /\ taken < MaxSamples /\ UNCHANGED <<known, gone, profile, samples, dir, touched, promised>>
  BY DEF WriteNegative
<1>3. f \in 0 .. MaxFace /\ "negative" \in Writing
  BY DEF Writing
<1> QED BY <1>1, <1>2, <1>3, ImageWritten

\* The image of one sample is removed, whose deletion has begun.
LEMMA ImageRemoved ==
    ASSUME FaceParts, NEW r \in Enrolments, task[r].pc # "off", NEW id, id \in FaceIds => id \in touched',
           images' = images \ {<<task[r].dir, task[r].who, id>>},
           touched \subseteq touched', taken' = taken
    PROVE  /\ Later /\ images' \subseteq Dirs \X Persons \X (0 .. MaxSamples)
<1>1. taken \in 0 .. MaxSamples /\ taken <= taken
  BY FaceLibraryAssumption DEF FaceParts, FilesTyped
<1>2. images' \subseteq Dirs \X Persons \X (0 .. MaxSamples)
  BY DEF FaceParts, FilesTyped
<1>3. ASSUME NEW d \in Dirs, NEW p \in Persons, NEW i \in FaceIds, <<d, p, i>> \in images, i \notin touched'
      PROVE  <<d, p, i>> \in images'
  BY <1>3
<1>4. ASSUME NEW d \in Dirs, NEW p \in Persons, NEW i \in FaceIds, <<d, p, i>> \in images'
      PROVE  <<d, p, i>> \in images
  BY <1>4
<1> QED BY <1>1, <1>2, <1>3, <1>4 DEF Later

LEMMA SampleUnlinked ==
    ASSUME FaceParts, NEW r \in Enrolments, NEW id \in FaceIds, UnlinkSample(r, id)
    PROVE  FaceParts'
<1>1. /\ task[r].pc = "face" /\ images' = images \ {<<task[r].dir, task[r].who, id>>} /\ touched' = touched \cup {id}
      /\ task' = [task EXCEPT ![r].pc = "row", ![r].id = id, ![r].todo = {}]
      /\ UNCHANGED <<known, gone, profile, samples, taken, dir, promised>>
  BY DEF UnlinkSample
<1>2. Later /\ images' \subseteq Dirs \X Persons \X (0 .. MaxSamples)
  BY <1>1, ImageRemoved
<1>3. PICK q : q = [task[r] EXCEPT !.pc = "row", !.id = id, !.todo = {}]
  OBVIOUS
<1>4. id \in 0 .. MaxSamples
  BY FaceLibraryAssumption DEF FaceIds
<1>5. q \in TaskSlots /\ q.pc = "row" /\ q.who = task[r].who /\ q.dir = task[r].dir /\ q.owed = task[r].owed
  BY <1>3, <1>4, TaskFacts DEF TaskSlots
<1>6. task' = [task EXCEPT ![r] = q]
  BY <1>1, <1>3 DEF FaceParts, TasksFit
<1>7. Fits(q)
  BY <1>1, <1>5, TaskFacts DEF Fits, Holds, Writing
<1>8. Fits(q)'
  BY <1>2, <1>5, <1>7, FitsLater DEF FaceParts
<1>9. touched' \subseteq FaceIds
  BY <1>1 DEF FaceParts, FilesTyped
<1> QED BY <1>1, <1>2, <1>5, <1>6, <1>8, <1>9, OneGoesOn

LEMMA SampleRemoved ==
    ASSUME FaceParts, NEW r \in Enrolments, RemoveSample(r)
    PROVE  FaceParts'
BY EmptyTask, OneMoves DEF RemoveSample, Ended

LEMMA ProfileUnlinked ==
    ASSUME FaceParts, NEW r \in Enrolments, UnlinkProfile(r)
    PROVE  FaceParts'
<1>1. /\ task[r].pc = "person" /\ images' = images \ {<<task[r].dir, task[r].who, 0>>} /\ task' = [task EXCEPT ![r].pc = "select"]
      /\ UNCHANGED <<known, gone, profile, samples, taken, dir, touched, promised>>
  BY DEF UnlinkProfile, Goes
<1>2. Later /\ images' \subseteq Dirs \X Persons \X (0 .. MaxSamples)
  <2>1. 0 \notin FaceIds
    BY FaceLibraryAssumption DEF FaceIds
  <2> QED BY <1>1, <2>1, ImageRemoved
<1>3. PICK q : q = [task[r] EXCEPT !.pc = "select"]
  OBVIOUS
<1>4. q \in TaskSlots /\ q.pc = "select" /\ q.who = task[r].who /\ q.dir = task[r].dir /\ q.owed = task[r].owed
  BY <1>3, TaskFacts DEF TaskSlots
<1>5. task' = [task EXCEPT ![r] = q]
  BY <1>1, <1>3 DEF FaceParts, TasksFit
<1>6. Fits(q)
  BY <1>1, <1>4, TaskFacts DEF Fits, Holds, Writing
<1>7. Fits(q)'
  BY <1>2, <1>4, <1>6, FitsLater DEF FaceParts
<1> QED BY <1>1, <1>2, <1>4, <1>5, <1>7, OneGoesOn DEF FaceParts, FilesTyped

\* What is owed is what the rows say is in this directory; so it is nowhere
\* else.
LEMMA SamplesSelected ==
    ASSUME FaceParts, NEW r \in Enrolments, SelectSamples(r)
    PROVE  FaceParts'
<1> DEFINE who == task[r].who
           ids == FreshIds(r)
           owed == {s.id : s \in {x \in SamplesOf(who) : x.dir = task[r].dir}}
<1>1. /\ task[r].pc = "select" /\ task' = [task EXCEPT ![r].pc = "files", ![r].todo = ids, ![r].owed = owed]
      /\ touched' = touched \cup ids /\ UNCHANGED <<known, gone, profile, samples, images, taken, dir, promised>>
  BY DEF SelectSamples
<1>2. ids \subseteq FaceIds /\ owed \subseteq ids
  BY DEF FreshIds, SamplesOf, FaceParts, PeopleTyped
<1>3. ASSUME NEW id \in owed PROVE OnlyIn(who, id, task[r].dir) /\ id <= taken
  <2>1. PICK s \in samples : s.of = who /\ s.dir = task[r].dir /\ s.id = id
    BY DEF SamplesOf
  <2> QED BY <2>1 DEF FaceParts, SamplesFit, SamplesStayInPlace
<1> HIDE DEF ids, owed
<1>4. PICK q : q = [task[r] EXCEPT !.pc = "files", !.todo = ids, !.owed = owed]
  OBVIOUS
<1>5. q \in TaskSlots /\ q.pc = "files" /\ q.who = task[r].who /\ q.dir = task[r].dir /\ q.todo = ids /\ q.owed = owed
  BY <1>2, <1>4, TaskFacts DEF TaskSlots
<1>6. task' = [task EXCEPT ![r] = q]
  BY <1>1, <1>4 DEF FaceParts, TasksFit
<1>7. q.who \in Persons /\ q.dir \in Dirs /\ q.pc \notin Writing
  BY <1>1, <1>5, TaskFacts DEF Holds, Writing
<1>8. q.todo \subseteq touched'
  BY <1>1, <1>5
<1>9. \A id \in q.owed : id \in q.todo /\ OnlyIn(q.who, id, q.dir) /\ id <= taken
  BY <1>2, <1>3, <1>5
<1>10. Fits(q)'
  BY <1>1, <1>7, <1>8, <1>9 DEF Fits, Holds, OnlyIn
<1>11. Later
  BY <1>1 DEF FaceParts, FilesTyped, Later
<1>12. touched' \subseteq FaceIds
  BY <1>1, <1>2 DEF FaceParts, FilesTyped
<1> QED BY <1>1, <1>5, <1>6, <1>10, <1>11, <1>12, OneGoesOn DEF FaceParts, FilesTyped

LEMMA NextUnlinked ==
    ASSUME FaceParts, NEW r \in Enrolments, UnlinkNext(r)
    PROVE  FaceParts'
<1>1. /\ task[r].pc = "files" /\ UNCHANGED <<known, gone, profile, samples, taken, dir, touched, promised>>
  BY DEF UnlinkNext
<1>2. PICK id \in task[r].todo :
        /\ images' = images \ {<<task[r].dir, task[r].who, id>>}
        /\ task' = [task EXCEPT ![r].todo = @ \ {id}]
  BY DEF UnlinkNext
<1>3. /\ task[r] \in TaskSlots /\ task[r].who \in Persons /\ task[r].dir \in Dirs /\ task[r].todo \subseteq touched
      /\ \A i \in task[r].owed : /\ OnlyIn(task[r].who, i, task[r].dir) /\ i <= taken
                                 /\ (i \in task[r].todo \/ <<task[r].dir, task[r].who, i>> \notin images)
  BY <1>1, TaskFacts DEF Fits, Holds
<1>4. Later /\ images' \subseteq Dirs \X Persons \X (0 .. MaxSamples)
  BY <1>1, <1>2, <1>3, ImageRemoved
<1>5. PICK q : q = [task[r] EXCEPT !.todo = @ \ {id}]
  OBVIOUS
<1>6. q \in TaskSlots /\ q.pc = "files" /\ q.who = task[r].who /\ q.dir = task[r].dir /\ q.todo = task[r].todo \ {id}
      /\ q.owed = task[r].owed
  BY <1>1, <1>3, <1>5 DEF TaskSlots
<1>7. task' = [task EXCEPT ![r] = q]
  BY <1>2, <1>5 DEF FaceParts, TasksFit
<1>8. q.todo \subseteq touched' /\ q.pc \notin Writing /\ q.who \in Persons /\ q.dir \in Dirs
  BY <1>1, <1>3, <1>6 DEF Writing
<1>9. ASSUME NEW i \in q.owed
      PROVE  OnlyIn(q.who, i, q.dir)' /\ i <= taken' /\ (i \in q.todo \/ <<q.dir, q.who, i>> \notin images')
  <2>1. OnlyIn(q.who, i, q.dir) /\ i <= taken
    <3>1. i \in task[r].owed
      BY <1>6, <1>9
    <3>2. OnlyIn(task[r].who, i, task[r].dir) /\ i <= taken
      BY <1>3, <3>1
    <3> QED BY <1>6, <3>2 DEF OnlyIn
  <2>2. i \in q.todo \/ <<q.dir, q.who, i>> \notin images'
    BY <1>2, <1>3, <1>6
  <2> QED BY <1>1, <1>2, <2>1, <2>2 DEF OnlyIn
<1>10. Fits(q)'
  BY <1>6, <1>8, <1>9 DEF Fits, Holds
<1> QED BY <1>1, <1>4, <1>6, <1>7, <1>10, OneGoesOn DEF FaceParts, FilesTyped

\* What was owed is in no directory by now: it is promised.
LEMMA PersonRemoved ==
    ASSUME FaceParts, NEW r \in Enrolments, RemovePerson(r)
    PROVE  FaceParts'
<1> PICK p, owed : p = task[r].who /\ owed = task[r].owed
  OBVIOUS
<1>1. /\ task[r].pc = "files" /\ task[r].todo = {} /\ known' = known \ {p} /\ gone' = gone \cup {p}
      /\ samples' = samples \ SamplesOf(p) /\ profile' = [profile EXCEPT ![p] = "none"]
      /\ promised' = [promised EXCEPT ![p] = @ \cup owed]
      /\ task' = [task EXCEPT ![r] = NoTask] /\ UNCHANGED <<images, taken, dir, touched>>
  BY DEF RemovePerson, Ended
<1>2. /\ p \in Persons /\ owed \subseteq FaceIds /\ task[r].dir \in Dirs
      /\ \A id \in owed : OnlyIn(p, id, task[r].dir) /\ <<task[r].dir, p, id>> \notin images /\ id <= taken
  BY <1>1, TaskFacts DEF Fits, Holds, TaskSlots
<1>3. Later /\ samples' \subseteq samples
  BY <1>1, NothingLater DEF FaceParts
<1>4. SamplesFit' /\ TasksFit'
  BY <1>1, <1>3, EmptyTask, SamplesLater, OneTask DEF FaceParts
<1>5. PeopleTyped'
  <2>1. profile' \in [Persons -> Dirs \cup {"none"}]
    BY <1>1, <1>2 DEF FaceParts, PeopleTyped
  <2>2. ASSUME NEW s \in samples'
        PROVE  s \in [id : FaceIds, of : known', face : 0 .. MaxFace, negative : BOOLEAN, dir : Dirs]
    <3>1. s \in [id : FaceIds, of : known, face : 0 .. MaxFace, negative : BOOLEAN, dir : Dirs] /\ s.of # p
      BY <1>1 DEF FaceParts, PeopleTyped, SamplesOf
    <3> QED BY <1>1, <3>1
  <2>3. known' \subseteq Persons /\ gone' \subseteq Persons /\ known' \cap gone' = {}
    BY <1>1, <1>2 DEF FaceParts, PeopleTyped
  <2> QED BY <2>1, <2>2, <2>3 DEF PeopleTyped
<1>6. promised' \in [Persons -> SUBSET FaceIds]
  BY <1>1, <1>2 DEF FaceParts, FilesTyped
<1>7. FilesTyped'
  BY <1>1, <1>6 DEF FaceParts, FilesTyped
<1>8. \A o \in Persons : \A id \in promised'[o] : id \in promised[o] \/ (o = p /\ id \in owed)
  BY <1>1, <1>2 DEF FaceParts, FilesTyped
<1>9. FilesFit'
  <2>1. PromisesKept'
    BY <1>1, <1>2, <1>8 DEF FaceParts, FilesFit, PromisesKept, OnlyIn
  <2>2. \A o \in Persons : \A id \in promised'[o] : id <= taken'
    BY <1>1, <1>2, <1>8 DEF FaceParts, FilesFit
  <2>3. \A d \in Dirs, o \in Persons, id \in FaceIds : <<d, o, id>> \in images' => id <= taken'
    BY <1>1 DEF FaceParts, FilesFit
  <2> QED BY <2>1, <2>2, <2>3 DEF FilesFit
<1> QED BY <1>4, <1>5, <1>7, <1>9 DEF FaceParts

LEMMA RequestFailed ==
    ASSUME FaceParts, NEW r \in Enrolments, RequestFails(r)
    PROVE  FaceParts'
BY EmptyTask, OneMoves DEF RequestFails, Ended

LEMMA FaceStep ==
    ASSUME FaceParts, [FaceNext]_faceVars
    PROVE  FaceParts'
<1>1. CASE UNCHANGED faceVars
  <2>1. PeopleTyped' /\ FilesTyped'
    BY <1>1 DEF faceVars, FaceParts, PeopleTyped, FilesTyped
  <2> QED BY <1>1, <2>1, NobodyGoesOn DEF faceVars
<1> QED
  BY <1>1, PersonAdded, DirChanged, PersonLoaded, SampleWritten, NegativeWritten, SampleUnlinked, ProfileWritten, SampleCommitted,
     SampleRemoved, ProfileUnlinked, SamplesSelected, NextUnlinked, PersonRemoved, RequestFailed DEF FaceNext

\* A reported face is not taken for that person again; a sample's image is
\* where its row says until its deletion begins; and with a person go the
\* images of all samples that the deletion found in the directory in effect:
\* whatever requests work side by side, and wherever one breaks off
\* (biometrics/recognition.py's best_match, biometrics/service.py's enrolment,
\* report and deletions).
THEOREM LibraryHolds == FaceSpec => []FaceInv
<1>1. FaceInit => FaceParts
  BY FaceBegins
<1>2. FaceParts /\ [FaceNext]_faceVars => FaceParts'
  BY FaceStep
<1>3. FaceParts => FaceInv
  BY PartsAreFaceIInv DEF FaceIInv
<1> QED BY <1>1, <1>2, <1>3, PTL DEF FaceSpec
===============================================================================
