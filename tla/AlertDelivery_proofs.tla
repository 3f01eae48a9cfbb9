------------------------- MODULE AlertDelivery_proofs -------------------------
(***************************************************************************)
(* Theorems about AlertDelivery for any number of jobs and channels and    *)
(* any dedup window.                                                       *)
(***************************************************************************)
EXTENDS AlertDelivery, WellFoundedInduction, TLAPS

JobRecord == [pc : PCs, try : 0..MaxTries, result : Results, tried : SUBSET ChannelSet,
              sent : SUBSET ChannelSet,
              loaded : [window : {0, Window}, enabled : SUBSET ChannelSet],
              claim : Claims \cup {NoClaim}]

JobShape(q) ==
    /\ q.pc = "queued" => q.try < MaxTries
    /\ q.pc \in {"started", "sending"} => q.try # 0
    /\ q.pc = "sending" => q.claim \in Claims

\* The claims subject to dedup that a message was sent under, or may yet be.
Made == {c \in Claims :
           /\ c.window > 0
           /\ \/ \E p \in posts : p.claim = c
              \/ \E j \in Jobs : job[j].pc = "sending" /\ job[j].claim = c}

Apart(c, d) == c.at + c.window <= d.at \/ d.at + d.window <= c.at

\* The key in Redis is the last of the claims made, and the others ended
\* before it was set.
ClaimInv ==
    /\ now \in 0..MaxTime /\ settings \in SettingsRows
    /\ claim \in Claims \cup {NoClaim}
    /\ claim \in Claims => claim.at <= now /\ claim.window > 0
    /\ job \in [Jobs -> JobRecord] /\ \A j \in Jobs : JobShape(job[j])
    /\ posts \subseteq Posts
    /\ \A c \in Made : claim \in Claims /\ (c = claim \/ c.at + c.window <= claim.at)
    /\ \A c, d \in Made : c = d \/ Apart(c, d)

LEMMA ClaimFacts ==
    ASSUME ClaimInv
    PROVE  /\ now \in 0..MaxTime /\ MaxTime \in Nat /\ settings \in SettingsRows
           /\ settings.window \in {0, Window} /\ settings.enabled \in SUBSET ChannelSet
           /\ job \in [Jobs -> JobRecord]
           /\ \A j \in Jobs : job[j] \in JobRecord /\ JobShape(job[j])
           /\ NoClaim \notin Claims
           /\ \A c \in Claims : c.at \in Nat /\ c.window \in Nat
<1>1. \A c \in Claims : c.at \in Nat /\ c.window \in Nat /\ c.at # -1
  BY AlertDeliveryAssumption DEF Claims
<1>2. NoClaim.at = -1
  BY DEF NoClaim
<1> QED BY <1>1, <1>2, AlertDeliveryAssumption DEF ClaimInv, SettingsRows

LEMMA IdleType ==
    ASSUME settings \in SettingsRows, NEW pc \in PCs, NEW try \in 0..MaxTries, NEW result \in Results
    PROVE  /\ Idle(pc, try, result) \in JobRecord /\ Idle(pc, try, result).pc = pc
           /\ Idle(pc, try, result).try = try /\ Idle(pc, try, result).claim = NoClaim
BY DEF Idle, JobRecord, SettingsRows

LEMMA ClaimInit == Init => ClaimInv
<1> SUFFICES ASSUME Init PROVE ClaimInv
  OBVIOUS
<1>1. /\ settings \in SettingsRows /\ now = 0 /\ claim = NoClaim /\ posts = {}
      /\ job = [j \in Jobs |-> Idle("queued", 0, "none")]
  BY StartRowsAssumption DEF Init
<1>2. /\ Idle("queued", 0, "none") \in JobRecord /\ Idle("queued", 0, "none").pc = "queued"
      /\ Idle("queued", 0, "none").try = 0
  BY <1>1, IdleType DEF PCs, MaxTries, Results
<1>3. job \in [Jobs -> JobRecord] /\ \A j \in Jobs : JobShape(job[j]) /\ job[j].pc = "queued"
  BY <1>1, <1>2 DEF JobShape, MaxTries
<1>4. NoClaim \notin Claims
  <2>1. \A c \in Claims : c.at # -1
    BY AlertDeliveryAssumption DEF Claims
  <2> QED BY <2>1 DEF NoClaim
<1>5. Made = {}
  BY <1>1, <1>3 DEF Made
<1>6. now \in 0..MaxTime
  BY <1>1, AlertDeliveryAssumption
<1> QED BY <1>1, <1>3, <1>4, <1>5, <1>6 DEF ClaimInv

\* The key stays, and no claim is made.
LEMMA NoneMade ==
    ASSUME ClaimInv, now' \in 0..MaxTime, now <= now', settings' \in SettingsRows,
           claim' = claim, posts' \subseteq Posts,
           job' \in [Jobs -> JobRecord], \A j \in Jobs : JobShape(job'[j]),
           \A p \in posts' : p.claim.window > 0 => p.claim \in Made,
           \A j \in Jobs : job'[j].pc = "sending" /\ job'[j].claim.window > 0 => job'[j].claim \in Made
    PROVE  ClaimInv'
<1>1. Made' \subseteq Made
  <2> SUFFICES ASSUME NEW c \in Made' PROVE c \in Made
    OBVIOUS
  <2>1. /\ c.window > 0
        /\ \/ \E p \in posts' : p.claim = c
           \/ \E j \in Jobs : job'[j].pc = "sending" /\ job'[j].claim = c
    BY DEF Made
  <2> QED BY <2>1
<1>2. claim \in Claims => claim.at <= now' /\ claim.window > 0
  <2> SUFFICES ASSUME claim \in Claims PROVE claim.at <= now' /\ claim.window > 0
    OBVIOUS
  <2>1. claim.at <= now /\ claim.window > 0 /\ claim.at \in Nat
    BY ClaimFacts DEF ClaimInv
  <2> QED BY <2>1, ClaimFacts
<1> QED BY <1>1, <1>2 DEF ClaimInv, Apart

\* One job's record changes, and with it what was posted.
LEMMA JobStep ==
    ASSUME ClaimInv, NEW j \in Jobs, NEW q \in JobRecord, JobShape(q),
           job' = [job EXCEPT ![j] = q],
           q.pc = "sending" => q.claim.window = 0 \/ (job[j].pc = "sending" /\ q.claim = job[j].claim),
           posts' \subseteq Posts,
           \A p \in posts' \ posts : job[j].pc = "sending" /\ p.claim = job[j].claim,
           UNCHANGED <<now, settings, claim>>
    PROVE  ClaimInv'
<1>1. /\ job' \in [Jobs -> JobRecord] /\ job'[j] = q
      /\ \A k \in Jobs \ {j} : job'[k] = job[k]
  BY ClaimFacts
<1>2. \A k \in Jobs : job[k].pc = "sending" /\ job[k].claim.window > 0 => job[k].claim \in Made
  BY ClaimFacts DEF Made, JobShape
<1>3. \A p \in posts' : p.claim.window > 0 => p.claim \in Made
  <2> SUFFICES ASSUME NEW p \in posts', p.claim.window > 0 PROVE p.claim \in Made
    OBVIOUS
  <2>1. CASE p \in posts
    <3>1. p.claim \in Claims
      BY <2>1 DEF ClaimInv, Posts
    <3> QED BY <2>1, <3>1 DEF Made
  <2>2. CASE p \notin posts
    BY <1>2, <2>2
  <2> QED BY <2>1, <2>2
<1>4. ASSUME NEW k \in Jobs, job'[k].pc = "sending", job'[k].claim.window > 0
      PROVE  job'[k].claim \in Made
  BY <1>1, <1>2, <1>4
<1>5. \A k \in Jobs : JobShape(job'[k])
  BY <1>1, ClaimFacts
<1>6. now' \in 0..MaxTime /\ now <= now'
  BY ClaimFacts
<1> QED BY <1>1, <1>3, <1>4, <1>5, <1>6, ClaimFacts, NoneMade

LEMMA StartStep ==
    ASSUME ClaimInv, NEW j \in Jobs, Start(j)
    PROVE  ClaimInv'
<1> DEFINE n == job[j].try + 1
           q == IF IsWithinQuietHours(settings.quiet, now % Day) THEN Idle("done", n, "quiet_hours")
                ELSE Idle("started", n, "none")
<1>1. n \in 0..MaxTries /\ n # 0
  BY ClaimFacts DEF Start, JobShape, JobRecord, MaxTries
<1>2. /\ job' = [job EXCEPT ![j] = q] /\ UNCHANGED <<now, settings, claim, posts>>
  BY DEF Start
<1> HIDE DEF n
<1>3. q \in JobRecord /\ q.try = n /\ q.pc \in {"done", "started"}
  <2>1. /\ "done" \in PCs /\ "started" \in PCs /\ "quiet_hours" \in Results /\ "none" \in Results
    BY DEF PCs, Results
  <2> QED BY <1>1, <2>1, ClaimFacts, IdleType
<1> HIDE DEF q
<1>4. JobShape(q)
  BY <1>1, <1>3 DEF JobShape
<1> QED BY <1>2, <1>3, <1>4, JobStep DEF ClaimInv

\* Its claim is the only one that counts from now on, or does not count.
LEMMA ShouldDedupeStep ==
    ASSUME ClaimInv, NEW j \in Jobs, ShouldDedupe(j)
    PROVE  ClaimInv'
<1> DEFINE c == ClaimOf(j)
           q == [job[j] EXCEPT !.pc = "sending", !.claim = c]
<1>1. /\ job[j] \in JobRecord /\ JobShape(job[j]) /\ job[j].pc = "started" /\ job[j].try \in 1..MaxTries
      /\ job[j].loaded.window \in {0, Window}
  BY ClaimFacts DEF ShouldDedupe, JobShape, JobRecord
<1>2. c \in Claims /\ c.window = job[j].loaded.window /\ c.at = now
  BY <1>1, ClaimFacts DEF ClaimOf, Claims
<1>3. UNCHANGED <<now, settings, posts>>
  BY DEF ShouldDedupe
<1> HIDE DEF c
<1>4. q \in JobRecord /\ q.pc = "sending" /\ q.claim = c /\ q.try = job[j].try
  BY <1>1, <1>2 DEF JobRecord, PCs
<1>5. JobShape(q)
  BY <1>1, <1>2, <1>4 DEF JobShape
<1>6. CASE job[j].loaded.window = 0
  <2>1. job' = [job EXCEPT ![j] = q] /\ claim' = claim
    BY <1>6 DEF ShouldDedupe, c
  <2> HIDE DEF q
  <2> QED BY <1>2, <1>3, <1>4, <1>5, <1>6, <2>1, JobStep DEF ClaimInv
<1>7. CASE job[j].loaded.window # 0 /\ Live(claim)
  <2> DEFINE r == [job[j] EXCEPT !.pc = "done", !.result = "deduped", !.claim = claim]
  <2>1. r \in JobRecord /\ r.pc = "done"
    <3>1. claim \in Claims \cup {NoClaim}
      BY DEF ClaimInv
    <3> HIDE DEF Claims, NoClaim
    <3> QED BY <1>1, <3>1 DEF JobRecord, PCs, Results
  <2>2. JobShape(r) /\ job' = [job EXCEPT ![j] = r] /\ claim' = claim
    BY <1>7, <2>1 DEF ShouldDedupe, JobShape
  <2> HIDE DEF r
  <2> QED BY <1>3, <2>1, <2>2, JobStep DEF ClaimInv
<1>8. CASE job[j].loaded.window # 0 /\ ~Live(claim)
  <2>1. job' = [job EXCEPT ![j] = q] /\ claim' = c /\ c.window > 0
    <3>1. c.window > 0
      BY <1>1, <1>2, <1>8, AlertDeliveryAssumption
    <3>2. claim' = c /\ job' = [job EXCEPT ![j].pc = "sending", ![j].claim = c]
      BY <1>8 DEF ShouldDedupe, c
    <3> QED BY <3>1, <3>2
  <2> HIDE DEF q
  <2>2. /\ job' \in [Jobs -> JobRecord] /\ job'[j] = q
        /\ \A k \in Jobs \ {j} : job'[k] = job[k]
    BY <1>4, <2>1, ClaimFacts
  <2>3. \A d \in Made : d \in Claims /\ d.at + d.window <= c.at
    <3> SUFFICES ASSUME NEW d \in Made PROVE d \in Claims /\ d.at + d.window <= c.at
      OBVIOUS
    <3>1. d \in Claims /\ claim \in Claims /\ (d = claim \/ d.at + d.window <= claim.at)
      BY DEF ClaimInv, Made
    <3>2. claim.at + claim.window <= now /\ claim.at <= now
      BY <1>8, <3>1, ClaimFacts DEF Live, ClaimInv
    <3> QED BY <1>2, <3>1, <3>2, ClaimFacts
  <2>4. Made' \subseteq Made \cup {c}
    BY <1>3, <1>4, <2>2 DEF Made
  <2>5. \A d \in Made' : claim' \in Claims /\ (d = claim' \/ d.at + d.window <= claim'.at)
    BY <1>2, <2>1, <2>3, <2>4
  <2>6. \A d, e \in Made' : d = e \/ Apart(d, e)
    <3> SUFFICES ASSUME NEW d \in Made', NEW e \in Made', d # e PROVE Apart(d, e)
      OBVIOUS
    <3>1. CASE d \in Made /\ e \in Made
      BY <3>1 DEF ClaimInv
    <3>2. CASE d \notin Made \/ e \notin Made
      BY <2>3, <2>4, <3>2 DEF Apart
    <3> QED BY <3>1, <3>2
  <2>7. \A k \in Jobs : JobShape(job'[k])
    BY <1>5, <2>2, ClaimFacts
  <2>8. now' \in 0..MaxTime /\ settings' \in SettingsRows /\ posts' \subseteq Posts
    BY <1>3, ClaimFacts DEF ClaimInv
  <2>9. claim' \in Claims /\ claim'.at <= now' /\ claim'.window > 0
    BY <1>2, <1>3, <2>1, ClaimFacts
  <2> QED BY <2>2, <2>5, <2>6, <2>7, <2>8, <2>9 DEF ClaimInv, Apart
<1> QED BY <1>6, <1>7, <1>8

\* A message goes out, confirmed or not, and perhaps it is the last.
LEMMA DeliverSteps ==
    ASSUME ClaimInv, NEW j \in Jobs, NEW ch \in ChannelSet, Deliver(j, ch) \/ CutOff(j, ch)
    PROVE  ClaimInv'
<1>1. /\ job[j] \in JobRecord /\ JobShape(job[j]) /\ job[j].pc = "sending" /\ job[j].claim \in Claims
      /\ job[j].tried \cup {ch} \in SUBSET ChannelSet /\ job[j].sent \cup {ch} \in SUBSET ChannelSet
      /\ UNCHANGED <<now, settings, claim>>
  BY ClaimFacts DEF Deliver, CutOff, NextUntried, JobShape, JobRecord
<1>2. [claim |-> job[j].claim, channel |-> ch] \in Posts
  BY <1>1 DEF Posts
<1>3. posts' \in {posts, posts \cup {[claim |-> job[j].claim, channel |-> ch]}}
  BY DEF Deliver, CutOff
<1>4. posts' \subseteq Posts /\ \A p \in posts' \ posts : p.claim = job[j].claim
  BY <1>2, <1>3 DEF ClaimInv
<1>5. ASSUME NEW q \in JobRecord, q.pc = "done" \/ (q.pc = "sending" /\ q.claim = job[j].claim),
             q.try = job[j].try, job' = [job EXCEPT ![j] = q]
      PROVE  ClaimInv'
  <2>1. JobShape(q)
    BY <1>1, <1>5 DEF JobShape
  <2>2. q.pc = "sending" => q.claim.window = 0 \/ (job[j].pc = "sending" /\ q.claim = job[j].claim)
    BY <1>1, <1>5
  <2> QED BY <1>1, <1>4, <1>5, <2>1, <2>2, JobStep
<1>6. CASE Deliver(j, ch)
  <2>1. PICK confirmed \in BOOLEAN :
          job' = [job EXCEPT ![j].tried = job[j].tried \cup {ch},
                             ![j].sent = IF confirmed THEN job[j].sent \cup {ch} ELSE job[j].sent]
    BY <1>6 DEF Deliver
  <2> DEFINE sent == IF confirmed THEN job[j].sent \cup {ch} ELSE job[j].sent
             q == [job[j] EXCEPT !.tried = job[j].tried \cup {ch}, !.sent = sent]
  <2>2. sent \in SUBSET ChannelSet
    BY <1>1 DEF JobRecord
  <2>3. job' = [job EXCEPT ![j] = q]
    BY <2>1
  <2> HIDE DEF sent
  <2>4. q \in JobRecord /\ q.pc = "sending" /\ q.claim = job[j].claim /\ q.try = job[j].try
    BY <1>1, <2>2 DEF JobRecord
  <2> HIDE DEF q
  <2> QED BY <1>5, <2>3, <2>4
<1>7. CASE CutOff(j, ch)
  <2> DEFINE q == [job[j] EXCEPT !.pc = "done", !.result = "cut_off", !.tried = job[j].tried \cup {ch}]
  <2>1. q \in JobRecord /\ q.pc = "done" /\ q.try = job[j].try
    BY <1>1 DEF JobRecord, PCs, Results
  <2>2. job' = [job EXCEPT ![j] = q]
    BY <1>7 DEF CutOff
  <2> HIDE DEF q
  <2> QED BY <1>5, <2>1, <2>2
<1> QED BY <1>6, <1>7

LEMMA FinishStep ==
    ASSUME ClaimInv, NEW j \in Jobs, Finish(j)
    PROVE  ClaimInv'
<1> DEFINE res == IF job[j].sent # {} THEN "ok" ELSE IF job[j].tried # {} THEN "failed"
                  ELSE "no_channels_enabled"
           q == [job[j] EXCEPT !.pc = "done", !.result = res]
<1>1. res \in Results /\ job[j] \in JobRecord
  BY ClaimFacts DEF Results
<1>2. job' = [job EXCEPT ![j] = q] /\ UNCHANGED <<now, settings, claim, posts>>
  BY DEF Finish
<1> HIDE DEF res
<1>3. q \in JobRecord /\ q.pc = "done"
  BY <1>1 DEF JobRecord, PCs
<1>4. JobShape(q)
  BY <1>3 DEF JobShape
<1> HIDE DEF q
<1> QED BY <1>2, <1>3, <1>4, JobStep DEF ClaimInv

\* A job that is run again starts without a claim.
LEMMA CrashStep ==
    ASSUME ClaimInv, WorkerCrash
    PROVE  ClaimInv'
<1>1. /\ job' = [j \in Jobs |-> IF job[j].pc \in {"started", "sending"} THEN Retried(j) ELSE job[j]]
      /\ UNCHANGED <<now, settings, claim, posts>>
  BY DEF WorkerCrash
<1>2. ASSUME NEW j \in Jobs
      PROVE  job'[j] \in JobRecord /\ JobShape(job'[j]) /\ job'[j].pc # "sending"
  <2>1. job[j] \in JobRecord /\ JobShape(job[j]) /\ job[j].try \in 0..MaxTries
    BY ClaimFacts DEF JobRecord
  <2>2. CASE job[j].pc \notin {"started", "sending"}
    BY <1>1, <2>1, <2>2
  <2>3. CASE job[j].pc \in {"started", "sending"} /\ job[j].try < MaxTries
    <3> DEFINE q == Idle("queued", job[j].try, "none")
    <3>1. q \in JobRecord /\ q.pc = "queued" /\ q.try = job[j].try
      BY <2>1, ClaimFacts, IdleType DEF PCs, Results
    <3>2. job'[j] = q
      BY <1>1, <2>3 DEF Retried
    <3> HIDE DEF q
    <3> QED BY <2>3, <3>1, <3>2 DEF JobShape
  <2>4. CASE job[j].pc \in {"started", "sending"} /\ ~(job[j].try < MaxTries)
    <3> DEFINE q == Idle("done", job[j].try, "cut_off")
    <3>1. q \in JobRecord /\ q.pc = "done"
      BY <2>1, ClaimFacts, IdleType DEF PCs, Results
    <3>2. job'[j] = q
      BY <1>1, <2>4 DEF Retried
    <3> HIDE DEF q
    <3> QED BY <3>1, <3>2 DEF JobShape
  <2> QED BY <2>2, <2>3, <2>4
<1>3. job' \in [Jobs -> JobRecord]
  <2>1. job' = [j \in Jobs |-> job'[j]]
    BY <1>1
  <2> QED BY <1>2, <2>1
<1>4. \A p \in posts' : p.claim.window > 0 => p.claim \in Made
  BY <1>1 DEF Made, ClaimInv, Posts
<1>5. now' \in 0..MaxTime /\ now <= now' /\ settings' \in SettingsRows /\ posts' \subseteq Posts
  BY <1>1, ClaimFacts DEF ClaimInv
<1> QED BY <1>1, <1>2, <1>3, <1>4, <1>5, NoneMade

LEMMA SurroundingsStep ==
    ASSUME ClaimInv, UpdateSettings \/ Tick \/ UNCHANGED vars
    PROVE  ClaimInv'
<1>1. UNCHANGED <<claim, job, posts>>
  BY DEF UpdateSettings, Tick, vars
<1>2. now' \in 0..MaxTime /\ now <= now'
  BY ClaimFacts DEF UpdateSettings, Tick, vars
<1>3. settings' \in SettingsRows
  <2>1. CASE UpdateSettings
    <3>1. settings \in SettingsRows /\ ChannelSet \in SUBSET ChannelSet
      BY ClaimFacts
    <3>2. \/ \E w \in {0, Window} : settings' = [settings EXCEPT !.window = w]
          \/ \E e \in SUBSET ChannelSet : settings' = [settings EXCEPT !.enabled = e]
      BY <2>1 DEF UpdateSettings
    <3> QED BY <3>1, <3>2 DEF SettingsRows
  <2>2. CASE Tick \/ UNCHANGED vars
    BY <2>2, ClaimFacts DEF Tick, vars
  <2> QED BY <2>1, <2>2
<1>4. \A p \in posts' : p.claim.window > 0 => p.claim \in Made
  BY <1>1 DEF Made, ClaimInv, Posts
<1>5. \A j \in Jobs : job'[j].pc = "sending" /\ job'[j].claim.window > 0 => job'[j].claim \in Made
  BY <1>1, ClaimFacts DEF Made, JobShape
<1>6. posts' \subseteq Posts
  BY <1>1 DEF ClaimInv
<1> QED BY <1>1, <1>2, <1>3, <1>4, <1>5, <1>6, ClaimFacts, NoneMade

LEMMA ClaimStep == ClaimInv /\ [Next]_vars => ClaimInv'
BY StartStep, ShouldDedupeStep, DeliverSteps, FinishStep, CrashStep, SurroundingsStep DEF Next

\* Two messages on one channel that were subject to dedup are of one claim, or
\* their claims are a dedup window apart, whatever is retried, cut off, changed
\* in the settings or lost with a worker (should_dedupe's SET NX EX).
THEOREM MessagesAreSpaced == Spec => []OnePerWindow
<1>1. Init => ClaimInv
  BY ClaimInit
<1>2. ClaimInv /\ [Next]_vars => ClaimInv'
  BY ClaimStep
<1>3. ClaimInv => OnePerWindow
  <2> SUFFICES ASSUME ClaimInv, NEW p \in posts, NEW q \in posts,
                      p.claim # q.claim, p.claim.window > 0, q.claim.window > 0
               PROVE  Apart(p.claim, q.claim)
    BY DEF OnePerWindow, Apart
  <2>1. p.claim \in Made /\ q.claim \in Made
    BY DEF ClaimInv, Posts, Made
  <2> QED BY <2>1 DEF ClaimInv
<1> QED BY <1>1, <1>2, <1>3, PTL DEF Spec

-----------------------------------------------------------------------------
(* Results: what a job has tried, and what suppressed it                   *)

\* A set of numbers that is not empty has a least member.
LEMMA LeastNumber ==
    ASSUME NEW T \in SUBSET Nat, T # {}
    PROVE  \E x \in T : \A y \in T : x <= y
<1> DEFINE R == OpToRel(<, Nat)
<1>1. IsWellFoundedOn(R, Nat)
  BY NatLessThanWellFounded
<1>2. \A x, y \in Nat : <<y, x>> \in R <=> y < x
  BY DEF OpToRel
<1> HIDE DEF R
<1>3. PICK x \in T : \A y \in T : ~(<<y, x>> \in R)
  BY <1>1, WFMin
<1>4. ASSUME NEW y \in T PROVE x <= y
  <2>1. x \in Nat /\ y \in Nat
    OBVIOUS
  <2>2. ~(y < x)
    BY <1>2, <1>3, <2>1
  <2> QED BY <2>1, <2>2
<1> QED BY <1>4

\* As long as an enabled channel is untried, one of them is next.
LEMMA OneIsNext ==
    ASSUME NEW j \in Jobs, job[j].pc = "sending", job[j].loaded.enabled \subseteq ChannelSet,
           Untried(j) # {}
    PROVE  \E c \in Untried(j) : NextUntried(j, c)
<1> DEFINE T == {i \in DOMAIN Channels : Channels[i] \in Untried(j)}
<1>1. T \in SUBSET Nat /\ DOMAIN Channels \subseteq Nat
  BY AlertDeliveryAssumption
<1>2. T # {}
  BY DEF Untried, ChannelSet
<1>3. PICK k \in T : \A i \in T : k <= i
  BY <1>1, <1>2, LeastNumber
<1>4. NextUntried(j, Channels[k])
  BY <1>3, AlertDeliveryAssumption DEF NextUntried
<1> QED BY <1>3, <1>4

LEMMA DayMod ==
    ASSUME NEW x \in (-(Day - 1)) .. (Day - 1)
    PROVE  x % Day = IF x >= 0 THEN x ELSE x + Day
BY AlertDeliveryAssumption

LEMMA QuietHoursDo ==
    ASSUME now \in 0..MaxTime
    PROVE  QuietHoursWrap
<1> SUFFICES ASSUME NEW start \in Times, NEW end \in Times, NEW t, t = now % Day
             PROVE  IsWithinQuietHours([start |-> start, end |-> end], t)
                      <=> (t - start) % Day <= (end - start) % Day
  BY DEF QuietHoursWrap
<1>1. /\ start \in 0..(Day - 1) /\ end \in 0..(Day - 1) /\ t \in 0..(Day - 1)
      /\ Day \in Nat \ {0}
  BY AlertDeliveryAssumption DEF Times
<1>2. /\ (t - start) % Day = IF t - start >= 0 THEN t - start ELSE t - start + Day
      /\ (end - start) % Day = IF end - start >= 0 THEN end - start ELSE end - start + Day
  <2>1. t - start \in (-(Day - 1)) .. (Day - 1) /\ end - start \in (-(Day - 1)) .. (Day - 1)
    BY <1>1
  <2> QED BY <2>1, DayMod
<1>3. [start |-> start, end |-> end] # NoQuietHours
  <2>1. start # -1
    BY <1>1
  <2>2. [start |-> start, end |-> end].start = start /\ NoQuietHours.start = -1
    BY DEF NoQuietHours
  <2> QED BY <2>1, <2>2
<1>4. IsWithinQuietHours([start |-> start, end |-> end], t)
        <=> IF start <= end THEN start <= t /\ t <= end ELSE t >= start \/ t <= end
  BY <1>3 DEF IsWithinQuietHours
<1>5. (IF start <= end THEN start <= t /\ t <= end ELSE t >= start \/ t <= end)
        <=> (IF t - start >= 0 THEN t - start ELSE t - start + Day)
              <= (IF end - start >= 0 THEN end - start ELSE end - start + Day)
  BY <1>1
<1> QED BY <1>2, <1>4, <1>5

-----------------------------------------------------------------------------

\* What holds of one job's record q, ResultsFollow included.
Fits(j, q) ==
    /\ q.sent \subseteq q.tried /\ q.tried \subseteq q.loaded.enabled
    /\ q.result \in {"ok", "failed", "no_channels_enabled"} => q.tried = q.loaded.enabled
    /\ q.pc # "done" => q.result = "none"
    /\ q.pc \in {"queued", "started"} => q.claim = NoClaim /\ q.tried = {}
    /\ q.pc = "sending" => q.claim.job = j /\ q.claim.try = q.try
    /\ q.result = "deduped" => q.claim \in Claims

FitInv ==
    /\ ClaimInv
    /\ \A j \in Jobs : Fits(j, job[j])
    /\ updates \in 0..MaxUpdates /\ mishaps \subseteq {"failure", "crash"}

LEMMA IdleFits ==
    ASSUME NEW j \in Jobs, NEW try, NEW pc \in {"queued", "started", "done"},
           NEW result \in {"none", "quiet_hours", "cut_off"}, pc # "done" => result = "none"
    PROVE  Fits(j, Idle(pc, try, result))
BY DEF Idle, Fits

LEMMA FitBegins == Init => FitInv
<1> SUFFICES ASSUME Init PROVE FitInv
  OBVIOUS
<1>1. \A j \in Jobs : job[j] = Idle("queued", 0, "none")
  BY DEF Init
<1>2. \A j \in Jobs : Fits(j, job[j])
  BY <1>1, IdleFits
<1> QED BY <1>2, ClaimInit, AlertDeliveryAssumption DEF FitInv, Init

LEMMA OneFits ==
    ASSUME FitInv, ClaimInv', NEW j \in Jobs, NEW q, Fits(j, q), job' = [job EXCEPT ![j] = q],
           updates' = updates, mishaps' \subseteq {"failure", "crash"}
    PROVE  FitInv'
<1>1. \A k \in Jobs : job'[k] = IF k = j THEN q ELSE job[k]
  BY DEF FitInv, ClaimInv
<1>2. \A k \in Jobs : Fits(k, job'[k])
  BY <1>1 DEF FitInv
<1> QED BY <1>2 DEF FitInv, Fits

LEMMA StartFits ==
    ASSUME FitInv, ClaimInv', NEW j \in Jobs, Start(j)
    PROVE  FitInv'
<1> DEFINE n == job[j].try + 1
           q == IF IsWithinQuietHours(settings.quiet, now % Day) THEN Idle("done", n, "quiet_hours")
                ELSE Idle("started", n, "none")
<1>1. job' = [job EXCEPT ![j] = q] /\ updates' = updates /\ mishaps' = mishaps
  BY DEF Start
<1>2. Fits(j, q)
  BY IdleFits
<1> HIDE DEF q
<1> QED BY <1>1, <1>2, OneFits DEF FitInv

LEMMA ShouldDedupeFits ==
    ASSUME FitInv, ClaimInv', NEW j \in Jobs, ShouldDedupe(j)
    PROVE  FitInv'
<1>1. /\ job[j] \in JobRecord /\ Fits(j, job[j]) /\ job[j].pc = "started"
      /\ updates' = updates /\ mishaps' = mishaps /\ mishaps \subseteq {"failure", "crash"}
  BY ClaimFacts DEF ShouldDedupe, FitInv
<1>2. CASE job[j].loaded.window # 0 /\ Live(claim)
  <2> DEFINE q == [job[j] EXCEPT !.pc = "done", !.result = "deduped", !.claim = claim]
  <2>1. claim \in Claims
    BY <1>2 DEF Live, FitInv, ClaimInv
  <2>2. /\ q.pc = "done" /\ q.result = "deduped" /\ q.claim = claim
        /\ q.sent = job[j].sent /\ q.tried = job[j].tried /\ q.loaded = job[j].loaded
    BY <1>1 DEF JobRecord
  <2>3. job' = [job EXCEPT ![j] = q]
    BY <1>2 DEF ShouldDedupe
  <2>4. Fits(j, q)
    BY <1>1, <2>1, <2>2 DEF Fits
  <2> HIDE DEF q
  <2> QED BY <1>1, <2>3, <2>4, OneFits
<1>3. CASE ~(job[j].loaded.window # 0 /\ Live(claim))
  <2> DEFINE c == ClaimOf(j)
             q == [job[j] EXCEPT !.pc = "sending", !.claim = c]
  <2>1. job' = [job EXCEPT ![j] = q]
    BY <1>3 DEF ShouldDedupe
  <2>2. c.job = j /\ c.try = job[j].try
    BY DEF ClaimOf
  <2> HIDE DEF c
  <2>3. /\ q.pc = "sending" /\ q.result = job[j].result /\ q.claim = c /\ q.try = job[j].try
        /\ q.sent = job[j].sent /\ q.tried = job[j].tried /\ q.loaded = job[j].loaded
    BY <1>1 DEF JobRecord
  <2>4. Fits(j, q)
    BY <1>1, <2>2, <2>3 DEF Fits
  <2> HIDE DEF q
  <2> QED BY <1>1, <2>1, <2>4, OneFits
<1> QED BY <1>2, <1>3

LEMMA DeliverFits ==
    ASSUME FitInv, ClaimInv', NEW j \in Jobs, NEW ch \in ChannelSet, Deliver(j, ch) \/ CutOff(j, ch)
    PROVE  FitInv'
<1>1. /\ job[j] \in JobRecord /\ Fits(j, job[j]) /\ job[j].pc = "sending"
      /\ ch \in job[j].loaded.enabled
      /\ updates' = updates /\ mishaps' \subseteq {"failure", "crash"}
  BY ClaimFacts DEF Deliver, CutOff, NextUntried, Untried, FitInv
<1>2. CASE Deliver(j, ch)
  <2>1. PICK sent \in {job[j].sent, job[j].sent \cup {ch}} :
          job' = [job EXCEPT ![j].tried = job[j].tried \cup {ch}, ![j].sent = sent]
    BY <1>2 DEF Deliver
  <2> DEFINE q == [job[j] EXCEPT !.tried = job[j].tried \cup {ch}, !.sent = sent]
  <2>2. /\ q.pc = "sending" /\ q.result = job[j].result /\ q.claim = job[j].claim /\ q.try = job[j].try
        /\ q.sent = sent /\ q.tried = job[j].tried \cup {ch} /\ q.loaded = job[j].loaded
        /\ job' = [job EXCEPT ![j] = q]
    BY <1>1, <2>1 DEF JobRecord
  <2>3. Fits(j, q)
    BY <1>1, <2>1, <2>2 DEF Fits
  <2> HIDE DEF q
  <2> QED BY <1>1, <2>2, <2>3, OneFits
<1>3. CASE CutOff(j, ch)
  <2> DEFINE q == [job[j] EXCEPT !.pc = "done", !.result = "cut_off", !.tried = job[j].tried \cup {ch}]
  <2>1. job' = [job EXCEPT ![j] = q]
    BY <1>3 DEF CutOff
  <2>2. /\ q.pc = "done" /\ q.result = "cut_off" /\ q.claim = job[j].claim
        /\ q.sent = job[j].sent /\ q.tried = job[j].tried \cup {ch} /\ q.loaded = job[j].loaded
    BY <1>1 DEF JobRecord
  <2>3. Fits(j, q)
    BY <1>1, <2>2 DEF Fits
  <2> HIDE DEF q
  <2> QED BY <1>1, <2>1, <2>3, OneFits
<1> QED BY <1>2, <1>3

\* It ends when there is no channel left to try.
LEMMA FinishFits ==
    ASSUME FitInv, ClaimInv', NEW j \in Jobs, Finish(j)
    PROVE  FitInv' /\ job[j].tried = job[j].loaded.enabled
<1> DEFINE res == IF job[j].sent # {} THEN "ok" ELSE IF job[j].tried # {} THEN "failed"
                  ELSE "no_channels_enabled"
           q == [job[j] EXCEPT !.pc = "done", !.result = res]
<1>1. /\ job[j] \in JobRecord /\ Fits(j, job[j]) /\ job[j].pc = "sending"
      /\ job[j].loaded.enabled \subseteq ChannelSet
      /\ updates' = updates /\ mishaps' = mishaps /\ mishaps \subseteq {"failure", "crash"}
      /\ job' = [job EXCEPT ![j] = q]
  BY ClaimFacts DEF Finish, FitInv, JobRecord
<1>2. Untried(j) = {}
  BY <1>1, OneIsNext DEF Finish
<1>3. job[j].tried = job[j].loaded.enabled
  BY <1>1, <1>2 DEF Untried, Fits
<1>4. res \in {"ok", "failed", "no_channels_enabled"}
  OBVIOUS
<1> HIDE DEF res
<1>5. /\ q.pc = "done" /\ q.result = res /\ q.claim = job[j].claim
      /\ q.sent = job[j].sent /\ q.tried = job[j].tried /\ q.loaded = job[j].loaded
  BY <1>1 DEF JobRecord
<1>6. Fits(j, q)
  BY <1>1, <1>3, <1>4, <1>5 DEF Fits
<1> HIDE DEF q
<1> QED BY <1>1, <1>3, <1>6, OneFits

LEMMA OthersFit ==
    ASSUME FitInv, ClaimInv', WorkerCrash \/ UpdateSettings \/ Tick \/ UNCHANGED vars
    PROVE  FitInv'
<1>1. CASE WorkerCrash
  <2>1. ASSUME NEW j \in Jobs PROVE Fits(j, job'[j])
    <3>1. job'[j] = job[j] \/ job'[j] = Idle("queued", job[j].try, "none")
            \/ job'[j] = Idle("done", job[j].try, "cut_off")
      BY <1>1 DEF WorkerCrash, Retried
    <3> QED BY <3>1, IdleFits DEF FitInv
  <2> QED BY <1>1, <2>1 DEF FitInv, Fits, WorkerCrash
<1>2. CASE UpdateSettings
  BY <1>2, AlertDeliveryAssumption DEF UpdateSettings, FitInv, Fits
<1>3. CASE Tick \/ UNCHANGED vars
  <2>1. UNCHANGED <<job, updates, mishaps>>
    BY <1>3 DEF Tick, vars
  <2> QED BY <2>1 DEF FitInv, Fits
<1> QED BY <1>1, <1>2, <1>3

LEMMA FitStep == FitInv /\ [Next]_vars => FitInv'
<1> SUFFICES ASSUME FitInv, [Next]_vars PROVE FitInv'
  OBVIOUS
<1>1. ClaimInv'
  BY ClaimStep DEF FitInv
<1> QED
  BY <1>1, StartFits, ShouldDedupeFits, DeliverFits, FinishFits, OthersFit DEF Next

LEMMA AlertsFit == Spec => []FitInv
BY FitBegins, FitStep, PTL DEF Spec

\* A channel that refuses, or confirms, does not keep the others from being
\* tried, quiet hours wrap around midnight, and tried channels are enabled
\* ones, whatever fails, is cut off or run again (alerts/service.py's any()
\* over a list, is_within_quiet_hours).
THEOREM ChannelsAreAllTried == Spec => []AlertInv
<1>1. FitInv => AlertInv
  <2> SUFFICES ASSUME FitInv PROVE AlertInv
    OBVIOUS
  <2>1. \A j \in Jobs : job[j] \in JobRecord /\ Fits(j, job[j])
    BY ClaimFacts DEF FitInv
  <2>2. TypeOK
    BY <2>1 DEF TypeOK, FitInv, ClaimInv, JobRecord, Fits
  <2>3. ChannelsIndependent
    BY <2>1 DEF ChannelsIndependent, Fits
  <2>4. QuietHoursWrap
    BY QuietHoursDo DEF FitInv, ClaimInv
  <2> QED BY <2>2, <2>3, <2>4 DEF AlertInv
<1> QED BY <1>1, AlertsFit, PTL

-----------------------------------------------------------------------------
(* Suppression                                                             *)

\* One job goes on, with what it has posted.
LEMMA ClaimsStandOn ==
    ASSUME FitInv, ClaimsStand, NEW j \in Jobs, NEW q,
           job' = [job EXCEPT ![j] = q], posts \subseteq posts', mishaps = {},
           \/ job[j].claim = NoClaim
           \/ /\ q.claim = job[j].claim
              /\ \/ q.pc = "sending"
                 \/ \A ch \in q.loaded.enabled : \E p \in posts' : p.claim = q.claim /\ p.channel = ch,
           \/ claim' = claim
           \/ claim'.job = j /\ q.claim = claim' /\ q.pc = "sending",
           q.result = "deduped" =>
              \/ job[j].claim = NoClaim /\ q.claim = claim /\ claim \in Claims
              \/ job[j].result = "deduped" /\ q.claim = job[j].claim,
           q.pc = "sending" => \A ch \in q.tried : \E p \in posts' : p.claim = q.claim /\ p.channel = ch
    PROVE  ClaimsStand'
<1>1. \A k \in Jobs : job'[k] = IF k = j THEN q ELSE job[k]
  BY DEF FitInv, ClaimInv
<1>2. NoClaim \notin Claims
  BY ClaimFacts DEF FitInv
<1>3. \A c \in Claims : c.job \in Jobs
  BY DEF Claims
\* What stands goes on standing.
<1>4. ASSUME NEW c \in Claims, Stands(c)
      PROVE  Stands(c)' /\ (job[j].claim = NoClaim => c.job # j)
  <2>1. job[c.job].claim = c /\ c # NoClaim
    BY <1>2, <1>4 DEF Stands
  <2>2. job[j].claim = NoClaim => c.job # j
    BY <2>1
  <2>3. CASE c.job # j
    BY <1>1, <1>3, <1>4, <2>3 DEF Stands, SentOn
  <2>4. CASE c.job = j
    BY <1>1, <1>4, <2>1, <2>4 DEF Stands, SentOn
  <2> QED BY <2>2, <2>3, <2>4
<1>5. claim' # NoClaim => Stands(claim)'
  <2>1. CASE claim' = claim
    <3>1. claim # NoClaim => claim \in Claims /\ Stands(claim)
      BY DEF ClaimsStand, FitInv, ClaimInv
    <3>2. PICK c : c = claim
      OBVIOUS
    <3>3. c \in Claims /\ Stands(c) => Stands(c)'
      BY <1>4
    <3>4. claim' = c
      BY <2>1, <3>2
    <3> QED BY <3>1, <3>2, <3>3, <3>4
  <2>2. CASE claim'.job = j /\ q.claim = claim' /\ q.pc = "sending"
    BY <1>1, <2>2 DEF Stands
  <2> QED BY <2>1, <2>2
<1>6. ASSUME NEW k \in Jobs, job'[k].result = "deduped" PROVE Stands(job[k].claim)'
  <2>1. job'[k].claim \in Claims /\ Stands(job'[k].claim)
    <3>1. \A i \in Jobs : job[i].result = "deduped" => job[i].claim \in Claims /\ Stands(job[i].claim)
      BY DEF FitInv, Fits, ClaimsStand
    <3>2. claim \in Claims => Stands(claim)
      BY <1>2 DEF ClaimsStand
    <3> QED BY <1>1, <1>6, <3>1, <3>2
  <2>2. PICK c : c = job'[k].claim
    OBVIOUS
  <2>3. Stands(c)'
    BY <1>4, <2>1, <2>2
  <2> QED BY <2>2, <2>3
<1>7. ASSUME NEW k \in Jobs, job'[k].pc = "sending" PROVE SentOn(job[k].claim, job[k].tried)'
  BY <1>1, <1>7 DEF ClaimsStand, SentOn
<1> QED BY <1>5, <1>6, <1>7 DEF ClaimsStand

LEMMA ClaimsStandStep ==
    ASSUME FitInv, FitInv', ClaimsStand, [Next]_vars
    PROVE  ClaimsStand'
<1> SUFFICES ASSUME mishaps' = {} PROVE ClaimsStand'
  BY DEF ClaimsStand
<1>1. ASSUME NEW j \in Jobs
      PROVE  /\ job[j] \in JobRecord /\ Fits(j, job[j]) /\ job \in [Jobs -> JobRecord]
  BY ClaimFacts DEF FitInv
<1>2. ASSUME NEW j \in Jobs, Start(j) PROVE ClaimsStand'
  <2> DEFINE n == job[j].try + 1
             q == IF IsWithinQuietHours(settings.quiet, now % Day) THEN Idle("done", n, "quiet_hours")
                  ELSE Idle("started", n, "none")
  <2>1. /\ job' = [job EXCEPT ![j] = q] /\ UNCHANGED <<claim, posts, mishaps>>
        /\ job[j].claim = NoClaim
    BY <1>1, <1>2 DEF Start, Fits
  <2>2. q.pc # "sending" /\ q.result # "deduped"
    BY DEF Idle
  <2> HIDE DEF q
  <2> QED BY <2>1, <2>2, ClaimsStandOn
<1>3. ASSUME NEW j \in Jobs, ShouldDedupe(j) PROVE ClaimsStand'
  <2>1. /\ UNCHANGED <<posts, mishaps>> /\ job[j].claim = NoClaim /\ job[j].pc = "started"
        /\ job[j].result = "none"
    BY <1>1, <1>3 DEF ShouldDedupe, Fits
  <2>2. CASE job[j].loaded.window # 0 /\ Live(claim)
    <3> DEFINE q == [job[j] EXCEPT !.pc = "done", !.result = "deduped", !.claim = claim]
    <3>1. /\ job' = [job EXCEPT ![j] = q] /\ claim' = claim /\ q.pc = "done" /\ q.claim = claim
          /\ claim \in Claims
      BY <1>1, <1>3, <2>2 DEF ShouldDedupe, JobRecord, Live, FitInv, ClaimInv
    <3> HIDE DEF q
    <3> QED BY <2>1, <3>1, ClaimsStandOn
  <2>3. CASE ~(job[j].loaded.window # 0 /\ Live(claim))
    <3> DEFINE c == ClaimOf(j)
               q == [job[j] EXCEPT !.pc = "sending", !.claim = c]
    <3>1. job' = [job EXCEPT ![j] = q] /\ (claim' = claim \/ claim' = c) /\ c.job = j
      BY <1>3, <2>3 DEF ShouldDedupe, ClaimOf
    <3>2. job[j].tried = {}
      BY <1>1, <2>1 DEF Fits
    <3> HIDE DEF c
    <3>3. q.pc = "sending" /\ q.claim = c /\ q.tried = {} /\ q.result = "none"
      BY <1>1, <2>1, <3>2 DEF JobRecord
    <3> HIDE DEF q
    <3> QED BY <2>1, <3>1, <3>3, ClaimsStandOn
  <2> QED BY <2>2, <2>3
<1>4. ASSUME NEW j \in Jobs, Finish(j) PROVE ClaimsStand'
  <2> DEFINE res == IF job[j].sent # {} THEN "ok" ELSE IF job[j].tried # {} THEN "failed"
                    ELSE "no_channels_enabled"
             q == [job[j] EXCEPT !.pc = "done", !.result = res]
  <2>1. /\ job' = [job EXCEPT ![j] = q] /\ UNCHANGED <<claim, posts, mishaps>> /\ job[j].pc = "sending"
    BY <1>4 DEF Finish
  <2>2. job[j].tried = job[j].loaded.enabled
    BY <1>4, FinishFits DEF FitInv
  <2>3. res # "deduped"
    OBVIOUS
  <2> HIDE DEF res
  <2>4. q.pc = "done" /\ q.result # "deduped" /\ q.claim = job[j].claim /\ q.loaded = job[j].loaded
    BY <1>1, <2>3 DEF JobRecord
  <2>5. \A ch \in q.loaded.enabled : \E p \in posts' : p.claim = q.claim /\ p.channel = ch
    BY <2>1, <2>2, <2>4 DEF ClaimsStand, SentOn
  <2> HIDE DEF q
  <2> QED BY <2>1, <2>4, <2>5, ClaimsStandOn
<1>5. ASSUME NEW j \in Jobs, NEW ch \in ChannelSet, Deliver(j, ch) PROVE ClaimsStand'
  <2>1. /\ posts' = posts \cup {[claim |-> job[j].claim, channel |-> ch]}
        /\ job' = [job EXCEPT ![j].tried = job[j].tried \cup {ch}, ![j].sent = job[j].sent \cup {ch}]
        /\ mishaps = {} /\ claim' = claim /\ job[j].pc = "sending"
    BY <1>5 DEF Deliver, NextUntried
  <2> DEFINE q == [job[j] EXCEPT !.tried = job[j].tried \cup {ch}, !.sent = job[j].sent \cup {ch}]
  <2>2. job' = [job EXCEPT ![j] = q] /\ job[j].result = "none"
    BY <1>1, <2>1 DEF Fits
  <2>3. /\ q.pc = job[j].pc /\ q.claim = job[j].claim /\ q.result = job[j].result
        /\ q.tried = job[j].tried \cup {ch}
    BY <1>1 DEF JobRecord
  <2> HIDE DEF q
  <2>4. ASSUME NEW c \in q.tried PROVE \E p \in posts' : p.claim = q.claim /\ p.channel = c
    <3>1. CASE c = ch
      <4> DEFINE p == [claim |-> job[j].claim, channel |-> ch]
      <4>1. p \in posts' /\ p.claim = q.claim /\ p.channel = c
        BY <2>1, <2>3, <3>1
      <4> QED BY <4>1
    <3>2. CASE c \in job[j].tried
      <4>1. \E p \in posts : p.claim = job[j].claim /\ p.channel = c
        BY <2>1, <3>2 DEF ClaimsStand, SentOn
      <4> QED BY <2>1, <2>3, <4>1
    <3> QED BY <2>3, <3>1, <3>2
  <2>5. q.pc = "sending" /\ q.result # "deduped" /\ posts \subseteq posts'
    BY <2>1, <2>2, <2>3
  <2> QED BY <2>1, <2>2, <2>3, <2>4, <2>5, ClaimsStandOn
<1>6. ASSUME NEW j \in Jobs, NEW ch \in ChannelSet, CutOff(j, ch) PROVE ClaimsStand'
  BY <1>6 DEF CutOff
<1>7. CASE WorkerCrash
  BY <1>7 DEF WorkerCrash
<1>8. CASE UpdateSettings \/ Tick \/ UNCHANGED vars
  BY <1>8 DEF UpdateSettings, Tick, vars, ClaimsStand, Stands, SentOn
<1> QED BY <1>2, <1>3, <1>4, <1>5, <1>6, <1>7, <1>8 DEF Next

\* When nothing fails, an alert is suppressed for one only that was sent, or
\* is being sent, on every channel that was enabled when its settings were
\* read: the claim that suppresses it still has its job.
THEOREM SuppressedForOne == Spec => []SuppressedForAnother
<1>1. Init => ClaimsStand
  BY DEF Init, ClaimsStand, Idle
<1>2. FitInv /\ ClaimsStand /\ [Next]_vars => ClaimsStand'
  BY FitStep, ClaimsStandStep
<1>3. FitInv /\ ClaimsStand => SuppressedForAnother
  <2> SUFFICES ASSUME FitInv, ClaimsStand, NEW j \in Jobs, job[j].result = "deduped", mishaps = {}
               PROVE  \E i \in Owner(job[j].claim) :
                        \/ job[i].pc = "sending"
                        \/ \A c \in job[i].loaded.enabled :
                             \E p \in posts : p.claim = job[j].claim /\ p.channel = c
    BY DEF SuppressedForAnother
  <2>1. job[j].claim \in Claims /\ Stands(job[j].claim)
    BY DEF FitInv, Fits, ClaimsStand
  <2>2. job[j].claim.job \in Owner(job[j].claim)
    BY <2>1 DEF Owner, Stands, Claims
  <2> QED BY <2>1, <2>2 DEF Stands, SentOn
<1> QED BY <1>1, <1>2, <1>3, AlertsFit, PTL DEF Spec
===============================================================================
