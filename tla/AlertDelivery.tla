---------------------------- MODULE AlertDelivery ----------------------------
(***************************************************************************)
(* send_alert jobs of one camera and reason: quiet hours, the dedup claim  *)
(* in Redis (SET NX EX), and the enabled channels tried one after the      *)
(* other.  A channel's answer may be lost after the message has arrived;   *)
(* the job may be cut off by its timeout, end in an error that _deliver    *)
(* does not expect, or be run again after the death of its worker.         *)
(*                                                                         *)
(* Time is a counter of ticks; a dedup window is Window ticks long and the *)
(* time of day is the counter modulo Day.                                  *)
(***************************************************************************)
EXTENDS Integers, FiniteSets, Sequences

CONSTANTS
    Jobs,       \* send_alert jobs for the camera and reason
    Channels,   \* discord, slack and smtp, in the order they are tried
    Window,     \* the dedup window, when it is on
    Day,        \* ticks of a day
    StartRows,  \* the AlertSettings rows that an instance starts from
    MaxTime,    \* bound: the last tick
    MaxUpdates  \* bound: changes of the settings

ASSUME AlertDeliveryAssumption ==
    /\ Window \in Nat \ {0} /\ Day \in Nat \ {0}
    /\ MaxTime \in Nat /\ MaxUpdates \in Nat
    /\ DOMAIN Channels = 1 .. Len(Channels)
    /\ \A i, k \in DOMAIN Channels : Channels[i] = Channels[k] => i = k

MaxTries == 2

ChannelSet == {Channels[i] : i \in DOMAIN Channels}

VARIABLES
    now,       \* the clock
    settings,  \* the AlertSettings row
    updates,   \* how often it was changed
    claim,     \* the Redis key: who set it, when, and when it expires
    job,       \* per job, where it is
    posts,     \* messages that arrived
    mishaps    \* history: the failures that have occurred

vars == <<now, settings, updates, claim, job, posts, mishaps>>

Times == 0..(Day - 1)
NoQuietHours == [start |-> -1, end |-> -1]
QuietHours == {NoQuietHours} \cup [start : Times, end : Times]
SettingsRows == [window : {0, Window}, enabled : SUBSET ChannelSet, quiet : QuietHours]

ASSUME StartRowsAssumption == StartRows \subseteq SettingsRows

Claims == [job : Jobs, try : 1..MaxTries, at : 0..MaxTime, window : {0, Window}]
NoClaim == [at |-> -1]

PCs == {"queued", "started", "sending", "done"}
Results == {"none", "quiet_hours", "deduped", "ok", "failed", "no_channels_enabled", "cut_off"}

Posts == [claim : Claims, channel : ChannelSet]

\* A job: `tried` are the channels it has tried, `sent` those that confirmed,
\* `loaded` the settings it read, `claim` the claim it holds or was deduped by.
Idle(pc, try, result) ==
    [pc |-> pc, try |-> try, result |-> result, tried |-> {}, sent |-> {},
     loaded |-> [window |-> settings.window, enabled |-> settings.enabled], claim |-> NoClaim]

-----------------------------------------------------------------------------
(* Deciding whether to notify                                              *)

IsWithinQuietHours(quiet, t) ==
    /\ quiet # NoQuietHours
    /\ IF quiet.start <= quiet.end
       THEN quiet.start <= t /\ t <= quiet.end
       ELSE t >= quiet.start \/ t <= quiet.end

Live(c) == c # NoClaim /\ now < c.at + c.window

\* Mutant: the alert is claimed before quiet hours are looked at.
StartClaiming(j) ==
    /\ job[j].pc = "queued"
    /\ LET n == job[j].try + 1
           c == [job |-> j, try |-> n, at |-> now, window |-> settings.window] IN
         IF IsWithinQuietHours(settings.quiet, now % Day) /\ ~Live(claim)
         THEN /\ claim' = c
              /\ job' = [job EXCEPT ![j] = [Idle("done", n, "quiet_hours") EXCEPT !.claim = c]]
         ELSE /\ claim' = claim
              /\ job' = [job EXCEPT ![j] = Idle("started", n, "none")]
    /\ UNCHANGED <<now, settings, updates, posts, mishaps>>

\* A job is picked up some time after analyze_clip or the sync enqueued it;
\* until then it is as if it were not there.  The settings are read once; in
\* quiet hours nothing else is done.
Start(j) ==
    /\ job[j].pc = "queued"
    /\ LET n == job[j].try + 1 IN
         job' = [job EXCEPT ![j] =
           IF IsWithinQuietHours(settings.quiet, now % Day) THEN Idle("done", n, "quiet_hours")
           ELSE Idle("started", n, "none")]
    /\ UNCHANGED <<now, settings, updates, claim, posts, mishaps>>

ClaimOf(j) == [job |-> j, try |-> job[j].try, at |-> now, window |-> job[j].loaded.window]

\* Mutant: the key is set even if it exists (no NX).
ShouldDedupeOverwriting(j) ==
    /\ job[j].pc = "started"
    /\ job' = [job EXCEPT ![j].pc = "sending", ![j].claim = ClaimOf(j)]
    /\ claim' = IF job[j].loaded.window = 0 THEN claim ELSE ClaimOf(j)
    /\ UNCHANGED <<now, settings, updates, posts, mishaps>>

\* should_dedupe: SET NX EX, before anything is delivered.
ShouldDedupe(j) ==
    /\ job[j].pc = "started"
    /\ IF job[j].loaded.window = 0
       THEN /\ job' = [job EXCEPT ![j].pc = "sending", ![j].claim = ClaimOf(j)]
            /\ claim' = claim
       ELSE IF Live(claim)
       THEN /\ job' = [job EXCEPT ![j].pc = "done", ![j].result = "deduped", ![j].claim = claim]
            /\ claim' = claim
       ELSE /\ job' = [job EXCEPT ![j].pc = "sending", ![j].claim = ClaimOf(j)]
            /\ claim' = ClaimOf(j)
    /\ UNCHANGED <<now, settings, updates, posts, mishaps>>

-----------------------------------------------------------------------------
(* Delivery                                                                *)

Untried(j) == job[j].loaded.enabled \ job[j].tried

\* Mutant: any() over a generator stops at the first success.
NextUntriedLazily(j, c) ==
    /\ job[j].pc = "sending" /\ c \in Untried(j)
    /\ job[j].sent = {}
    /\ \A i, k \in DOMAIN Channels : Channels[i] \in Untried(j) /\ Channels[k] = c => k <= i

\* The enabled channels are tried in their order, whatever the others did.
NextUntried(j, c) ==
    /\ job[j].pc = "sending" /\ c \in Untried(j)
    /\ \A i, k \in DOMAIN Channels : Channels[i] \in Untried(j) /\ Channels[k] = c => k <= i

\* Confirmed, or AlertDeliveryError: the message may have arrived all the same.
Deliver(j, c) ==
    /\ NextUntried(j, c)
    /\ \E confirmed, arrived \in BOOLEAN :
         /\ confirmed => arrived
         /\ posts' = IF arrived THEN posts \cup {[claim |-> job[j].claim, channel |-> c]} ELSE posts
         /\ job' = [job EXCEPT ![j].tried = job[j].tried \cup {c},
                               ![j].sent = IF confirmed THEN job[j].sent \cup {c} ELSE job[j].sent]
         /\ mishaps' = IF confirmed THEN mishaps ELSE mishaps \cup {"failure"}
    /\ UNCHANGED <<now, settings, updates, claim>>

Finish(j) ==
    /\ job[j].pc = "sending" /\ ~\E c \in Untried(j) : NextUntried(j, c)
    /\ job' = [job EXCEPT ![j].pc = "done", ![j].result =
         IF job[j].sent # {} THEN "ok" ELSE IF job[j].tried # {} THEN "failed"
         ELSE "no_channels_enabled"]
    /\ UNCHANGED <<now, settings, updates, claim, posts, mishaps>>

\* The job's timeout is over while a channel is slow, or a channel raises
\* something else than AlertDeliveryError: arq does not retry either.
CutOff(j, c) ==
    /\ NextUntried(j, c)
    /\ \E arrived \in BOOLEAN :
         posts' = IF arrived THEN posts \cup {[claim |-> job[j].claim, channel |-> c]} ELSE posts
    /\ job' = [job EXCEPT ![j].pc = "done", ![j].result = "cut_off",
                          ![j].tried = job[j].tried \cup {c}]
    /\ mishaps' = mishaps \cup {"failure"}
    /\ UNCHANGED <<now, settings, updates, claim>>

Retried(j) ==
    IF job[j].try < MaxTries THEN Idle("queued", job[j].try, "none")
    ELSE Idle("done", job[j].try, "cut_off")

\* The worker dies with its jobs; arq runs them again while tries are left.
WorkerCrash ==
    /\ \E j \in Jobs : job[j].pc \in {"started", "sending"}
    /\ job' = [j \in Jobs |-> IF job[j].pc \in {"started", "sending"} THEN Retried(j) ELSE job[j]]
    /\ mishaps' = mishaps \cup {"crash"}
    /\ UNCHANGED <<now, settings, updates, claim, posts>>

\* update_alert_settings.
UpdateSettings ==
    /\ updates < MaxUpdates
    /\ \/ \E w \in {0, Window} : settings' = [settings EXCEPT !.window = w]
       \/ \E e \in {{}, ChannelSet} : settings' = [settings EXCEPT !.enabled = e]
    /\ settings' # settings
    /\ updates' = updates + 1
    /\ UNCHANGED <<now, claim, job, posts, mishaps>>

Tick ==
    /\ now < MaxTime
    /\ now' = now + 1
    /\ UNCHANGED <<settings, updates, claim, job, posts, mishaps>>

-----------------------------------------------------------------------------
Init ==
    /\ now = 0
    /\ settings \in StartRows
    /\ updates = 0
    /\ claim = NoClaim
    /\ job = [j \in Jobs |-> Idle("queued", 0, "none")]
    /\ posts = {}
    /\ mishaps = {}

Next ==
    \/ \E j \in Jobs : Start(j) \/ ShouldDedupe(j) \/ Finish(j)
    \/ \E j \in Jobs, c \in ChannelSet : Deliver(j, c) \/ CutOff(j, c)
    \/ WorkerCrash \/ UpdateSettings \/ Tick

Spec == Init /\ [][Next]_vars

-----------------------------------------------------------------------------
(* Properties                                                              *)

\* What send_alert jobs leave in Redis and send; tried channels are enabled ones.
TypeOK ==
    /\ now \in 0..MaxTime /\ updates \in 0..MaxUpdates
    /\ settings \in SettingsRows
    /\ claim = NoClaim \/ claim \in Claims
    /\ \A j \in Jobs :
         /\ job[j].pc \in PCs /\ job[j].try \in 0..MaxTries /\ job[j].result \in Results
         /\ job[j].sent \subseteq job[j].tried /\ job[j].tried \subseteq job[j].loaded.enabled
         /\ job[j].loaded \in [window : {0, Window}, enabled : SUBSET ChannelSet]
         /\ job[j].claim = NoClaim \/ job[j].claim \in Claims
    /\ posts \subseteq Posts
    /\ mishaps \subseteq {"failure", "crash"}

\* The times from `start` on until `end`, around midnight if need be
\* (is_within_quiet_hours; docs: "wraps midnight correctly").
QuietHoursWrap ==
    \A start, end \in Times :
       LET t == now % Day IN
         IsWithinQuietHours([start |-> start, end |-> end], t)
           <=> (t - start) % Day <= (end - start) % Day

\* Two messages on one channel that were both subject to dedup go back to one
\* claim, or to claims a window apart: retries and settings changes included
\* (the SET NX of should_dedupe).
OnePerWindow ==
    \A p, q \in posts :
       /\ p.channel = q.channel /\ p.claim # q.claim
       /\ p.claim.window > 0 /\ q.claim.window > 0
       => p.claim.at + p.claim.window <= q.claim.at \/ q.claim.at + q.claim.window <= p.claim.at

Owner(c) == {j \in Jobs : job[j].claim = c /\ c.job = j}

\* When nothing fails, an alert is suppressed only for one that was sent, or
\* is being sent, on every channel enabled then.
SuppressedForAnother ==
    \A j \in Jobs :
       job[j].result = "deduped" /\ mishaps = {} =>
         \E i \in Owner(job[j].claim) :
            \/ job[i].pc = "sending"
            \/ \A c \in job[i].loaded.enabled : \E p \in posts : p.claim = job[j].claim /\ p.channel = c

\* A channel that confirms or refuses does not keep the others from being
\* tried (_deliver turns AlertDeliveryError into False; any() gets a list).
ChannelsIndependent ==
    \A j \in Jobs :
       job[j].result \in {"ok", "failed", "no_channels_enabled"} => job[j].tried = job[j].loaded.enabled

\* What holds of every alert, whatever fails.
AlertInv == TypeOK /\ ChannelsIndependent /\ QuietHoursWrap

-----------------------------------------------------------------------------
(* The inductive invariant of AlertInv and SuppressedForAnother.           *)

\* A job has no claim, no result and has tried nothing before its turn comes.
ResultsFollow ==
    \A j \in Jobs :
       /\ job[j].pc # "done" => job[j].result = "none"
       /\ job[j].pc \in {"queued", "started"} => job[j].claim = NoClaim /\ job[j].tried = {}
       /\ job[j].pc = "sending" => job[j].claim.job = j /\ job[j].claim.try = job[j].try
       /\ job[j].result = "deduped" => job[j].claim \in Claims

SentOn(c, channels) == \A ch \in channels : \E p \in posts : p.claim = c /\ p.channel = ch

\* Its job has it, and sends under it or has sent under it everywhere.
Stands(c) ==
    /\ job[c.job].claim = c
    /\ job[c.job].pc = "sending" \/ SentOn(c, job[c.job].loaded.enabled)

\* When nothing fails, the key in Redis stands, and so does what it suppressed.
ClaimsStand ==
    mishaps = {} =>
      /\ claim # NoClaim => Stands(claim)
      /\ \A j \in Jobs : job[j].result = "deduped" => Stands(job[j].claim)
      /\ \A j \in Jobs : job[j].pc = "sending" => SentOn(job[j].claim, job[j].tried)

AlertIInv == TypeOK /\ ChannelsIndependent /\ ResultsFollow /\ ClaimsStand
=============================================================================
