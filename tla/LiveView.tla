------------------------------ MODULE LiveView ------------------------------
(***************************************************************************)
(* Live view: LiveViewSessionManager of one API process.  A session is an  *)
(* ffmpeg process, blinkpy's relay and the task that feeds it, a Blink     *)
(* client and a directory.  Requests start and stop sessions, a sweeper    *)
(* stops idle ones, shutdown stops all.  Starts hold a lock from beginning *)
(* to end; _stop takes none and awaits the process, the feed and the       *)
(* client one after the other, so that two may stop one session.           *)
(***************************************************************************)
EXTENDS Naturals, FiniteSets

CONSTANTS
    Cameras,
    Viewers,     \* slots for start and stop requests being handled
    MaxStreams   \* bound: streams with anything left at a time

ASSUME LiveViewAssumption ==
    /\ MaxStreams \in Nat
    /\ {"sweeper", "main", "nobody"} \cap Viewers = {} /\ "none" \notin Cameras

Streams == 1..MaxStreams
NoStream == 0
Nobody == "nobody"
Actors == Viewers \cup {"sweeper", "main"}

VARIABLES
    stream,    \* what is left of each stream
    sessions,  \* _sessions
    idle,      \* those among them not used for sixty seconds
    byCamera,  \* _by_camera
    lock,      \* the request that holds _lock
    actor,     \* what each request, the sweeper and shutdown are doing
    up         \* requests are accepted

liveVars == <<stream, sessions, idle, byCamera, lock, actor, up>>

\* `cancelled`: its feed ended by a stop's giving it up.  `lost`: whoever was
\* responsible for it ended by an unexpected error.
Nothing == [camera |-> "none", process |-> FALSE, relay |-> FALSE, feeding |-> FALSE,
            cancelled |-> FALSE, service |-> FALSE, dir |-> FALSE, lost |-> FALSE]
Inactive == [pc |-> "off", own |-> NoStream, stop |-> NoStream, left |-> {}]

Held(i) == stream[i].process \/ stream[i].relay \/ stream[i].feeding \/ stream[i].service \/ stream[i].dir
InHand(a, i) == i \in {actor[a].own, actor[a].stop} \cup actor[a].left
Unused(i) == ~Held(i) /\ \A a \in Actors : ~InHand(a, i)
IsNext(i) == Unused(i) /\ \A j \in 1..(i - 1) : ~Unused(j)

LiveInit ==
    /\ stream = [i \in Streams |-> Nothing]
    /\ sessions = {} /\ idle = {}
    /\ byCamera = [c \in Cameras |-> NoStream]
    /\ lock = Nobody
    /\ actor = [a \in Actors |-> Inactive]
    /\ up = TRUE

-----------------------------------------------------------------------------
(* _stop                                                                   *)

\* Out of both tables; then the process is terminated, or, when it has ended
\* already, the relay is stopped.
BeginStop(a, i, job, actors, base) ==
    /\ sessions' = sessions \ {i}
    /\ idle' = idle \ {i}
    /\ byCamera' = [c \in Cameras |-> IF byCamera[c] = i THEN NoStream ELSE byCamera[c]]
    /\ actor' = [actors EXCEPT ![a] = [job EXCEPT !.stop = i,
                                        !.pc = IF base[i].process THEN "process" ELSE "feed"]]
    /\ stream' = IF base[i].process THEN base ELSE [base EXCEPT ![i].relay = FALSE]

\* terminate, or kill after five seconds; then handle.stop().
ProcessStops(a) ==
    /\ actor[a].pc = "process"
    /\ stream' = [stream EXCEPT ![actor[a].stop].process = FALSE, ![actor[a].stop].relay = FALSE]
    /\ actor' = [actor EXCEPT ![a].pc = "feed"]
    /\ UNCHANGED <<sessions, idle, byCamera, lock, up>>

FeedStopped(a) ==
    /\ actor[a].pc = "feed"
    /\ ~stream[actor[a].stop].feeding /\ ~stream[actor[a].stop].cancelled
    /\ actor' = [actor EXCEPT ![a].pc = "close"]
    /\ UNCHANGED <<stream, sessions, idle, byCamera, lock, up>>

\* CancelledError is not among the exceptions that _stop suppresses: whoever
\* awaits a feed that another stop gives up, or has given up, ends with it,
\* and what a start had opened has nobody any more.
Caught(a) == {b \in Actors \ {a} : actor[b].pc = "feed" /\ actor[b].stop = actor[a].stop}

Cancelled(b) == [Inactive EXCEPT !.pc = IF b = "sweeper" THEN "dead" ELSE "off"]

StoppedByOther(a) == \E b \in Actors \ {a} : actor[b].stop = actor[a].stop

\* Mutant: a feed that goes on is waited for.
FeedWaits(a) == FeedStopped(a) /\ actor[a].pc = "none"

\* wait_for gives up after five seconds and cancels the feed.
FeedTimesOut(a) ==
    /\ actor[a].pc = "feed" /\ stream[actor[a].stop].feeding
    /\ actor' = [b \in Actors |-> IF b = a THEN [actor[a] EXCEPT !.pc = "close"]
                                  ELSE IF b \in Caught(a) THEN Cancelled(b) ELSE actor[b]]
    /\ stream' = [i \in Streams |-> [stream[i] EXCEPT
                     !.feeding = @ /\ i # actor[a].stop,
                     !.cancelled = @ \/ i = actor[a].stop,
                     !.lost = @ \/ (i # actor[a].stop /\ \E b \in Caught(a) : actor[b].own = i)]]
    /\ lock' = IF lock \in Caught(a) THEN Nobody ELSE lock
    /\ UNCHANGED <<sessions, idle, byCamera, up>>

\* The feed was cancelled before.
FeedRaises(a) ==
    LET i == actor[a].stop IN
    /\ actor[a].pc = "feed" /\ stream[i].cancelled
    /\ actor' = [actor EXCEPT ![a] = Cancelled(a)]
    /\ stream' = [k \in Streams |-> [stream[k] EXCEPT
                     !.cancelled = @ /\ (k = i => StoppedByOther(a)),
                     !.lost = @ \/ (k # i /\ k = actor[a].own)]]
    /\ lock' = IF lock = a THEN Nobody ELSE lock
    /\ UNCHANGED <<sessions, idle, byCamera, up>>

\* The client is closed and the directory removed.
Cleared(a) ==
    [stream EXCEPT ![actor[a].stop] =
        [Nothing EXCEPT !.cancelled = stream[actor[a].stop].cancelled /\ StoppedByOther(a)]]

-----------------------------------------------------------------------------
(* Starting                                                                *)

\* start_live_view: blinkpy's relay listens, its client is open.
OpenRelay(v, c) ==
    /\ up /\ actor[v].pc = "off"
    /\ \E i \in Streams :
         /\ IsNext(i)
         /\ stream' = [stream EXCEPT ![i] = [Nothing EXCEPT !.camera = c, !.relay = TRUE, !.service = TRUE]]
         /\ actor' = [actor EXCEPT ![v] = [Inactive EXCEPT !.pc = "lock", !.own = i]]
    /\ UNCHANGED <<sessions, idle, byCamera, lock, up>>

\* The feed task and the directory are there before ffmpeg is.
Prepared(base, i) == [base EXCEPT ![i].feeding = TRUE, ![i].dir = TRUE]

Sweeping == [actor EXCEPT !["sweeper"].pc = IF @ = "off" THEN "asleep" ELSE @]

\* Mutant: starts do not wait for each other.
AcquireAtOnce(v) ==
    LET old == byCamera[stream[actor[v].own].camera] IN
    /\ actor[v].pc = "lock"
    /\ lock' = v
    /\ old = NoStream
    /\ actor' = [Sweeping EXCEPT ![v].pc = "spawn"]
    /\ stream' = Prepared(stream, actor[v].own)
    /\ UNCHANGED <<sessions, idle, byCamera, up>>

\* The first start brings the sweeper to life; a session that the camera has
\* is stopped first.
Acquire(v) ==
    LET old == byCamera[stream[actor[v].own].camera] IN
    /\ actor[v].pc = "lock" /\ lock = Nobody
    /\ lock' = v
    /\ \/ /\ old = NoStream
          /\ actor' = [Sweeping EXCEPT ![v].pc = "spawn"]
          /\ stream' = Prepared(stream, actor[v].own)
          /\ UNCHANGED <<sessions, idle, byCamera>>
       \/ old # NoStream /\ BeginStop(v, old, actor[v], actor, stream)
    /\ UNCHANGED up

OldStopped(v) ==
    /\ actor[v].pc = "close" /\ lock = v /\ actor[v].stop # actor[v].own
    /\ stream' = Prepared(Cleared(v), actor[v].own)
    /\ actor' = [actor EXCEPT ![v].pc = "spawn", ![v].stop = NoStream]
    /\ UNCHANGED <<sessions, idle, byCamera, lock, up>>

Spawn(v) ==
    /\ actor[v].pc = "spawn"
    /\ stream' = [stream EXCEPT ![actor[v].own].process = TRUE]
    /\ actor' = [actor EXCEPT ![v].pc = "playlist"]
    /\ UNCHANGED <<sessions, idle, byCamera, lock, up>>

\* ffmpeg cannot be started: LiveViewStartError.
SpawnFails(v) ==
    /\ actor[v].pc = "spawn"
    /\ stream' = [stream EXCEPT ![actor[v].own] = Nothing]
    /\ actor' = [actor EXCEPT ![v] = Inactive]
    /\ lock' = Nobody
    /\ UNCHANGED <<sessions, idle, byCamera, up>>

\* The directory or the log file cannot be created: an OSError that nobody
\* handles.
SpawnBreaks(v) ==
    /\ actor[v].pc = "spawn"
    /\ \E made \in BOOLEAN :
         stream' = [stream EXCEPT ![actor[v].own].dir = made, ![actor[v].own].lost = TRUE]
    /\ actor' = [actor EXCEPT ![v] = Inactive]
    /\ lock' = Nobody
    /\ UNCHANGED <<sessions, idle, byCamera, up>>

\* The first playlist is there: the session is entered into both tables.
Register(v) ==
    LET i == actor[v].own IN
    /\ actor[v].pc = "playlist" /\ stream[i].process
    /\ sessions' = sessions \cup {i}
    /\ byCamera' = [byCamera EXCEPT ![stream[i].camera] = i]
    /\ actor' = [actor EXCEPT ![v] = Inactive]
    /\ lock' = Nobody
    /\ UNCHANGED <<stream, idle, up>>

\* Mutant: the error is passed on, and nothing stopped.
PlaylistFailsQuickly(v) ==
    /\ actor[v].pc = "playlist"
    /\ actor' = [actor EXCEPT ![v] = Inactive]
    /\ lock' = Nobody
    /\ UNCHANGED <<stream, sessions, idle, byCamera, up>>

\* ffmpeg ended, or 20 seconds passed without a playlist.
PlaylistFails(v) ==
    /\ actor[v].pc = "playlist"
    /\ BeginStop(v, actor[v].own, actor[v], actor, stream)
    /\ UNCHANGED <<lock, up>>

FailedStopped(v) ==
    /\ actor[v].pc = "close" /\ lock = v /\ actor[v].stop = actor[v].own
    /\ stream' = Cleared(v)
    /\ actor' = [actor EXCEPT ![v] = Inactive]
    /\ lock' = Nobody
    /\ UNCHANGED <<sessions, idle, byCamera, up>>

-----------------------------------------------------------------------------
(* Using, stopping, sweeping, shutting down                                *)

\* get_file: a playlist or segment is asked for.
Access(i) ==
    /\ i \in idle
    /\ idle' = idle \ {i}
    /\ UNCHANGED <<stream, sessions, byCamera, lock, actor, up>>

\* Sixty seconds without a request.
GrowIdle(i) ==
    /\ i \in sessions \ idle
    /\ idle' = idle \cup {i}
    /\ UNCHANGED <<stream, sessions, byCamera, lock, actor, up>>

\* ffmpeg ends by itself, or the relay's feed does.
ProcessExits(i) ==
    /\ stream[i].process /\ ~stream[i].lost
    /\ stream' = [stream EXCEPT ![i].process = FALSE]
    /\ UNCHANGED <<sessions, idle, byCamera, lock, actor, up>>

FeedEnds(i) ==
    /\ stream[i].feeding /\ ~stream[i].lost
    /\ stream' = [stream EXCEPT ![i].feeding = FALSE]
    /\ UNCHANGED <<sessions, idle, byCamera, lock, actor, up>>

StopRequest(v, i) ==
    /\ up /\ actor[v].pc = "off" /\ i \in sessions
    /\ BeginStop(v, i, Inactive, actor, stream)
    /\ UNCHANGED <<lock, up>>

RequestStopped(v) ==
    /\ actor[v].pc = "close" /\ actor[v].own = NoStream
    /\ stream' = Cleared(v)
    /\ actor' = [actor EXCEPT ![v] = Inactive]
    /\ UNCHANGED <<sessions, idle, byCamera, lock, up>>

\* The list is made once; the stops after the first go by it.
Sweep ==
    /\ actor["sweeper"].pc = "asleep"
    /\ \E i \in idle : BeginStop("sweeper", i, [Inactive EXCEPT !.left = idle \ {i}], actor, stream)
    /\ UNCHANGED <<lock, up>>

\* The next session of a sweep's or of shutdown's list.
NextStop(a) ==
    /\ actor[a].pc = "close"
    /\ \E i \in actor[a].left :
         BeginStop(a, i, [actor[a] EXCEPT !.left = @ \ {i}], actor, Cleared(a))
    /\ UNCHANGED <<lock, up>>

LastStop(a) ==
    /\ actor[a].pc = "close" /\ actor[a].left = {}
    /\ stream' = Cleared(a)
    /\ actor' = [actor EXCEPT ![a] = [Inactive EXCEPT !.pc = IF a = "sweeper" THEN "asleep" ELSE "off"]]
    /\ UNCHANGED <<sessions, idle, byCamera, lock, up>>

\* aclose, when the last request is answered: the sweeper is cancelled, in
\* the middle of a stop if it comes to that, and the listed sessions stopped.
Shutdown ==
    LET cut == [i \in Streams |-> [stream[i] EXCEPT !.lost = @ \/ i = actor["sweeper"].stop]]
        swept == [actor EXCEPT !["sweeper"] = [Inactive EXCEPT !.pc = "dead"]]
    IN
    /\ up /\ \A v \in Viewers : actor[v].pc = "off"
    /\ up' = FALSE
    /\ \/ /\ sessions = {}
          /\ stream' = cut /\ actor' = swept
          /\ UNCHANGED <<sessions, idle, byCamera>>
       \/ \E i \in sessions :
            BeginStop("main", i, [Inactive EXCEPT !.left = sessions \ {i}], swept, cut)
    /\ UNCHANGED lock

-----------------------------------------------------------------------------

StartStep(v) ==
    \/ OldStopped(v) \/ Spawn(v) \/ SpawnFails(v) \/ SpawnBreaks(v)
    \/ Register(v) \/ PlaylistFails(v) \/ FailedStopped(v)

StopStep(a) ==
    \/ ProcessStops(a) \/ FeedStopped(a) \/ FeedTimesOut(a) \/ FeedRaises(a)
    \/ a \in Viewers /\ RequestStopped(a)
    \/ a \notin Viewers /\ (NextStop(a) \/ LastStop(a))

LiveNext ==
    \/ \E v \in Viewers :
         \/ \E c \in Cameras : OpenRelay(v, c)
         \/ Acquire(v) \/ StartStep(v)
         \/ \E i \in Streams : StopRequest(v, i)
    \/ \E a \in Actors : StopStep(a)
    \/ \E i \in Streams : Access(i) \/ GrowIdle(i) \/ ProcessExits(i) \/ FeedEnds(i)
    \/ Sweep \/ Shutdown

LiveSpec == LiveInit /\ [][LiveNext]_liveVars

\* Awaits return or time out, asyncio.Lock is first come first served, and the
\* sweeper's sleep ends.
LiveFairness ==
    /\ \A v \in Viewers : WF_liveVars(StartStep(v)) /\ SF_liveVars(Acquire(v))
    /\ \A a \in Actors : WF_liveVars(StopStep(a))
    /\ WF_liveVars(Sweep)

LiveFairSpec == LiveSpec /\ LiveFairness

-----------------------------------------------------------------------------

LiveTypeOK ==
    /\ stream \in [Streams -> [camera : Cameras \cup {"none"}, process : BOOLEAN, relay : BOOLEAN, feeding : BOOLEAN,
                               cancelled : BOOLEAN, service : BOOLEAN, dir : BOOLEAN, lost : BOOLEAN]]
    /\ sessions \in SUBSET Streams /\ idle \in SUBSET sessions
    /\ byCamera \in [Cameras -> Streams \cup {NoStream}]
    /\ lock \in Viewers \cup {Nobody}
    /\ actor \in [Actors -> [pc : {"off", "lock", "spawn", "playlist", "process", "feed", "close",
                                   "asleep", "dead"},
                             own : Streams \cup {NoStream}, stop : Streams \cup {NoStream},
                             left : SUBSET Streams]]
    /\ up \in BOOLEAN

\* A camera has one session at most, and the two tables name the same one:
\* "only ever mutated together" (live_stream.py:167-170), which start_session
\* relies on when it indexes without looking.
TablesAgree ==
    /\ \A i \in sessions : stream[i].camera \in Cameras /\ byCamera[stream[i].camera] = i
    /\ \A c \in Cameras : byCamera[c] # NoStream =>
         byCamera[c] \in sessions /\ stream[byCamera[c]].camera = c

\* A session that can be looked up has its Blink client and its directory, and
\* nobody is stopping it, however many stop at once.
ListedIsWhole ==
    \A i \in sessions :
       /\ stream[i].service /\ stream[i].dir /\ ~stream[i].lost
       /\ \A a \in Actors : i \notin {actor[a].own, actor[a].stop}

\* Whatever is left of a stream, process, relay, feed, client or directory, is
\* somebody's: a session's, a start's, a stop's.  Lost are streams of starts
\* that met an error nobody expects, and of a stop cut off by shutdown.
NothingLeaks ==
    \A i \in Streams : Held(i) =>
       i \in sessions \/ stream[i].lost \/ \E a \in Actors : InHand(a, i)

\* An abandoned session is stopped by the sweeper, unless the sweeper ended:
\* cancelled together with a feed that another stop of the same session gave up.
IdleIsSwept ==
    \A i \in Streams :
       i \in idle ~> (i \notin idle \/ actor["sweeper"].pc = "dead")

\* Every start and stop comes to an end, in whatever way.
RequestsEnd ==
    \A v \in Viewers : actor[v].pc # "off" ~> actor[v].pc = "off"

\* What a request has before it at most; the stop of the camera's old session
\* is followed by the start, the stop of one's own is the end of it.
Before(r) ==
    IF r.pc \in {"process", "feed", "close"}
      THEN [process |-> 3, feed |-> 2, close |-> 1][r.pc] + (IF r.stop = r.own THEN 0 ELSE 5)
    ELSE [off |-> 0, playlist |-> 4, spawn |-> 5, lock |-> 9, asleep |-> 0, dead |-> 0][r.pc]

\* Why they end: no step, of theirs or of others, sends a request back, however
\* many stop one session and whoever is cancelled with whose feed ...
RequestsGoForward ==
    [][\A v \in Viewers : actor[v].pc # "off" =>
          actor'[v] = actor[v] \/ Before(actor'[v]) < Before(actor[v])]_liveVars

\* ... and whoever waits for the lock waits for a start that does not wait for
\* it: start_session gives it back on each of its ways out, a cancelled await
\* of the old session's feed included.
LockGoesOn ==
    lock # Nobody => actor[lock].own # NoStream /\ actor[lock].pc # "lock"

-----------------------------------------------------------------------------
(* Why these hold.                                                         *)

\* What an actor's record may hold in each phase.
ActorShape ==
    /\ up => actor["main"].pc = "off"
    /\ lock # Nobody => actor[lock].own # NoStream
    /\ \A a \in Actors :
         /\ actor[a].pc \in {"process", "feed", "close"} <=> actor[a].stop # NoStream
         /\ actor[a].pc \in {"lock", "spawn", "playlist"} => actor[a].own # NoStream
         /\ actor[a].own # NoStream =>
              a \in Viewers /\ actor[a].pc \in {"lock", "spawn", "playlist", "process", "feed", "close"}
         /\ a \in Viewers => actor[a].left = {}

\* A stream that is being started is its request's alone; past the lock, the
\* request holds it and the camera has no other session.
OwnsApart ==
    \A a \in Actors :
       LET i == actor[a].own IN
       i # NoStream =>
         /\ i \notin sessions /\ ~stream[i].lost /\ stream[i].camera \in Cameras
         /\ \A b \in Actors \ {a} : ~InHand(b, i)
         /\ actor[a].stop # i => stream[i].service
         /\ actor[a].pc # "lock" => lock = a
         /\ actor[a].pc # "lock" /\ actor[a].stop # i => byCamera[stream[i].camera] = NoStream
         /\ actor[a].pc \in {"spawn", "playlist"} => stream[i].dir

\* NothingLeaks, with no help from the lists of a sweep or of shutdown.
Owned ==
    \A i \in Streams : Held(i) =>
       i \in sessions \/ stream[i].lost \/ \E a \in Actors : i \in {actor[a].own, actor[a].stop}

\* A feed that was given up is over, and the stop that gave it up goes on to
\* the end: the others may fall away.
GivenUpIsClosed ==
    \A i \in Streams : stream[i].cancelled =>
       /\ ~stream[i].feeding
       /\ Held(i) => stream[i].lost \/ \E a \in Actors : actor[a].stop = i /\ actor[a].pc = "close"

\* What holds of the two tables, of what they list, and of what starts and
\* stops have in hand meanwhile.
LiveInv ==
    /\ LiveTypeOK /\ TablesAgree /\ ListedIsWhole
    /\ ActorShape /\ OwnsApart /\ Owned /\ GivenUpIsClosed
=============================================================================
