---------------------------- MODULE LiveView_proofs ----------------------------
(***************************************************************************)
(* Theorems about LiveView for any number of cameras, requests and         *)
(* streams.  The steps fall into classes by what they do to the actor that *)
(* takes them: it begins to stop a stream, it goes on, it ends.  Each      *)
(* class has a lemma, and so have the few steps that are like no other.    *)
(***************************************************************************)
EXTENDS LiveView, TLAPS

StopPCs == {"process", "feed", "close"}

StreamRecord == [camera : Cameras \cup {"none"}, process : BOOLEAN, relay : BOOLEAN, feeding : BOOLEAN,
                 cancelled : BOOLEAN, service : BOOLEAN, dir : BOOLEAN, lost : BOOLEAN]
ActorRecord == [pc : {"off", "lock", "spawn", "playlist", "process", "feed", "close", "asleep", "dead"},
                own : Streams \cup {NoStream}, stop : Streams \cup {NoStream}, left : SUBSET Streams]

HeldIn(s) == s.process \/ s.relay \/ s.feeding \/ s.service \/ s.dir

ShapeOf(a, r) ==
    /\ r.pc \in {"process", "feed", "close"} <=> r.stop # NoStream
    /\ r.pc \in {"lock", "spawn", "playlist"} => r.own # NoStream
    /\ r.own # NoStream =>
         a \in Viewers /\ r.pc \in {"lock", "spawn", "playlist", "process", "feed", "close"}
    /\ a \in Viewers => r.left = {}

\* What OwnsApart says of one actor, but for its being alone.
OwnOf(a, r, s, ses, byC, l) ==
    LET i == r.own IN
    i # NoStream =>
      /\ i \notin ses /\ ~s[i].lost /\ s[i].camera \in Cameras
      /\ r.stop # i => s[i].service
      /\ r.pc # "lock" => l = a
      /\ r.pc # "lock" /\ r.stop # i => byC[s[i].camera] = NoStream
      /\ r.pc \in {"spawn", "playlist"} => s[i].dir

\* LiveInv but for the feeds that were given up, which have a part of their own.
LiveCore == LiveTypeOK /\ TablesAgree /\ ListedIsWhole /\ ActorShape /\ OwnsApart /\ Owned

LEMMA Facts ==
    ASSUME LiveInv
    PROVE  /\ stream \in [Streams -> StreamRecord]
           /\ actor \in [Actors -> ActorRecord]
           /\ byCamera \in [Cameras -> Streams \cup {NoStream}]
           /\ sessions \subseteq Streams /\ idle \subseteq sessions
           /\ lock \in Viewers \cup {Nobody} /\ up \in BOOLEAN
           /\ \A a \in Actors : actor[a] \in ActorRecord /\ ShapeOf(a, actor[a])
           /\ \A i \in Streams : stream[i] \in StreamRecord
           /\ NoStream \notin Streams
BY DEF LiveInv, LiveTypeOK, StreamRecord, ActorRecord, ActorShape, ShapeOf, Streams, NoStream

LEMMA TypeNext ==
    ASSUME stream' \in [Streams -> StreamRecord], actor' \in [Actors -> ActorRecord],
           byCamera' \in [Cameras -> Streams \cup {NoStream}],
           sessions' \subseteq Streams, idle' \subseteq sessions',
           lock' \in Viewers \cup {Nobody}, up' \in BOOLEAN
    PROVE  LiveTypeOK'
BY DEF LiveTypeOK, StreamRecord, ActorRecord

LEMMA NothingType ==
    /\ Nothing \in StreamRecord /\ ~HeldIn(Nothing) /\ ~Nothing.lost /\ ~Nothing.cancelled
    /\ \A pc \in {"off", "asleep", "dead"} : [Inactive EXCEPT !.pc = pc] \in ActorRecord
    /\ Inactive \in ActorRecord /\ Inactive.own = NoStream /\ Inactive.stop = NoStream
    /\ Inactive.left = {} /\ Inactive.pc = "off"
BY DEF Nothing, StreamRecord, HeldIn, Inactive, ActorRecord

LEMMA InitLiveInv == LiveInit => LiveInv
<1> SUFFICES ASSUME LiveInit PROVE LiveInv
  OBVIOUS
<1>1. /\ \A i \in Streams : stream[i] = Nothing
      /\ \A a \in Actors : actor[a] = Inactive
      /\ \A c \in Cameras : byCamera[c] = NoStream
      /\ sessions = {} /\ idle = {} /\ lock = Nobody /\ up = TRUE
  BY DEF LiveInit
<1>2. LiveTypeOK
  BY NothingType DEF LiveInit, LiveTypeOK, StreamRecord, ActorRecord
<1>3. TablesAgree /\ ListedIsWhole
  BY <1>1 DEF TablesAgree, ListedIsWhole
<1>4. ActorShape /\ OwnsApart
  BY <1>1, NothingType DEF ActorShape, OwnsApart, Actors
<1>5. Owned
  BY <1>1, NothingType DEF Owned, Held, HeldIn
<1>6. GivenUpIsClosed
  BY <1>1, NothingType DEF GivenUpIsClosed
<1> QED BY <1>2, <1>3, <1>4, <1>5, <1>6 DEF LiveInv

\* What is left of a stream that has been closed.
LEMMA ClearedIs ==
    ASSUME LiveInv, NEW a \in Actors, actor[a].stop \in Streams
    PROVE  /\ Cleared(a) \in [Streams -> StreamRecord]
           /\ ~HeldIn(Cleared(a)[actor[a].stop])
           /\ Cleared(a)[actor[a].stop].cancelled => stream[actor[a].stop].cancelled
           /\ \A k \in Streams \ {actor[a].stop} : Cleared(a)[k] = stream[k]
<1> DEFINE c == stream[actor[a].stop].cancelled /\ StoppedByOther(a)
           s == [Nothing EXCEPT !.cancelled = c]
<1>1. c \in BOOLEAN /\ (c => stream[actor[a].stop].cancelled)
  OBVIOUS
<1>2. Cleared(a) = [stream EXCEPT ![actor[a].stop] = s]
  BY DEF Cleared
<1> HIDE DEF c
<1>3. s \in StreamRecord /\ ~HeldIn(s) /\ s.cancelled = c
  BY <1>1 DEF Nothing, StreamRecord, HeldIn
<1> HIDE DEF s
<1> QED BY <1>1, <1>2, <1>3, Facts

-----------------------------------------------------------------------------
(* Streams and idleness only.                                              *)

LEMMA StreamsChange ==
    ASSUME LiveInv,
           stream' \in [Streams -> StreamRecord],
           \A i \in Streams : /\ stream'[i].camera = stream[i].camera
                              /\ stream'[i].service = stream[i].service
                              /\ stream'[i].dir = stream[i].dir
                              /\ stream'[i].lost = stream[i].lost
                              /\ HeldIn(stream'[i]) => HeldIn(stream[i]),
           idle' \subseteq sessions,
           UNCHANGED <<sessions, byCamera, lock, actor, up>>
    PROVE  LiveCore'
<1>1. LiveTypeOK'
  BY DEF LiveInv, LiveTypeOK, StreamRecord
<1>2. TablesAgree' /\ ListedIsWhole'
  BY Facts DEF LiveInv, TablesAgree, ListedIsWhole
<1>3. ActorShape'
  BY DEF LiveInv, ActorShape
<1>4. OwnsApart'
  <2>1. \A a \in Actors : actor[a].own = NoStream \/ actor[a].own \in Streams
    BY Facts DEF ActorRecord
  <2> QED BY <2>1 DEF LiveInv, OwnsApart, InHand
<1>5. Owned'
  BY DEF LiveInv, Owned, Held, HeldIn
<1> QED BY <1>1, <1>2, <1>3, <1>4, <1>5 DEF LiveCore

LEMMA SurroundingsStep ==
    ASSUME LiveInv, NEW i \in Streams, Access(i) \/ GrowIdle(i) \/ ProcessExits(i) \/ FeedEnds(i)
    PROVE  LiveCore'
<1>1. CASE Access(i) \/ GrowIdle(i)
  <2>1. /\ stream' \in [Streams -> StreamRecord] /\ idle' \subseteq sessions
        /\ UNCHANGED <<stream, sessions, byCamera, lock, actor, up>>
    BY <1>1, Facts DEF Access, GrowIdle
  <2> QED BY <2>1, StreamsChange
<1>2. CASE ProcessExits(i) \/ FeedEnds(i)
  <2>1. stream' \in [Streams -> StreamRecord]
    <3>1. /\ [stream[i] EXCEPT !.process = FALSE] \in StreamRecord
          /\ [stream[i] EXCEPT !.feeding = FALSE] \in StreamRecord
      BY Facts DEF StreamRecord
    <3> QED BY <1>2, <3>1, Facts DEF ProcessExits, FeedEnds
  <2>2. \A k \in Streams : /\ stream'[k].camera = stream[k].camera
                           /\ stream'[k].service = stream[k].service
                           /\ stream'[k].dir = stream[k].dir
                           /\ stream'[k].lost = stream[k].lost
                           /\ HeldIn(stream'[k]) => HeldIn(stream[k])
    BY <1>2, Facts DEF ProcessExits, FeedEnds, StreamRecord, HeldIn
  <2>3. idle' \subseteq sessions /\ UNCHANGED <<sessions, byCamera, lock, actor, up>>
    BY <1>2, Facts DEF ProcessExits, FeedEnds
  <2> QED BY <2>1, <2>2, <2>3, StreamsChange
<1> QED BY <1>1, <1>2

-----------------------------------------------------------------------------
(* What the invariant says of one actor and of the streams.                *)

LEMMA OwnFacts ==
    ASSUME LiveInv, NEW b \in Actors, actor[b].own # NoStream
    PROVE  LET i == actor[b].own IN
           /\ i \in Streams /\ i \notin sessions /\ ~stream[i].lost /\ stream[i].camera \in Cameras
           /\ \A a \in Actors \ {b} : i # actor[a].own /\ i # actor[a].stop /\ i \notin actor[a].left
           /\ actor[b].stop # i => stream[i].service
           /\ actor[b].pc # "lock" => lock = b
           /\ actor[b].pc # "lock" /\ actor[b].stop # i => byCamera[stream[i].camera] = NoStream
           /\ actor[b].pc \in {"spawn", "playlist"} => stream[i].dir
           /\ b \in Viewers
<1>1. actor[b].own \in Streams
  BY Facts DEF ActorRecord
<1>2. b \in Viewers
  BY Facts DEF ShapeOf
<1> QED BY <1>1, <1>2 DEF LiveInv, OwnsApart, InHand

LEMMA StopFacts ==
    ASSUME LiveInv, NEW a \in Actors, NEW i \in sessions
    PROVE  i # actor[a].stop /\ i # actor[a].own
BY DEF LiveInv, ListedIsWhole

\* OwnsApart in the next state, from what it says of one actor at a time.
LEMMA OwnsApartNext ==
    ASSUME \A b \in Actors : LET i == actor'[b].own IN
              i # NoStream =>
                /\ i \notin sessions' /\ ~stream'[i].lost /\ stream'[i].camera \in Cameras
                /\ \A a \in Actors \ {b} : i # actor'[a].own /\ i # actor'[a].stop /\ i \notin actor'[a].left
                /\ actor'[b].stop # i => stream'[i].service
                /\ actor'[b].pc # "lock" => lock' = b
                /\ actor'[b].pc # "lock" /\ actor'[b].stop # i => byCamera'[stream'[i].camera] = NoStream
                /\ actor'[b].pc \in {"spawn", "playlist"} => stream'[i].dir
    PROVE  OwnsApart'
BY DEF OwnsApart, InHand

-----------------------------------------------------------------------------
(* An actor ends: what it had in hand is cleared, or marked as lost.       *)

LEMMA ActorEnds ==
    ASSUME LiveInv, NEW a \in Actors, NEW r \in ActorRecord,
           r.own = NoStream, r.stop = NoStream, r.left = {}, r.pc \in {"off", "asleep", "dead"},
           actor' = [actor EXCEPT ![a] = r],
           stream' \in [Streams -> StreamRecord],
           \A i \in Streams : i \notin {actor[a].own, actor[a].stop} => stream'[i] = stream[i],
           \A i \in Streams : i \in {actor[a].own, actor[a].stop} =>
              \/ ~HeldIn(stream'[i]) \/ stream'[i].lost
              \/ \E b \in Actors \ {a} : actor[b].stop = i,
           lock' = IF lock = a THEN Nobody ELSE lock,
           up' \in BOOLEAN, up' => up, a = "main" => r.pc = "off",
           UNCHANGED <<sessions, idle, byCamera>>
    PROVE  LiveCore'
<1>1. /\ actor' \in [Actors -> ActorRecord] /\ actor'[a] = r
      /\ \A b \in Actors \ {a} : actor'[b] = actor[b]
  BY Facts
<1>2. LiveTypeOK'
  BY <1>1, Facts, TypeNext
<1>3. \A i \in sessions : stream'[i] = stream[i]
  BY Facts, StopFacts
<1>4. TablesAgree'
  BY <1>3, Facts DEF LiveInv, TablesAgree
<1>5. ListedIsWhole'
  BY <1>1, <1>3, Facts DEF LiveInv, ListedIsWhole
<1>6. ActorShape'
  <2>1. lock' # Nobody => lock' # a /\ lock' \in Actors /\ actor[lock'].own # NoStream
    BY Facts DEF LiveInv, ActorShape, Actors
  <2> QED BY <1>1, <2>1 DEF LiveInv, ActorShape, Actors
<1>7. OwnsApart'
  <2> SUFFICES ASSUME NEW b \in Actors, actor'[b].own # NoStream
               PROVE  LET i == actor'[b].own IN
                /\ i \notin sessions' /\ ~stream'[i].lost /\ stream'[i].camera \in Cameras
                /\ \A c \in Actors \ {b} : i # actor'[c].own /\ i # actor'[c].stop /\ i \notin actor'[c].left
                /\ actor'[b].stop # i => stream'[i].service
                /\ actor'[b].pc # "lock" => lock' = b
                /\ actor'[b].pc # "lock" /\ actor'[b].stop # i => byCamera'[stream'[i].camera] = NoStream
                /\ actor'[b].pc \in {"spawn", "playlist"} => stream'[i].dir
    BY OwnsApartNext
  <2>1. b # a /\ actor'[b] = actor[b]
    BY <1>1
  <2>2. stream'[actor[b].own] = stream[actor[b].own] /\ actor[b].own \in Streams
    BY <2>1, OwnFacts
  <2>3. actor[b].pc # "lock" => lock' = b
    BY <2>1, OwnFacts
  <2> QED BY <1>1, <2>1, <2>2, <2>3, OwnFacts, Facts
<1>8. Owned'
  <2> SUFFICES ASSUME NEW i \in Streams, HeldIn(stream'[i]), ~stream'[i].lost, i \notin sessions
               PROVE  \E b \in Actors : i \in {actor'[b].own, actor'[b].stop}
    BY DEF Owned, Held, HeldIn
  <2>1. CASE \E b \in Actors \ {a} : actor[b].stop = i
    BY <1>1, <2>1
  <2>2. CASE ~\E b \in Actors \ {a} : actor[b].stop = i
    <3>1. i \notin {actor[a].own, actor[a].stop} /\ stream'[i] = stream[i]
      BY <2>2
    <3>2. PICK b \in Actors : i \in {actor[b].own, actor[b].stop}
      BY <3>1 DEF LiveInv, Owned, Held, HeldIn
    <3> QED BY <1>1, <3>1, <3>2
  <2> QED BY <2>1, <2>2
<1> QED BY <1>2, <1>4, <1>5, <1>6, <1>7, <1>8 DEF LiveCore

\* The ways to end.
LEMMA EndStep ==
    ASSUME LiveInv, NEW a \in Actors,
           \/ a \in Viewers /\ (SpawnFails(a) \/ SpawnBreaks(a) \/ FailedStopped(a) \/ RequestStopped(a))
           \/ a \notin Viewers /\ LastStop(a)
    PROVE  LiveCore'
<1>1. /\ actor[a] \in ActorRecord /\ ShapeOf(a, actor[a]) /\ NoStream \notin Streams
      /\ up \in BOOLEAN /\ (a \in Viewers => a # "main")
  BY Facts, LiveViewAssumption
<1>2. CASE a \in Viewers /\ SpawnFails(a)
  <2>1. actor[a].stop = NoStream /\ lock = a
    BY <1>1, <1>2, OwnFacts DEF SpawnFails, ShapeOf
  <2>2. stream' \in [Streams -> StreamRecord]
    BY <1>2, Facts, NothingType DEF SpawnFails
  <2>3. /\ \A i \in Streams : i \notin {actor[a].own, actor[a].stop} => stream'[i] = stream[i]
        /\ \A i \in Streams : i \in {actor[a].own, actor[a].stop} => ~HeldIn(stream'[i])
    BY <1>1, <1>2, <2>1, Facts, NothingType DEF SpawnFails
  <2>4. /\ actor' = [actor EXCEPT ![a] = Inactive] /\ lock' = Nobody
        /\ UNCHANGED <<sessions, idle, byCamera, up>>
    BY <1>2 DEF SpawnFails
  <2> QED BY <1>1, <2>1, <2>2, <2>3, <2>4, NothingType, ActorEnds
<1>3. CASE a \in Viewers /\ SpawnBreaks(a)
  <2>1. actor[a].stop = NoStream /\ lock = a /\ actor[a].own \in Streams
    BY <1>1, <1>3, OwnFacts DEF SpawnBreaks, ShapeOf
  <2>2. PICK made \in BOOLEAN :
          stream' = [stream EXCEPT ![actor[a].own].dir = made, ![actor[a].own].lost = TRUE]
    BY <1>3 DEF SpawnBreaks
  <2>3. /\ [stream[actor[a].own] EXCEPT !.dir = made, !.lost = TRUE] \in StreamRecord
        /\ [stream[actor[a].own] EXCEPT !.dir = made, !.lost = TRUE].lost
    <3>1. stream[actor[a].own] \in StreamRecord
      BY <2>1, Facts
    <3> QED BY <3>1 DEF StreamRecord
  <2>4. stream' = [stream EXCEPT ![actor[a].own] =
                      [stream[actor[a].own] EXCEPT !.dir = made, !.lost = TRUE]]
    BY <2>1, <2>2, Facts
  <2>5. /\ stream' \in [Streams -> StreamRecord] /\ stream'[actor[a].own].lost
        /\ \A i \in Streams : i # actor[a].own => stream'[i] = stream[i]
    BY <2>1, <2>3, <2>4, Facts
  <2>6. actor' = [actor EXCEPT ![a] = Inactive] /\ lock' = Nobody /\ UNCHANGED <<sessions, idle, byCamera, up>>
    BY <1>3 DEF SpawnBreaks
  <2>7. \A i \in Streams : i \in {actor[a].own, actor[a].stop} => stream'[i].lost
    BY <1>1, <2>1, <2>5
  <2> QED BY <1>1, <1>3, <2>1, <2>5, <2>6, <2>7, NothingType, ActorEnds
<1>4. CASE a \in Viewers /\ (FailedStopped(a) \/ RequestStopped(a))
  <2>1. actor[a].stop \in Streams /\ actor[a].own \in {NoStream, actor[a].stop}
    BY <1>1, <1>4 DEF FailedStopped, RequestStopped, ShapeOf, ActorRecord
  <2>2. /\ stream' = Cleared(a)
        /\ actor' = [actor EXCEPT ![a] = Inactive]
        /\ lock' = IF lock = a THEN Nobody ELSE lock
        /\ UNCHANGED <<sessions, idle, byCamera, up>>
    BY <1>4, Facts DEF FailedStopped, RequestStopped, LiveInv, ActorShape
  <2>3. /\ stream' \in [Streams -> StreamRecord]
        /\ \A i \in Streams : i \notin {actor[a].own, actor[a].stop} => stream'[i] = stream[i]
        /\ \A i \in Streams : i \in {actor[a].own, actor[a].stop} => ~HeldIn(stream'[i])
    BY <1>1, <2>1, <2>2, ClearedIs
  <2> QED BY <1>1, <2>2, <2>3, NothingType, ActorEnds
<1>5. CASE a \notin Viewers /\ LastStop(a)
  <2>1. actor[a].stop \in Streams /\ actor[a].own = NoStream
    BY <1>1, <1>5 DEF LastStop, ShapeOf, ActorRecord
  <2> DEFINE r == [Inactive EXCEPT !.pc = IF a = "sweeper" THEN "asleep" ELSE "off"]
  <2>2. /\ stream' = Cleared(a)
        /\ actor' = [actor EXCEPT ![a] = r]
        /\ lock # a /\ UNCHANGED <<sessions, idle, byCamera, lock, up>>
    BY <1>5, <2>1, Facts, LiveViewAssumption DEF LastStop, LiveInv, ActorShape, Nobody, Actors
  <2>3. /\ r \in ActorRecord /\ r.own = NoStream /\ r.stop = NoStream /\ r.left = {}
        /\ r.pc \in {"off", "asleep", "dead"} /\ (a = "main" => r.pc = "off")
    BY NothingType DEF Inactive
  <2> HIDE DEF r
  <2>4. /\ stream' \in [Streams -> StreamRecord]
        /\ \A i \in Streams : i \notin {actor[a].own, actor[a].stop} => stream'[i] = stream[i]
        /\ \A i \in Streams : i \in {actor[a].own, actor[a].stop} => ~HeldIn(stream'[i])
    BY <1>1, <2>1, <2>2, ClearedIs
  <2>5. lock' = IF lock = a THEN Nobody ELSE lock
    BY <2>2
  <2> QED BY <1>1, <2>2, <2>3, <2>4, <2>5, ActorEnds
<1> QED BY <1>2, <1>3, <1>4, <1>5

-----------------------------------------------------------------------------
(* An actor begins to stop a stream: one that is listed, or was when it    *)
(* made its list, or its own.  Meanwhile the sweeper may have been started *)
(* or cancelled (actors), and streams cleared or lost (base).              *)

LEMMA StopBegins ==
    ASSUME LiveInv, NEW a \in Actors, NEW i \in Streams, NEW job \in ActorRecord,
           a = "main" => ~up', up' => up,
           NEW actors \in [Actors -> ActorRecord], NEW base \in [Streams -> StreamRecord],
           BeginStop(a, i, job, actors, base),
           up' \in BOOLEAN,
           lock' = lock \/ (lock = Nobody /\ lock' = a /\ a \in Viewers /\ actor[a].own # NoStream),
           \A b \in Actors \ {a} :
              \/ actors[b] = actor[b]
              \/ /\ b = "sweeper" /\ ShapeOf(b, actors[b])
                 /\ actors[b].own = NoStream /\ actors[b].stop = NoStream
                 /\ actors[b].left \subseteq actor[b].left
                 /\ actor[b].stop # NoStream => base[actor[b].stop].lost,
           \A k \in Streams :
              \/ base[k] = stream[k]
              \/ /\ k \notin sessions /\ (\A b \in Actors : k # actor[b].own)
                 /\ ~HeldIn(base[k]) \/ base[k].lost,
           job.own = actor[a].own, a \in Viewers => job.left = {},
           job.left \subseteq sessions \cup actor[a].left,
           i \in sessions \cup actor[a].left \cup {actor[a].own},
           actor[a].stop # NoStream => ~HeldIn(base[actor[a].stop]),
           actor[a].own # NoStream => lock' = a,
           actor[a].own \notin {i, NoStream} =>
              byCamera[stream[actor[a].own].camera] = i /\ actor[a].stop = NoStream
    PROVE  LiveCore'
<1> DEFINE r == [job EXCEPT !.stop = i, !.pc = IF base[i].process THEN "process" ELSE "feed"]
<1>1. /\ r \in ActorRecord /\ r.own = actor[a].own /\ r.stop = i /\ r.left = job.left
      /\ r.pc \in {"process", "feed"}
  BY DEF ActorRecord
<1>2. actor' = [actors EXCEPT ![a] = r]
  BY DEF BeginStop
<1> HIDE DEF r
<1>3. /\ actor' \in [Actors -> ActorRecord] /\ actor'[a] = r
      /\ \A b \in Actors \ {a} : actor'[b] = actors[b]
  BY <1>1, <1>2
<1>4. /\ sessions' = sessions \ {i} /\ idle' = idle \ {i}
      /\ byCamera' = [c \in Cameras |-> IF byCamera[c] = i THEN NoStream ELSE byCamera[c]]
      /\ stream' = IF base[i].process THEN base ELSE [base EXCEPT ![i].relay = FALSE]
  BY DEF BeginStop
<1>5. /\ stream' \in [Streams -> StreamRecord]
      /\ \A k \in Streams : /\ stream'[k].camera = base[k].camera
                            /\ stream'[k].service = base[k].service
                            /\ stream'[k].dir = base[k].dir
                            /\ stream'[k].lost = base[k].lost
                            /\ HeldIn(stream'[k]) => HeldIn(base[k])
  <2>1. base[i] \in StreamRecord
    OBVIOUS
  <2>2. /\ [base[i] EXCEPT !.relay = FALSE] \in StreamRecord
        /\ [base[i] EXCEPT !.relay = FALSE].camera = base[i].camera
        /\ [base[i] EXCEPT !.relay = FALSE].service = base[i].service
        /\ [base[i] EXCEPT !.relay = FALSE].dir = base[i].dir
        /\ [base[i] EXCEPT !.relay = FALSE].lost = base[i].lost
        /\ HeldIn([base[i] EXCEPT !.relay = FALSE]) => HeldIn(base[i])
    BY <2>1 DEF StreamRecord, HeldIn
  <2>3. stream' = base \/ stream' = [base EXCEPT ![i] = [base[i] EXCEPT !.relay = FALSE]]
    BY <1>4
  <2>4. CASE stream' = base
    BY <2>4
  <2>5. CASE stream' = [base EXCEPT ![i] = [base[i] EXCEPT !.relay = FALSE]]
    <3> DEFINE t == [base[i] EXCEPT !.relay = FALSE]
    <3> HIDE DEF t
    <3>1. /\ t \in StreamRecord /\ t.camera = base[i].camera /\ t.service = base[i].service
          /\ t.dir = base[i].dir /\ t.lost = base[i].lost
          /\ HeldIn(t) => HeldIn(base[i])
      BY <2>2 DEF t
    <3>2. stream' = [base EXCEPT ![i] = t]
      BY <2>5 DEF t
    <3>3. stream' \in [Streams -> StreamRecord] /\ stream'[i] = t
          /\ \A k \in Streams \ {i} : stream'[k] = base[k]
      BY <3>1, <3>2
    <3>4. ASSUME NEW k \in Streams
          PROVE  /\ stream'[k].camera = base[k].camera
                 /\ stream'[k].service = base[k].service
                 /\ stream'[k].dir = base[k].dir
                 /\ stream'[k].lost = base[k].lost
                 /\ HeldIn(stream'[k]) => HeldIn(base[k])
      <4>1. CASE k = i
        BY <3>1, <3>3, <4>1 DEF HeldIn
      <4>2. CASE k # i
        BY <3>3, <4>2 DEF HeldIn
      <4> QED BY <4>1, <4>2
    <3> QED BY <3>3, <3>4
  <2> QED BY <2>3, <2>4, <2>5
<1>6. \A k \in sessions : base[k] = stream[k]
  BY Facts
<1>7. \A k \in Streams : (\E b \in Actors : k = actor[b].own) => base[k] = stream[k]
  OBVIOUS
<1>8. LiveTypeOK'
  <2>1. byCamera' \in [Cameras -> Streams \cup {NoStream}]
    BY <1>4, Facts
  <2>2. sessions' \in SUBSET Streams /\ idle' \in SUBSET sessions'
    BY <1>4, Facts
  <2>3. lock' \in Viewers \cup {Nobody}
    BY Facts
  <2> QED BY <1>3, <1>5, <2>1, <2>2, <2>3, TypeNext
<1>9. TablesAgree'
  BY <1>4, <1>5, <1>6, Facts DEF LiveInv, TablesAgree
<1>10. ListedIsWhole'
  <2> SUFFICES ASSUME NEW s \in sessions \ {i}
               PROVE  /\ stream'[s].service /\ stream'[s].dir /\ ~stream'[s].lost
                      /\ \A b \in Actors : s \notin {actor'[b].own, actor'[b].stop}
    BY <1>4 DEF ListedIsWhole
  <2>1. stream'[s].service /\ stream'[s].dir /\ ~stream'[s].lost
    BY <1>5, <1>6, Facts DEF LiveInv, ListedIsWhole
  <2>2. \A b \in Actors : s \notin {actor'[b].own, actor'[b].stop}
    BY <1>1, <1>3, StopFacts, Facts
  <2> QED BY <2>1, <2>2
<1>11. ActorShape'
  <2>1. \A b \in Actors \ {a} : ShapeOf(b, actors[b])
    BY Facts
  <2>2. ShapeOf(a, r)
    BY <1>1, Facts DEF ShapeOf
  <2>3. up' => actor'["main"].pc = "off"
    BY <1>3 DEF LiveInv, ActorShape, Actors
  <2>4. lock' # Nobody => lock' \in Viewers /\ actor[lock'].own # NoStream
    BY Facts DEF LiveInv, ActorShape
  <2>5. lock' # Nobody => actor'[lock'].own # NoStream
    BY <1>1, <1>3, <2>4, LiveViewAssumption DEF Actors
  <2> QED BY <1>3, <2>1, <2>2, <2>3, <2>5 DEF ActorShape, ShapeOf
<1>12. OwnsApart'
  <2> SUFFICES ASSUME NEW b \in Actors, actor'[b].own # NoStream
               PROVE  LET k == actor'[b].own IN
                /\ k \notin sessions' /\ ~stream'[k].lost /\ stream'[k].camera \in Cameras
                /\ \A c \in Actors \ {b} : k # actor'[c].own /\ k # actor'[c].stop /\ k \notin actor'[c].left
                /\ actor'[b].stop # k => stream'[k].service
                /\ actor'[b].pc # "lock" => lock' = b
                /\ actor'[b].pc # "lock" /\ actor'[b].stop # k => byCamera'[stream'[k].camera] = NoStream
                /\ actor'[b].pc \in {"spawn", "playlist"} => stream'[k].dir
    BY OwnsApartNext
  <2>1. actor[b].own = actor'[b].own /\ (b # a => actor'[b] = actor[b])
    BY <1>1, <1>3
  <2> DEFINE k == actor[b].own
  <2>2. /\ k \in Streams /\ k \notin sessions /\ ~stream[k].lost /\ stream[k].camera \in Cameras
        /\ \A c \in Actors \ {b} : k # actor[c].own /\ k # actor[c].stop /\ k \notin actor[c].left
        /\ actor[b].stop # k => stream[k].service
        /\ actor[b].pc # "lock" => lock = b
        /\ actor[b].pc # "lock" /\ actor[b].stop # k => byCamera[stream[k].camera] = NoStream
        /\ actor[b].pc \in {"spawn", "playlist"} => stream[k].dir
        /\ b \in Viewers
    BY <2>1, OwnFacts
  <2>3. /\ stream'[k].camera = stream[k].camera /\ stream'[k].service = stream[k].service
        /\ stream'[k].dir = stream[k].dir /\ stream'[k].lost = stream[k].lost
    BY <1>5, <1>7, <2>2
  <2>4. \A c \in Actors \ {b} : k # actor'[c].own /\ k # actor'[c].stop /\ k \notin actor'[c].left
    <3> SUFFICES ASSUME NEW c \in Actors \ {b}
                 PROVE  k # actor'[c].own /\ k # actor'[c].stop /\ k \notin actor'[c].left
      OBVIOUS
    <3>1. CASE c = a
      BY <1>1, <1>3, <2>2, <3>1
    <3>2. CASE c # a
      BY <1>3, <2>2, <3>2, Facts
    <3> QED BY <3>1, <3>2
  <2>5. CASE b = a
    <3>1. lock' = a /\ (i # k => byCamera[stream[k].camera] = i /\ actor[a].stop = NoStream)
      BY <2>1, <2>2, <2>5, Facts
    <3>2. i # k => byCamera'[stream'[k].camera] = NoStream
      BY <1>4, <2>2, <2>3, <3>1
    <3>3. i # k => stream'[k].service
      BY <2>2, <2>3, <2>5, <3>1, Facts
    <3> QED BY <1>1, <1>3, <1>4, <2>1, <2>2, <2>3, <2>4, <2>5, <3>1, <3>2, <3>3
  <2>6. CASE b # a
    <3>1. actor[b].pc # "lock" => lock' = b
      BY <2>2, LiveViewAssumption DEF Nobody
    <3>2. byCamera[stream[k].camera] = NoStream => byCamera'[stream'[k].camera] = NoStream
      BY <1>4, <2>2, <2>3
    <3> QED BY <1>4, <2>1, <2>2, <2>3, <2>4, <2>6, <3>1, <3>2
  <2> QED BY <2>5, <2>6
<1>13. Owned'
  <2> SUFFICES ASSUME NEW k \in Streams, HeldIn(stream'[k]), ~stream'[k].lost, k \notin sessions \ {i}
               PROVE  \E b \in Actors : k \in {actor'[b].own, actor'[b].stop}
    BY <1>4 DEF Owned, Held, HeldIn
  <2>1. CASE k = i
    BY <1>1, <1>3, <2>1
  <2>2. CASE k # i
    <3>1. base[k] = stream[k] /\ HeldIn(stream[k]) /\ ~stream[k].lost /\ k \notin sessions
      BY <1>5, <2>2
    <3>2. PICK b \in Actors : k \in {actor[b].own, actor[b].stop}
      BY <3>1 DEF LiveInv, Owned, Held, HeldIn
    <3>3. CASE b = a
      BY <1>1, <1>3, <3>1, <3>2, <3>3, Facts
    <3>4. CASE b # a
      <4>1. actors[b] = actor[b]
        BY <3>1, <3>2, <3>4, Facts, LiveViewAssumption DEF ShapeOf
      <4> QED BY <1>3, <3>2, <3>4, <4>1
    <3> QED BY <3>3, <3>4
  <2> QED BY <2>1, <2>2
<1> QED BY <1>8, <1>9, <1>10, <1>11, <1>12, <1>13 DEF LiveCore

LEMMA StopRequestStep ==
    ASSUME LiveInv, NEW v \in Viewers, NEW i \in Streams, StopRequest(v, i)
    PROVE  LiveCore'
<1>1. /\ up /\ actor[v].pc = "off" /\ i \in sessions
      /\ BeginStop(v, i, Inactive, actor, stream) /\ lock' = lock /\ up' = up
  BY DEF StopRequest
<1>2. v \in Actors /\ v # "main" /\ actor[v].own = NoStream /\ actor[v].stop = NoStream
  BY <1>1, Facts, LiveViewAssumption DEF ShapeOf, Actors
<1> QED BY <1>1, <1>2, Facts, NothingType, StopBegins

LEMMA SweepStep ==
    ASSUME LiveInv, Sweep
    PROVE  LiveCore'
<1>1. PICK i \in idle : BeginStop("sweeper", i, [Inactive EXCEPT !.left = idle \ {i}], actor, stream)
  BY DEF Sweep
<1>2. actor["sweeper"].pc = "asleep" /\ lock' = lock /\ up' = up
  BY DEF Sweep
<1> DEFINE job == [Inactive EXCEPT !.left = idle \ {i}]
<1>3. job \in ActorRecord /\ job.own = NoStream /\ job.left \subseteq sessions
  <2>1. idle \ {i} \in SUBSET Streams /\ idle \subseteq sessions
    BY Facts
  <2> QED BY <2>1, NothingType DEF ActorRecord
<1>4. /\ "sweeper" \in Actors /\ "sweeper" \notin Viewers
      /\ actor["sweeper"].own = NoStream /\ actor["sweeper"].stop = NoStream
  BY <1>2, Facts, LiveViewAssumption DEF ShapeOf, Actors
<1> HIDE DEF job
<1>5. BeginStop("sweeper", i, job, actor, stream)
  BY <1>1 DEF job
<1> QED BY <1>2, <1>3, <1>4, <1>5, Facts, StopBegins

LEMMA AcquireOldStep ==
    ASSUME LiveInv, NEW v \in Viewers, Acquire(v), byCamera[stream[actor[v].own].camera] # NoStream
    PROVE  LiveCore'
<1> DEFINE i == byCamera[stream[actor[v].own].camera]
<1>1. /\ actor[v].pc = "lock" /\ lock = Nobody /\ lock' = v /\ up' = up
      /\ BeginStop(v, i, actor[v], actor, stream)
  BY DEF Acquire
<1>2. /\ v \in Actors /\ v # "main" /\ actor[v].own # NoStream /\ actor[v].stop = NoStream
      /\ actor[v].left = {} /\ actor[v] \in ActorRecord
  BY <1>1, Facts, LiveViewAssumption DEF ShapeOf, Actors
<1>3. i \in sessions /\ i \in Streams
  BY <1>2, OwnFacts, Facts DEF LiveInv, TablesAgree
<1> HIDE DEF i
<1>4. byCamera[stream[actor[v].own].camera] = i
  BY DEF i
<1> QED BY <1>1, <1>2, <1>3, <1>4, Facts, StopBegins

LEMMA PlaylistFailsStep ==
    ASSUME LiveInv, NEW v \in Viewers, PlaylistFails(v)
    PROVE  LiveCore'
<1>1. /\ actor[v].pc = "playlist" /\ lock' = lock /\ up' = up
      /\ BeginStop(v, actor[v].own, actor[v], actor, stream)
  BY DEF PlaylistFails
<1>2. /\ v \in Actors /\ v # "main" /\ actor[v].own # NoStream /\ actor[v].stop = NoStream
      /\ actor[v].left = {} /\ actor[v] \in ActorRecord
  BY <1>1, Facts, LiveViewAssumption DEF ShapeOf, Actors
<1>3. actor[v].own \in Streams /\ lock = v
  BY <1>1, <1>2, OwnFacts
<1> QED BY <1>1, <1>2, <1>3, Facts, StopBegins

LEMMA NextStopStep ==
    ASSUME LiveInv, NEW a \in Actors \ Viewers, NextStop(a)
    PROVE  LiveCore'
<1>1. PICK i \in actor[a].left :
        BeginStop(a, i, [actor[a] EXCEPT !.left = actor[a].left \ {i}], actor, Cleared(a))
  BY DEF NextStop
<1>2. actor[a].pc = "close" /\ lock' = lock /\ up' = up
  BY DEF NextStop
<1>3. /\ actor[a] \in ActorRecord /\ actor[a].own = NoStream /\ actor[a].stop \in Streams
      /\ actor[a].left \subseteq Streams /\ (a = "main" => ~up)
  BY <1>2, Facts DEF ShapeOf, ActorRecord, LiveInv, ActorShape
<1> DEFINE job == [actor[a] EXCEPT !.left = actor[a].left \ {i}]
           base == Cleared(a)
<1>4. job \in ActorRecord /\ job.own = NoStream /\ job.left \subseteq actor[a].left
  BY <1>3 DEF ActorRecord
<1>5. /\ base \in [Streams -> StreamRecord] /\ ~HeldIn(base[actor[a].stop])
      /\ \A k \in Streams \ {actor[a].stop} : base[k] = stream[k]
  BY <1>3, ClearedIs
<1>6. /\ actor[a].stop \notin sessions
      /\ \A b \in Actors : actor[a].stop # actor[b].own
  BY <1>3, StopFacts, OwnFacts, Facts
<1> HIDE DEF job, base
<1>7. BeginStop(a, i, job, actor, base)
  BY <1>1 DEF job, base
<1>8. \A k \in Streams :
         \/ base[k] = stream[k]
         \/ /\ k \notin sessions /\ (\A b \in Actors : k # actor[b].own)
            /\ ~HeldIn(base[k]) \/ base[k].lost
  BY <1>5, <1>6
<1>9. i \in Streams /\ a \in Actors /\ lock' \in Viewers \cup {Nobody} /\ up' \in BOOLEAN
  BY <1>2, <1>3, Facts
<1> QED BY <1>2, <1>3, <1>4, <1>5, <1>7, <1>8, <1>9, Facts, StopBegins

LEMMA ShutdownStep ==
    ASSUME LiveInv, Shutdown
    PROVE  LiveCore'
<1> DEFINE cut == [i \in Streams |-> [stream[i] EXCEPT !.lost = stream[i].lost \/ i = actor["sweeper"].stop]]
           r == [Inactive EXCEPT !.pc = "dead"]
           swept == [actor EXCEPT !["sweeper"] = r]
<1>1. /\ r \in ActorRecord /\ r.own = NoStream /\ r.stop = NoStream /\ r.left = {} /\ r.pc = "dead"
  BY NothingType DEF Inactive
<1>2. /\ up /\ ~up' /\ up' \in BOOLEAN /\ lock' = lock
      /\ \A v \in Viewers : actor[v].pc = "off"
      /\ \/ /\ stream' = cut /\ actor' = swept /\ UNCHANGED <<sessions, idle, byCamera>>
         \/ \E i \in sessions : BeginStop("main", i, [Inactive EXCEPT !.left = sessions \ {i}], swept, cut)
  BY DEF Shutdown
<1>3. /\ cut \in [Streams -> StreamRecord]
      /\ \A i \in Streams : i # actor["sweeper"].stop => cut[i] = stream[i]
      /\ \A i \in Streams : i = actor["sweeper"].stop => cut[i].lost
  <2>1. ASSUME NEW i \in Streams
        PROVE  /\ cut[i] \in StreamRecord
               /\ i # actor["sweeper"].stop => cut[i] = stream[i]
               /\ i = actor["sweeper"].stop => cut[i].lost
    <3>1. stream[i] \in StreamRecord
      BY Facts
    <3> QED BY <3>1 DEF StreamRecord
  <2> QED BY <2>1
<1>4. /\ "sweeper" \in Actors \ Viewers /\ "main" \in Actors \ Viewers /\ "main" # "sweeper"
      /\ \A a \in Actors : actor[a].own = NoStream
      /\ actor["main"].stop = NoStream
  BY <1>2, Facts, LiveViewAssumption DEF ShapeOf, Actors, LiveInv, ActorShape
<1>5. actor["sweeper"].stop \notin sessions
  BY <1>4, StopFacts
<1> HIDE DEF cut, r
<1>6. CASE stream' = cut /\ actor' = swept /\ UNCHANGED <<sessions, idle, byCamera>>
  <2>1. /\ \A i \in Streams : i \notin {actor["sweeper"].own, actor["sweeper"].stop} => stream'[i] = stream[i]
        /\ \A i \in Streams : i \in {actor["sweeper"].own, actor["sweeper"].stop} => stream'[i].lost
        /\ stream' \in [Streams -> StreamRecord]
    BY <1>3, <1>4, <1>6, Facts
  <2>2. actor' = [actor EXCEPT !["sweeper"] = r] /\ UNCHANGED <<sessions, idle, byCamera>>
    BY <1>6
  <2>3. lock' = IF lock = "sweeper" THEN Nobody ELSE lock
    BY <1>2, <1>4, Facts, LiveViewAssumption DEF Nobody
  <2> HIDE DEF swept
  <2> QED BY <1>1, <1>2, <1>4, <2>1, <2>2, <2>3, ActorEnds
<1>7. CASE \E i \in sessions : BeginStop("main", i, [Inactive EXCEPT !.left = sessions \ {i}], swept, cut)
  <2>1. PICK i \in sessions : BeginStop("main", i, [Inactive EXCEPT !.left = sessions \ {i}], swept, cut)
    BY <1>7
  <2> DEFINE job == [Inactive EXCEPT !.left = sessions \ {i}]
  <2>2. job \in ActorRecord /\ job.own = NoStream /\ job.left \subseteq sessions
    <3>1. sessions \ {i} \in SUBSET Streams
      BY Facts
    <3> QED BY <3>1, NothingType DEF ActorRecord
  <2>3. /\ swept \in [Actors -> ActorRecord] /\ swept["sweeper"] = r
        /\ \A b \in Actors \ {"sweeper"} : swept[b] = actor[b]
    BY <1>1, <1>4, Facts
  <2>4. ShapeOf("sweeper", r)
    BY <1>1, <1>4 DEF ShapeOf
  <2> HIDE DEF job, swept
  <2>5. BeginStop("main", i, job, swept, cut)
    BY <2>1 DEF job
  <2>6. i \in Streams /\ lock' \in Viewers \cup {Nobody}
    BY <1>2, Facts
  <2>7. \A b \in Actors \ {"main"} :
           \/ swept[b] = actor[b]
           \/ /\ b = "sweeper" /\ ShapeOf(b, swept[b])
              /\ swept[b].own = NoStream /\ swept[b].stop = NoStream
              /\ swept[b].left \subseteq actor[b].left
              /\ actor[b].stop # NoStream => cut[actor[b].stop].lost
    <3>1. actor["sweeper"].stop # NoStream => cut[actor["sweeper"].stop].lost
      BY <1>3, <1>4, Facts DEF ActorRecord
    <3> QED BY <1>1, <2>3, <2>4, <3>1
  <2>8. \A k \in Streams :
           \/ cut[k] = stream[k]
           \/ /\ k \notin sessions /\ (\A b \in Actors : k # actor[b].own)
              /\ ~HeldIn(cut[k]) \/ cut[k].lost
    BY <1>3, <1>4, <1>5, Facts
  <2> QED BY <1>2, <1>3, <1>4, <2>2, <2>3, <2>5, <2>6, <2>7, <2>8, StopBegins
<1> QED BY <1>2, <1>6, <1>7

-----------------------------------------------------------------------------
(* An actor goes on with what it has in hand.                              *)

LEMMA GoesOn ==
    ASSUME LiveInv, NEW a \in Actors, NEW r \in ActorRecord, ShapeOf(a, r), a = "main" => ~up,
           NEW actors \in [Actors -> ActorRecord],
           \A b \in Actors \ {a} :
              \/ actors[b] = actor[b]
              \/ /\ b = "sweeper" /\ ShapeOf(b, actors[b])
                 /\ actors[b].own = NoStream /\ actors[b].stop = NoStream
                 /\ actor[b].stop = NoStream /\ actors[b].left \subseteq actor[b].left,
           actor' = [actors EXCEPT ![a] = r],
           r.own = actor[a].own, r.left = actor[a].left,
           \/ r.stop = actor[a].stop
           \/ /\ r.stop = NoStream /\ actor[a].stop # actor[a].own
              /\ actor[a].stop # NoStream => ~HeldIn(stream'[actor[a].stop]),
           stream' \in [Streams -> StreamRecord],
           \A k \in Streams : k \notin {actor[a].own, actor[a].stop} => stream'[k] = stream[k],
           actor[a].own # NoStream =>
             /\ stream'[actor[a].own].camera = stream[actor[a].own].camera
             /\ stream'[actor[a].own].service = stream[actor[a].own].service
             /\ stream'[actor[a].own].lost = stream[actor[a].own].lost
             /\ r.pc \in {"spawn", "playlist"} => stream'[actor[a].own].dir
             /\ r.pc # "lock" => lock' = a
             /\ r.pc # "lock" /\ r.stop # r.own => byCamera[stream[actor[a].own].camera] = NoStream,
           lock' = lock \/ (lock = Nobody /\ lock' = a /\ a \in Viewers /\ actor[a].own # NoStream),
           UNCHANGED <<sessions, idle, byCamera, up>>
    PROVE  LiveCore'
<1>1. /\ actor' \in [Actors -> ActorRecord] /\ actor'[a] = r
      /\ \A b \in Actors \ {a} : actor'[b] = actors[b]
  OBVIOUS
<1>2. LiveTypeOK'
  BY <1>1, Facts, TypeNext
<1>3. \A i \in sessions : stream'[i] = stream[i]
  BY Facts, StopFacts
<1>4. TablesAgree'
  BY <1>3, Facts DEF LiveInv, TablesAgree
<1>5. ListedIsWhole'
  <2> SUFFICES ASSUME NEW s \in sessions
               PROVE  /\ stream'[s].service /\ stream'[s].dir /\ ~stream'[s].lost
                      /\ \A b \in Actors : s \notin {actor'[b].own, actor'[b].stop}
    BY DEF ListedIsWhole
  <2>1. stream'[s].service /\ stream'[s].dir /\ ~stream'[s].lost
    BY <1>3 DEF LiveInv, ListedIsWhole
  <2>2. \A b \in Actors : s \notin {actor'[b].own, actor'[b].stop}
    BY <1>1, StopFacts, Facts
  <2> QED BY <2>1, <2>2
<1>6. ActorShape'
  <2>1. \A b \in Actors \ {a} : ShapeOf(b, actors[b])
    BY Facts
  <2>2. up => actor'["main"].pc = "off"
    BY <1>1 DEF LiveInv, ActorShape, Actors
  <2>3. lock' # Nobody => lock' \in Viewers /\ actor[lock'].own # NoStream
    BY Facts DEF LiveInv, ActorShape
  <2>4. lock' # Nobody => actor'[lock'].own # NoStream
    BY <1>1, <2>3, LiveViewAssumption DEF Actors
  <2> QED BY <1>1, <2>1, <2>2, <2>4 DEF ActorShape, ShapeOf
<1>7. OwnsApart'
  <2> SUFFICES ASSUME NEW b \in Actors, actor'[b].own # NoStream
               PROVE  LET k == actor'[b].own IN
                /\ k \notin sessions' /\ ~stream'[k].lost /\ stream'[k].camera \in Cameras
                /\ \A c \in Actors \ {b} : k # actor'[c].own /\ k # actor'[c].stop /\ k \notin actor'[c].left
                /\ actor'[b].stop # k => stream'[k].service
                /\ actor'[b].pc # "lock" => lock' = b
                /\ actor'[b].pc # "lock" /\ actor'[b].stop # k => byCamera'[stream'[k].camera] = NoStream
                /\ actor'[b].pc \in {"spawn", "playlist"} => stream'[k].dir
    BY OwnsApartNext
  <2>1. actor[b].own = actor'[b].own /\ (b # a => actor'[b] = actor[b])
    BY <1>1
  <2> DEFINE k == actor[b].own
  <2>2. /\ k \in Streams /\ k \notin sessions /\ ~stream[k].lost /\ stream[k].camera \in Cameras
        /\ \A c \in Actors \ {b} : k # actor[c].own /\ k # actor[c].stop /\ k \notin actor[c].left
        /\ actor[b].stop # k => stream[k].service
        /\ actor[b].pc # "lock" => lock = b
        /\ actor[b].pc # "lock" /\ actor[b].stop # k => byCamera[stream[k].camera] = NoStream
        /\ actor[b].pc \in {"spawn", "playlist"} => stream[k].dir
        /\ b \in Viewers
    BY <2>1, OwnFacts
  <2>3. \A c \in Actors \ {b} : k # actor'[c].own /\ k # actor'[c].stop /\ k \notin actor'[c].left
    BY <1>1, <2>2, Facts
  <2>4. CASE b = a
    BY <1>1, <2>1, <2>2, <2>3, <2>4
  <2>5. CASE b # a
    <3>1. actor[b].pc # "lock" => lock' = b
      BY <2>2, LiveViewAssumption DEF Nobody
    <3>2. stream'[k] = stream[k]
      BY <2>2, <2>5
    <3> QED BY <2>1, <2>2, <2>3, <2>5, <3>1, <3>2
  <2> QED BY <2>4, <2>5
<1>8. Owned'
  <2> SUFFICES ASSUME NEW k \in Streams, HeldIn(stream'[k]), ~stream'[k].lost, k \notin sessions
               PROVE  \E b \in Actors : k \in {actor'[b].own, actor'[b].stop}
    BY DEF Owned, Held, HeldIn
  <2>1. CASE k \in {actor[a].own, actor[a].stop}
    BY <1>1, <2>1, Facts
  <2>2. CASE k \notin {actor[a].own, actor[a].stop}
    <3>1. stream'[k] = stream[k]
      BY <2>2
    <3>2. PICK b \in Actors : k \in {actor[b].own, actor[b].stop}
      BY <3>1 DEF LiveInv, Owned, Held, HeldIn
    <3>3. b # a /\ actors[b] = actor[b]
      BY <2>2, <3>2, Facts, LiveViewAssumption DEF ShapeOf
    <3> QED BY <1>1, <3>2, <3>3
  <2> QED BY <2>1, <2>2
<1> QED BY <1>2, <1>4, <1>5, <1>6, <1>7, <1>8 DEF LiveCore

\* What a change of phase makes of a record.
LEMMA PhaseRecord ==
    ASSUME NEW s \in ActorRecord, NEW pc \in {"spawn", "playlist", "process", "feed", "close"}
    PROVE  /\ [s EXCEPT !.pc = pc] \in ActorRecord
           /\ [s EXCEPT !.pc = pc].own = s.own /\ [s EXCEPT !.pc = pc].stop = s.stop
           /\ [s EXCEPT !.pc = pc].left = s.left /\ [s EXCEPT !.pc = pc].pc = pc
BY DEF ActorRecord

LEMMA StopGoesOnStep ==
    ASSUME LiveInv, NEW a \in Actors, ProcessStops(a) \/ FeedStopped(a)
    PROVE  LiveCore'
<1>1. /\ actor[a] \in ActorRecord /\ ShapeOf(a, actor[a]) /\ actor[a].stop \in Streams
      /\ actor[a].pc \in {"process", "feed"} /\ (a = "main" => ~up)
      /\ stream[actor[a].stop] \in StreamRecord
  BY Facts DEF ProcessStops, FeedStopped, ShapeOf, ActorRecord, LiveInv, ActorShape
<1> DEFINE pc == IF ProcessStops(a) THEN "feed" ELSE "close"
           r == [actor[a] EXCEPT !.pc = pc]
<1>2. /\ r \in ActorRecord /\ r.own = actor[a].own /\ r.stop = actor[a].stop
      /\ r.left = actor[a].left /\ r.pc = pc
  <2>1. pc \in {"spawn", "playlist", "process", "feed", "close"}
    OBVIOUS
  <2> HIDE DEF pc
  <2> QED BY <1>1, <2>1, PhaseRecord
<1>3. ShapeOf(a, r)
  BY <1>1, <1>2 DEF ShapeOf
<1>4. /\ actor' = [actor EXCEPT ![a] = r]
      /\ UNCHANGED <<sessions, idle, byCamera, lock, up>>
  BY <1>1 DEF ProcessStops, FeedStopped
<1> HIDE DEF r, pc
<1>5. /\ stream' \in [Streams -> StreamRecord]
      /\ \A k \in Streams \ {actor[a].stop} : stream'[k] = stream[k]
      /\ stream'[actor[a].stop].camera = stream[actor[a].stop].camera
      /\ stream'[actor[a].stop].service = stream[actor[a].stop].service
      /\ stream'[actor[a].stop].dir = stream[actor[a].stop].dir
      /\ stream'[actor[a].stop].lost = stream[actor[a].stop].lost
  <2> DEFINE s == [stream[actor[a].stop] EXCEPT !.process = FALSE, !.relay = FALSE]
  <2>1. /\ s \in StreamRecord
        /\ s.camera = stream[actor[a].stop].camera /\ s.service = stream[actor[a].stop].service
        /\ s.dir = stream[actor[a].stop].dir /\ s.lost = stream[actor[a].stop].lost
    BY <1>1 DEF StreamRecord
  <2>2. stream' = stream \/ stream' = [stream EXCEPT ![actor[a].stop] = s]
    BY <1>1, Facts DEF ProcessStops, FeedStopped
  <2> HIDE DEF s
  <2> QED BY <1>1, <2>1, <2>2, Facts
<1>6. actor[a].own # NoStream =>
        /\ actor[a].own \in Streams /\ stream'[actor[a].own].camera = stream[actor[a].own].camera
        /\ stream'[actor[a].own].service = stream[actor[a].own].service
        /\ stream'[actor[a].own].lost = stream[actor[a].own].lost
        /\ lock = a
        /\ actor[a].stop # actor[a].own => byCamera[stream[actor[a].own].camera] = NoStream
  BY <1>1, <1>5, OwnFacts
<1> QED BY <1>1, <1>2, <1>3, <1>4, <1>5, <1>6, Facts, GoesOn DEF pc

LEMMA SpawnStep ==
    ASSUME LiveInv, NEW v \in Viewers, Spawn(v)
    PROVE  LiveCore'
<1>1. /\ v \in Actors /\ v # "main" /\ actor[v] \in ActorRecord /\ ShapeOf(v, actor[v])
      /\ actor[v].pc = "spawn" /\ actor[v].own # NoStream /\ actor[v].stop = NoStream
  BY Facts, LiveViewAssumption DEF Spawn, ShapeOf, Actors
<1>2. /\ actor[v].own \in Streams /\ stream[actor[v].own] \in StreamRecord /\ lock = v
      /\ stream[actor[v].own].dir /\ byCamera[stream[actor[v].own].camera] = NoStream
  BY <1>1, OwnFacts, Facts
<1> DEFINE r == [actor[v] EXCEPT !.pc = "playlist"]
           s == [stream[actor[v].own] EXCEPT !.process = TRUE]
<1>3. /\ r \in ActorRecord /\ r.own = actor[v].own /\ r.stop = actor[v].stop
      /\ r.left = actor[v].left /\ r.pc = "playlist"
  BY <1>1, PhaseRecord
<1>4. ShapeOf(v, r)
  BY <1>1, <1>3 DEF ShapeOf
<1>5. /\ s \in StreamRecord /\ s.camera = stream[actor[v].own].camera
      /\ s.service = stream[actor[v].own].service /\ s.dir = stream[actor[v].own].dir
      /\ s.lost = stream[actor[v].own].lost
  BY <1>2 DEF StreamRecord
<1>6. /\ actor' = [actor EXCEPT ![v] = r] /\ stream' = [stream EXCEPT ![actor[v].own] = s]
      /\ UNCHANGED <<sessions, idle, byCamera, lock, up>>
  BY <1>1, <1>2, Facts DEF Spawn
<1> HIDE DEF r, s
<1>7. /\ stream' \in [Streams -> StreamRecord] /\ stream'[actor[v].own] = s
      /\ \A k \in Streams \ {actor[v].own} : stream'[k] = stream[k]
  BY <1>2, <1>5, <1>6, Facts
<1> QED BY <1>1, <1>2, <1>3, <1>4, <1>5, <1>6, <1>7, Facts, GoesOn

\* The stream that a request prepares once it holds the lock.
LEMMA PreparedType ==
    ASSUME NEW base \in [Streams -> StreamRecord], NEW i \in Streams
    PROVE  /\ Prepared(base, i) \in [Streams -> StreamRecord]
           /\ \A k \in Streams \ {i} : Prepared(base, i)[k] = base[k]
           /\ Prepared(base, i)[i].camera = base[i].camera
           /\ Prepared(base, i)[i].service = base[i].service
           /\ Prepared(base, i)[i].lost = base[i].lost
           /\ Prepared(base, i)[i].dir
<1> DEFINE s == [base[i] EXCEPT !.feeding = TRUE, !.dir = TRUE]
<1>1. base[i] \in StreamRecord
  OBVIOUS
<1>2. /\ s \in StreamRecord /\ s.camera = base[i].camera /\ s.service = base[i].service
      /\ s.lost = base[i].lost /\ s.dir
  BY <1>1 DEF StreamRecord
<1>3. Prepared(base, i) = [base EXCEPT ![i] = s]
  BY DEF Prepared
<1> HIDE DEF s
<1> QED BY <1>2, <1>3

LEMMA AcquireFreeStep ==
    ASSUME LiveInv, NEW v \in Viewers, Acquire(v), byCamera[stream[actor[v].own].camera] = NoStream
    PROVE  LiveCore'
<1>1. /\ v \in Actors /\ v # "main" /\ v # "sweeper" /\ actor[v] \in ActorRecord /\ ShapeOf(v, actor[v])
      /\ actor[v].pc = "lock" /\ actor[v].own # NoStream /\ actor[v].stop = NoStream
      /\ actor["sweeper"] \in ActorRecord /\ ShapeOf("sweeper", actor["sweeper"])
      /\ "sweeper" \in Actors \ Viewers
  BY Facts, LiveViewAssumption DEF Acquire, ShapeOf, Actors
<1>2. actor[v].own \in Streams
  BY <1>1, OwnFacts
<1>3. /\ lock = Nobody /\ lock' = v /\ actor' = [Sweeping EXCEPT ![v].pc = "spawn"]
      /\ stream' = Prepared(stream, actor[v].own)
      /\ UNCHANGED <<sessions, idle, byCamera, up>>
  BY DEF Acquire, BeginStop
<1> DEFINE w == [actor["sweeper"] EXCEPT !.pc = IF actor["sweeper"].pc = "off" THEN "asleep"
                                                ELSE actor["sweeper"].pc]
           r == [actor[v] EXCEPT !.pc = "spawn"]
<1>4. /\ w \in ActorRecord /\ w.own = actor["sweeper"].own /\ w.stop = actor["sweeper"].stop
      /\ w.left = actor["sweeper"].left
      /\ w.pc = IF actor["sweeper"].pc = "off" THEN "asleep" ELSE actor["sweeper"].pc
  BY <1>1 DEF ActorRecord
<1>5. Sweeping = [actor EXCEPT !["sweeper"] = w]
  BY <1>1 DEF Sweeping
<1>6. /\ r \in ActorRecord /\ r.own = actor[v].own /\ r.stop = actor[v].stop
      /\ r.left = actor[v].left /\ r.pc = "spawn"
  BY <1>1, PhaseRecord
<1>7. ShapeOf(v, r) /\ ShapeOf("sweeper", w)
  BY <1>1, <1>4, <1>6 DEF ShapeOf
<1>8. actor["sweeper"].pc # "off" => w = actor["sweeper"]
  BY <1>1 DEF ActorRecord
<1>9. actor["sweeper"].pc = "off" =>
        w.own = NoStream /\ w.stop = NoStream /\ actor["sweeper"].stop = NoStream
  BY <1>1, <1>4 DEF ShapeOf
<1> HIDE DEF w
<1>10. /\ Sweeping \in [Actors -> ActorRecord] /\ Sweeping["sweeper"] = w
       /\ \A b \in Actors \ {"sweeper"} : Sweeping[b] = actor[b]
  BY <1>1, <1>4, <1>5, Facts
<1>11. actor' = [Sweeping EXCEPT ![v] = r]
  BY <1>1, <1>3, <1>10
<1> HIDE DEF r
<1>12. \A b \in Actors \ {v} :
          \/ Sweeping[b] = actor[b]
          \/ /\ b = "sweeper" /\ ShapeOf(b, Sweeping[b])
             /\ Sweeping[b].own = NoStream /\ Sweeping[b].stop = NoStream
             /\ actor[b].stop = NoStream /\ Sweeping[b].left \subseteq actor[b].left
  BY <1>4, <1>7, <1>8, <1>9, <1>10
<1>13. /\ stream' \in [Streams -> StreamRecord]
       /\ \A k \in Streams \ {actor[v].own} : stream'[k] = stream[k]
       /\ stream'[actor[v].own].camera = stream[actor[v].own].camera
       /\ stream'[actor[v].own].service = stream[actor[v].own].service
       /\ stream'[actor[v].own].lost = stream[actor[v].own].lost
       /\ stream'[actor[v].own].dir
  BY <1>2, <1>3, PreparedType, Facts
<1>14. /\ lock' = lock \/ (lock = Nobody /\ lock' = v /\ v \in Viewers /\ actor[v].own # NoStream)
       /\ UNCHANGED <<sessions, idle, byCamera, up>>
       /\ r.stop = actor[v].stop /\ byCamera[stream[actor[v].own].camera] = NoStream
       /\ \A k \in Streams : k \notin {actor[v].own, actor[v].stop} => stream'[k] = stream[k]
  BY <1>1, <1>3, <1>6, <1>13
<1> DEFINE actors == Sweeping
<1>15. /\ actors \in [Actors -> ActorRecord] /\ actor' = [actors EXCEPT ![v] = r]
       /\ \A b \in Actors \ {v} :
            \/ actors[b] = actor[b]
            \/ /\ b = "sweeper" /\ ShapeOf(b, actors[b])
               /\ actors[b].own = NoStream /\ actors[b].stop = NoStream
               /\ actor[b].stop = NoStream /\ actors[b].left \subseteq actor[b].left
  BY <1>10, <1>11, <1>12
<1>16. lock' = v
  BY <1>3
<1> HIDE DEF actors
<1> QED BY <1>1, <1>6, <1>7, <1>13, <1>14, <1>15, <1>16, GoesOn

LEMMA OldStoppedStep ==
    ASSUME LiveInv, NEW v \in Viewers, OldStopped(v)
    PROVE  LiveCore'
<1>1. /\ v \in Actors /\ v # "main" /\ actor[v] \in ActorRecord /\ ShapeOf(v, actor[v])
      /\ actor[v].pc = "close" /\ actor[v].stop \in Streams /\ lock = v
      /\ actor[v].stop # actor[v].own
  BY Facts, LiveViewAssumption DEF OldStopped, ShapeOf, Actors, ActorRecord
<1>2. actor[v].own # NoStream
  BY <1>1, LiveViewAssumption DEF LiveInv, ActorShape, Nobody
<1>3. /\ actor[v].own \in Streams /\ stream[actor[v].own].service
      /\ byCamera[stream[actor[v].own].camera] = NoStream
  BY <1>1, <1>2, OwnFacts
<1> DEFINE r == [actor[v] EXCEPT !.pc = "spawn", !.stop = NoStream]
<1>4. /\ r \in ActorRecord /\ r.own = actor[v].own /\ r.stop = NoStream
      /\ r.left = actor[v].left /\ r.pc = "spawn"
  BY <1>1 DEF ActorRecord
<1>5. ShapeOf(v, r)
  BY <1>1, <1>2, <1>4 DEF ShapeOf
<1>6. /\ actor' = [actor EXCEPT ![v] = r] /\ stream' = Prepared(Cleared(v), actor[v].own)
      /\ UNCHANGED <<sessions, idle, byCamera, lock, up>>
  BY <1>1, Facts DEF OldStopped
<1>7. /\ Cleared(v) \in [Streams -> StreamRecord] /\ ~HeldIn(Cleared(v)[actor[v].stop])
      /\ \A k \in Streams \ {actor[v].stop} : Cleared(v)[k] = stream[k]
  BY <1>1, ClearedIs
<1>8. /\ stream' \in [Streams -> StreamRecord]
      /\ \A k \in Streams \ {actor[v].own} : stream'[k] = Cleared(v)[k]
      /\ stream'[actor[v].own].camera = stream[actor[v].own].camera
      /\ stream'[actor[v].own].service = stream[actor[v].own].service
      /\ stream'[actor[v].own].lost = stream[actor[v].own].lost
      /\ stream'[actor[v].own].dir
  <2> DEFINE base == Cleared(v)
  <2>1. base[actor[v].own] = stream[actor[v].own] /\ base \in [Streams -> StreamRecord]
    BY <1>1, <1>3, <1>7
  <2>2. stream' = Prepared(base, actor[v].own)
    BY <1>6
  <2> HIDE DEF base
  <2>3. /\ stream' \in [Streams -> StreamRecord]
        /\ \A k \in Streams \ {actor[v].own} : stream'[k] = base[k]
        /\ stream'[actor[v].own].camera = base[actor[v].own].camera
        /\ stream'[actor[v].own].service = base[actor[v].own].service
        /\ stream'[actor[v].own].lost = base[actor[v].own].lost
        /\ stream'[actor[v].own].dir
    BY <1>3, <2>1, <2>2, PreparedType
  <2> QED BY <2>1, <2>3 DEF base
<1>9. ~HeldIn(stream'[actor[v].stop])
  BY <1>1, <1>7, <1>8 DEF HeldIn
<1>10. \A k \in Streams : k \notin {actor[v].own, actor[v].stop} => stream'[k] = stream[k]
  BY <1>7, <1>8
<1> HIDE DEF r
<1> QED BY <1>1, <1>2, <1>3, <1>4, <1>5, <1>6, <1>8, <1>9, <1>10, Facts, GoesOn

-----------------------------------------------------------------------------
(* The steps that are like no other.                                       *)

\* A session is entered into both tables: the camera had none, since its
\* request has held the lock from the stop of the old one on.
LEMMA RegisterStep ==
    ASSUME LiveInv, NEW v \in Viewers, Register(v)
    PROVE  LiveCore'
<1> DEFINE i == actor[v].own
           c == stream[i].camera
<1>1. /\ v \in Actors /\ v # "main" /\ v # Nobody /\ actor[v] \in ActorRecord /\ ShapeOf(v, actor[v])
      /\ actor[v].pc = "playlist" /\ i # NoStream /\ actor[v].stop = NoStream
  BY Facts, LiveViewAssumption DEF Register, ShapeOf, Actors, Nobody
<1>2. /\ i \in Streams /\ i \notin sessions /\ ~stream[i].lost /\ c \in Cameras
      /\ stream[i].service /\ stream[i].dir /\ lock = v /\ byCamera[c] = NoStream
      /\ \A a \in Actors \ {v} : i # actor[a].own /\ i # actor[a].stop /\ i \notin actor[a].left
  BY <1>1, OwnFacts
<1>3. /\ sessions' = sessions \cup {i} /\ byCamera' = [byCamera EXCEPT ![c] = i]
      /\ actor' = [actor EXCEPT ![v] = Inactive] /\ lock' = Nobody
      /\ UNCHANGED <<stream, idle, up>>
  BY DEF Register
<1>4. \A a \in Actors \ {v} : actor[a].own = NoStream \/ actor[a].pc = "lock"
  BY <1>2, OwnFacts
<1> HIDE DEF i, c
<1>5. /\ actor' \in [Actors -> ActorRecord] /\ actor'[v] = Inactive
      /\ \A b \in Actors \ {v} : actor'[b] = actor[b]
      /\ byCamera' \in [Cameras -> Streams \cup {NoStream}] /\ byCamera'[c] = i
      /\ \A d \in Cameras \ {c} : byCamera'[d] = byCamera[d]
  BY <1>1, <1>2, <1>3, NothingType, Facts
<1>6. LiveTypeOK'
  BY <1>2, <1>3, <1>5, Facts, TypeNext
<1>7. TablesAgree'
  BY <1>2, <1>3, <1>5, Facts DEF LiveInv, TablesAgree, c
<1>8. ListedIsWhole'
  <2>1. ASSUME NEW s \in sessions
        PROVE  /\ stream'[s].service /\ stream'[s].dir /\ ~stream'[s].lost
               /\ \A a \in Actors : s \notin {actor'[a].own, actor'[a].stop}
    BY <1>3, <1>5, NothingType, Facts, StopFacts DEF LiveInv, ListedIsWhole
  <2>2. \A a \in Actors : i \notin {actor'[a].own, actor'[a].stop}
    BY <1>2, <1>5, NothingType, Facts
  <2> QED BY <1>2, <1>3, <2>1, <2>2 DEF ListedIsWhole
<1>9. ActorShape'
  BY <1>1, <1>3, <1>5, NothingType DEF LiveInv, ActorShape, Actors
<1>10. OwnsApart'
  <2> SUFFICES ASSUME NEW b \in Actors, actor'[b].own # NoStream
               PROVE  LET k == actor'[b].own IN
                /\ k \notin sessions' /\ ~stream'[k].lost /\ stream'[k].camera \in Cameras
                /\ \A a \in Actors \ {b} : k # actor'[a].own /\ k # actor'[a].stop /\ k \notin actor'[a].left
                /\ actor'[b].stop # k => stream'[k].service
                /\ actor'[b].pc # "lock" => lock' = b
                /\ actor'[b].pc # "lock" /\ actor'[b].stop # k => byCamera'[stream'[k].camera] = NoStream
                /\ actor'[b].pc \in {"spawn", "playlist"} => stream'[k].dir
    BY OwnsApartNext
  <2>1. b # v /\ actor'[b] = actor[b] /\ actor[b].pc = "lock" /\ actor[b].own # i
    BY <1>2, <1>4, <1>5, NothingType
  <2>2. \A a \in Actors \ {b} :
           /\ actor[b].own # actor'[a].own /\ actor[b].own # actor'[a].stop
           /\ actor[b].own \notin actor'[a].left
    BY <1>5, <2>1, NothingType, OwnFacts
  <2> QED BY <1>3, <2>1, <2>2, OwnFacts
<1>11. Owned'
  <2> SUFFICES ASSUME NEW k \in Streams, Held(k), ~stream[k].lost, k \notin sessions \cup {i}
               PROVE  \E b \in Actors : k \in {actor'[b].own, actor'[b].stop}
    BY <1>3 DEF Owned, Held
  <2>1. PICK b \in Actors : k \in {actor[b].own, actor[b].stop}
    BY DEF LiveInv, Owned
  <2>2. b # v
    BY <1>1, <2>1, Facts DEF i
  <2> QED BY <1>5, <2>1, <2>2
<1> QED BY <1>6, <1>7, <1>8, <1>9, <1>10, <1>11 DEF LiveCore

\* A stream comes into being that nothing and nobody knew of.
LEMMA OpenRelayStep ==
    ASSUME LiveInv, NEW v \in Viewers, NEW c \in Cameras, OpenRelay(v, c)
    PROVE  LiveCore'
<1>1. PICK i \in Streams :
         /\ IsNext(i)
         /\ stream' = [stream EXCEPT ![i] = [Nothing EXCEPT !.camera = c, !.relay = TRUE, !.service = TRUE]]
         /\ actor' = [actor EXCEPT ![v] = [Inactive EXCEPT !.pc = "lock", !.own = i]]
  BY DEF OpenRelay
<1> DEFINE s == [Nothing EXCEPT !.camera = c, !.relay = TRUE, !.service = TRUE]
           r == [Inactive EXCEPT !.pc = "lock", !.own = i]
<1>2. s \in StreamRecord /\ s.camera = c /\ s.service /\ ~s.lost
  BY DEF Nothing, StreamRecord
<1>3. /\ r \in ActorRecord /\ r.pc = "lock" /\ r.own = i /\ r.stop = NoStream /\ r.left = {}
  BY DEF Inactive, ActorRecord
<1>4. /\ v \in Actors /\ v # "main" /\ actor[v].pc = "off" /\ up /\ actor[v] \in ActorRecord
      /\ ShapeOf(v, actor[v]) /\ actor[v].own = NoStream /\ actor[v].stop = NoStream
      /\ UNCHANGED <<sessions, idle, byCamera, lock, up>>
  BY Facts, LiveViewAssumption DEF OpenRelay, Actors, ShapeOf
<1> HIDE DEF s, r
<1>5. /\ stream' \in [Streams -> StreamRecord] /\ stream'[i] = s
      /\ \A k \in Streams \ {i} : stream'[k] = stream[k]
      /\ actor' \in [Actors -> ActorRecord] /\ actor'[v] = r
      /\ \A b \in Actors \ {v} : actor'[b] = actor[b]
  BY <1>1, <1>2, <1>3, <1>4, Facts DEF s, r
<1>6. /\ i # NoStream /\ ~Held(i)
      /\ \A a \in Actors : i # actor[a].own /\ i # actor[a].stop /\ i \notin actor[a].left
  BY <1>1, Facts DEF IsNext, Unused, InHand
<1>7. i \notin sessions
  BY <1>6 DEF LiveInv, ListedIsWhole, Held
<1>8. lock # v
  BY <1>4, Facts, LiveViewAssumption DEF LiveInv, ActorShape, Nobody
<1>9. LiveTypeOK'
  BY <1>4, <1>5, Facts, TypeNext
<1>10. \A k \in sessions : k # i /\ stream'[k] = stream[k]
  BY <1>5, <1>7, Facts
<1>11. TablesAgree'
  BY <1>4, <1>10, Facts DEF LiveInv, TablesAgree
<1>12. ListedIsWhole'
  BY <1>3, <1>4, <1>5, <1>10, Facts DEF LiveInv, ListedIsWhole
<1>13. ActorShape'
  <2>1. \A b \in Actors : ShapeOf(b, actor'[b])
    BY <1>3, <1>4, <1>5, <1>6, Facts DEF ShapeOf
  <2>2. actor'["main"] = actor["main"]
    BY <1>4, <1>5 DEF Actors
  <2>3. lock # Nobody => lock \in Actors /\ actor'[lock] = actor[lock]
    BY <1>5, <1>8, Facts DEF Actors
  <2> QED BY <1>4, <2>1, <2>2, <2>3 DEF LiveInv, ActorShape, ShapeOf
<1>14. OwnsApart'
  <2> SUFFICES ASSUME NEW b \in Actors, actor'[b].own # NoStream
               PROVE  LET k == actor'[b].own IN
                /\ k \notin sessions' /\ ~stream'[k].lost /\ stream'[k].camera \in Cameras
                /\ \A a \in Actors \ {b} : k # actor'[a].own /\ k # actor'[a].stop /\ k \notin actor'[a].left
                /\ actor'[b].stop # k => stream'[k].service
                /\ actor'[b].pc # "lock" => lock' = b
                /\ actor'[b].pc # "lock" /\ actor'[b].stop # k => byCamera'[stream'[k].camera] = NoStream
                /\ actor'[b].pc \in {"spawn", "playlist"} => stream'[k].dir
    BY OwnsApartNext
  <2>1. CASE b = v
    BY <1>2, <1>3, <1>4, <1>5, <1>6, <1>7, <2>1
  <2>2. CASE b # v
    <3>1. actor'[b] = actor[b] /\ actor[b].own # i /\ actor[b].own \in Streams
      BY <1>5, <1>6, <2>2, OwnFacts
    <3>2. stream'[actor[b].own] = stream[actor[b].own]
      BY <1>5, <3>1
    <3>3. \A a \in Actors \ {b} :
             /\ actor[b].own # actor'[a].own /\ actor[b].own # actor'[a].stop
             /\ actor[b].own \notin actor'[a].left
      BY <1>3, <1>5, <3>1, Facts, OwnFacts
    <3> QED BY <1>4, <3>1, <3>2, <3>3, OwnFacts
  <2> QED BY <2>1, <2>2
<1>15. Owned'
  <2> SUFFICES ASSUME NEW k \in Streams, HeldIn(stream'[k]), ~stream'[k].lost, k \notin sessions
               PROVE  \E b \in Actors : k \in {actor'[b].own, actor'[b].stop}
    BY <1>4 DEF Owned, Held, HeldIn
  <2>1. CASE k = i
    BY <1>3, <1>4, <1>5, <2>1
  <2>2. CASE k # i
    <3>1. PICK b \in Actors : k \in {actor[b].own, actor[b].stop}
      BY <1>5, <2>2 DEF LiveInv, Owned, Held, HeldIn
    <3>2. b # v
      BY <1>4, <3>1, Facts
    <3> QED BY <1>5, <3>1, <3>2
  <2> QED BY <2>1, <2>2
<1> QED BY <1>9, <1>11, <1>12, <1>13, <1>14, <1>15 DEF LiveCore

\* A feed is given up.  Who else awaited it is cancelled, and what a cancelled
\* start had opened is lost.
LEMMA FeedTimesOutStep ==
    ASSUME LiveInv, NEW a \in Actors, FeedTimesOut(a)
    PROVE  LiveCore'
<1> DEFINE r == [actor[a] EXCEPT !.pc = "close"]
<1>1. /\ actor[a] \in ActorRecord /\ ShapeOf(a, actor[a]) /\ actor[a].pc = "feed"
      /\ actor[a].stop \in Streams /\ (a = "main" => ~up)
      /\ UNCHANGED <<sessions, idle, byCamera, up>>
  BY Facts DEF FeedTimesOut, ShapeOf, ActorRecord, LiveInv, ActorShape
<1>2. /\ r \in ActorRecord /\ r.own = actor[a].own /\ r.stop = actor[a].stop
      /\ r.left = actor[a].left /\ r.pc = "close"
  BY <1>1, PhaseRecord
<1>3. /\ Caught(a) \subseteq Actors \ {a}
      /\ \A b \in Caught(a) : actor[b].pc = "feed" /\ actor[b].stop = actor[a].stop
  BY DEF Caught
<1>4. \A b \in Actors : /\ Cancelled(b) \in ActorRecord /\ Cancelled(b).own = NoStream
                        /\ Cancelled(b).stop = NoStream /\ Cancelled(b).left = {}
                        /\ Cancelled(b).pc = IF b = "sweeper" THEN "dead" ELSE "off"
  BY NothingType DEF Cancelled, Inactive
<1> HIDE DEF r
<1>5. /\ actor' \in [Actors -> ActorRecord] /\ actor'[a] = r
      /\ \A b \in Actors \ {a} : actor'[b] = IF b \in Caught(a) THEN Cancelled(b) ELSE actor[b]
  BY <1>2, <1>3, <1>4, Facts DEF FeedTimesOut, r
<1>6. /\ lock' = IF lock \in Caught(a) THEN Nobody ELSE lock
      /\ stream' = [i \in Streams |-> [stream[i] EXCEPT
                     !.feeding = stream[i].feeding /\ i # actor[a].stop,
                     !.cancelled = stream[i].cancelled \/ i = actor[a].stop,
                     !.lost = stream[i].lost \/ (i # actor[a].stop /\ \E b \in Caught(a) : actor[b].own = i)]]
  BY DEF FeedTimesOut
<1>7. stream' \in [Streams -> StreamRecord]
  <2>1. \A i \in Streams : \A f, c, l \in BOOLEAN :
           [stream[i] EXCEPT !.feeding = f, !.cancelled = c, !.lost = l] \in StreamRecord
    BY Facts DEF StreamRecord
  <2>2. \A i \in Streams : /\ (stream[i].feeding /\ i # actor[a].stop) \in BOOLEAN
                           /\ (stream[i].cancelled \/ i = actor[a].stop) \in BOOLEAN
                           /\ (stream[i].lost \/ (i # actor[a].stop /\ \E b \in Caught(a) : actor[b].own = i)) \in BOOLEAN
    OBVIOUS
  <2> QED BY <1>6, <2>1, <2>2
<1>8. \A i \in Streams :
         /\ stream'[i].camera = stream[i].camera /\ stream'[i].service = stream[i].service
         /\ stream'[i].dir = stream[i].dir
         /\ HeldIn(stream'[i]) => HeldIn(stream[i])
         /\ stream[i].lost => stream'[i].lost
         /\ stream'[i].lost <=> (stream[i].lost \/ (i # actor[a].stop /\ \E b \in Caught(a) : actor[b].own = i))
  <2> SUFFICES ASSUME NEW i \in Streams
               PROVE  /\ stream'[i].camera = stream[i].camera /\ stream'[i].service = stream[i].service
                      /\ stream'[i].dir = stream[i].dir
                      /\ HeldIn(stream'[i]) => HeldIn(stream[i])
                      /\ stream[i].lost => stream'[i].lost
                      /\ stream'[i].lost <=> (stream[i].lost \/ (i # actor[a].stop /\ \E b \in Caught(a) : actor[b].own = i))
    OBVIOUS
  <2> DEFINE f == stream[i].feeding /\ i # actor[a].stop
             c == stream[i].cancelled \/ i = actor[a].stop
             l == stream[i].lost \/ (i # actor[a].stop /\ \E b \in Caught(a) : actor[b].own = i)
  <2>1. stream[i] \in StreamRecord /\ stream'[i] = [stream[i] EXCEPT !.feeding = f, !.cancelled = c, !.lost = l]
    BY <1>6, Facts
  <2>2. (f => stream[i].feeding) /\ (stream[i].lost => l)
    OBVIOUS
  <2>3. l <=> (stream[i].lost \/ (i # actor[a].stop /\ \E b \in Caught(a) : actor[b].own = i))
    OBVIOUS
  <2> HIDE DEF f, c, l
  <2>4. /\ stream'[i].camera = stream[i].camera /\ stream'[i].service = stream[i].service
        /\ stream'[i].dir = stream[i].dir /\ stream'[i].process = stream[i].process
        /\ stream'[i].relay = stream[i].relay
        /\ stream'[i].feeding = f /\ stream'[i].lost = l
    BY <2>1 DEF StreamRecord
  <2> QED BY <2>2, <2>3, <2>4 DEF HeldIn
\* A stream is lost by this only if it was a caught start's.
<1>9. ASSUME NEW i \in Streams, ~stream[i].lost, stream'[i].lost
      PROVE  \E b \in Caught(a) : actor[b].own = i
  BY <1>8, <1>9
<1>10. LiveTypeOK'
  BY <1>1, <1>5, <1>6, <1>7, Facts, TypeNext
<1>11. TablesAgree'
  BY <1>1, <1>8, Facts DEF LiveInv, TablesAgree
<1>12. ListedIsWhole'
  <2> SUFFICES ASSUME NEW s \in sessions
               PROVE  /\ stream'[s].service /\ stream'[s].dir /\ ~stream'[s].lost
                      /\ \A b \in Actors : s \notin {actor'[b].own, actor'[b].stop}
    BY <1>1 DEF ListedIsWhole
  <2>1. /\ s \in Streams /\ stream[s].service /\ stream[s].dir /\ ~stream[s].lost
        /\ \A b \in Actors : s # actor[b].own /\ s # actor[b].stop
    BY Facts DEF LiveInv, ListedIsWhole
  <2>2. ~stream'[s].lost
    BY <1>3, <1>9, <2>1
  <2>3. \A b \in Actors : s \notin {actor'[b].own, actor'[b].stop}
    BY <1>2, <1>4, <1>5, <2>1, Facts
  <2> QED BY <1>8, <2>1, <2>2, <2>3
<1>13. ActorShape'
  <2>1. \A b \in Actors : ShapeOf(b, actor'[b])
    BY <1>1, <1>2, <1>4, <1>5, Facts DEF ShapeOf
  <2>2. up' => actor'["main"].pc = "off"
    <3>1. CASE "main" = a
      BY <1>1, <3>1
    <3>2. CASE "main" # a
      BY <1>1, <1>4, <1>5, <3>2 DEF LiveInv, ActorShape, Actors
    <3> QED BY <3>1, <3>2
  <2>3. lock' # Nobody => actor'[lock'].own # NoStream
    <3> SUFFICES ASSUME lock' # Nobody PROVE actor'[lock'].own # NoStream
      OBVIOUS
    <3>1. /\ lock' = lock /\ lock \notin Caught(a) /\ lock \in Actors
          /\ actor[lock].own # NoStream
      BY <1>6, Facts DEF LiveInv, ActorShape, Actors
    <3> QED BY <1>2, <1>5, <3>1
  <2> QED BY <2>1, <2>2, <2>3 DEF ActorShape, ShapeOf
<1>14. OwnsApart'
  <2> SUFFICES ASSUME NEW b \in Actors, actor'[b].own # NoStream
               PROVE  LET k == actor'[b].own IN
                /\ k \notin sessions' /\ ~stream'[k].lost /\ stream'[k].camera \in Cameras
                /\ \A c \in Actors \ {b} : k # actor'[c].own /\ k # actor'[c].stop /\ k \notin actor'[c].left
                /\ actor'[b].stop # k => stream'[k].service
                /\ actor'[b].pc # "lock" => lock' = b
                /\ actor'[b].pc # "lock" /\ actor'[b].stop # k => byCamera'[stream'[k].camera] = NoStream
                /\ actor'[b].pc \in {"spawn", "playlist"} => stream'[k].dir
    BY OwnsApartNext
  <2>1. /\ b \notin Caught(a) /\ actor'[b].own = actor[b].own /\ actor'[b].stop = actor[b].stop
        /\ actor'[b].pc \in {"spawn", "playlist", "lock"} => actor'[b].pc = actor[b].pc
        /\ actor'[b].pc # "lock" => actor[b].pc # "lock"
    <3>1. CASE b = a
      BY <1>1, <1>2, <1>3, <1>5, <3>1
    <3>2. CASE b # a
      BY <1>4, <1>5, <3>2
    <3> QED BY <3>1, <3>2
  <2>2. \A c \in Actors \ {b} :
           /\ actor[b].own # actor'[c].own /\ actor[b].own # actor'[c].stop
           /\ actor[b].own \notin actor'[c].left
    BY <1>2, <1>4, <1>5, <2>1, OwnFacts
  <2>3. actor[b].own \in Streams /\ ~stream'[actor[b].own].lost
    BY <1>3, <1>9, <2>1, OwnFacts
  <2>4. actor'[b].pc # "lock" => lock' = b
    BY <1>6, <2>1, OwnFacts
  <2>5. stream'[actor[b].own].camera = stream[actor[b].own].camera
        /\ stream'[actor[b].own].service = stream[actor[b].own].service
        /\ stream'[actor[b].own].dir = stream[actor[b].own].dir
    BY <1>8, <2>3
  <2> QED BY <1>1, <2>1, <2>2, <2>3, <2>4, <2>5, OwnFacts
<1>15. Owned'
  <2> SUFFICES ASSUME NEW i \in Streams, HeldIn(stream'[i]), ~stream'[i].lost, i \notin sessions
               PROVE  \E b \in Actors : i \in {actor'[b].own, actor'[b].stop}
    BY <1>1 DEF Owned, Held, HeldIn
  <2>1. PICK b \in Actors : i \in {actor[b].own, actor[b].stop}
    BY <1>8 DEF LiveInv, Owned, Held, HeldIn
  <2>2. CASE b \in Caught(a)
    \* Then i is the stream that a stops as well: otherwise it is lost.
    <3>1. i = actor[a].stop
      BY <1>3, <1>8, <2>1, <2>2
    <3> QED BY <1>2, <1>5, <3>1
  <2>3. CASE b \notin Caught(a)
    BY <1>2, <1>5, <2>1, <2>3
  <2> QED BY <2>2, <2>3
<1> QED BY <1>10, <1>11, <1>12, <1>13, <1>14, <1>15 DEF LiveCore

\* A feed that was given up before: whoever comes to await it ends, and the
\* stop that gave it up still has the stream in hand.
LEMMA FeedRaisesStep ==
    ASSUME LiveInv, NEW a \in Actors, FeedRaises(a)
    PROVE  LiveCore'
<1> DEFINE i == actor[a].stop
           r == Cancelled(a)
<1>1. /\ actor[a] \in ActorRecord /\ ShapeOf(a, actor[a]) /\ actor[a].pc = "feed"
      /\ i \in Streams /\ stream[i].cancelled
      /\ actor' = [actor EXCEPT ![a] = r] /\ lock' = IF lock = a THEN Nobody ELSE lock
      /\ up \in BOOLEAN /\ UNCHANGED <<sessions, idle, byCamera, up>>
  BY Facts DEF FeedRaises, ShapeOf, ActorRecord
<1>2. /\ r \in ActorRecord /\ r.own = NoStream /\ r.stop = NoStream /\ r.left = {}
      /\ r.pc \in {"off", "asleep", "dead"} /\ (a = "main" => r.pc = "off")
  BY NothingType DEF Cancelled, Inactive
<1> HIDE DEF r
<1>3. ASSUME NEW k \in Streams
      PROVE  /\ stream'[k] \in StreamRecord
             /\ k \notin {i, actor[a].own} => stream'[k] = stream[k]
             /\ k # i /\ k = actor[a].own => stream'[k].lost
             /\ HeldIn(stream'[k]) => HeldIn(stream[k])
             /\ stream[k].lost => stream'[k].lost
  <2> DEFINE c == stream[k].cancelled /\ (k = i => StoppedByOther(a))
             l == stream[k].lost \/ (k # i /\ k = actor[a].own)
  <2>1. stream[k] \in StreamRecord /\ stream'[k] = [stream[k] EXCEPT !.cancelled = c, !.lost = l]
    BY Facts DEF FeedRaises
  <2>2. /\ c \in BOOLEAN /\ l \in BOOLEAN /\ (stream[k].lost => l) /\ (k # i /\ k = actor[a].own => l)
    OBVIOUS
  <2>3. k \notin {i, actor[a].own} => c = stream[k].cancelled /\ l = stream[k].lost
    BY <2>1 DEF StreamRecord
  <2> HIDE DEF c, l
  <2>4. [stream[k] EXCEPT !.cancelled = stream[k].cancelled, !.lost = stream[k].lost] = stream[k]
    BY <2>1 DEF StreamRecord
  <2> QED BY <2>1, <2>2, <2>3, <2>4 DEF StreamRecord, HeldIn
<1>4. stream' \in [Streams -> StreamRecord]
  <2>1. stream' = [k \in Streams |-> stream'[k]]
    BY DEF FeedRaises
  <2> QED BY <1>3, <2>1
<1>5. \A k \in Streams : k \in {actor[a].own, actor[a].stop} =>
         \/ ~HeldIn(stream'[k]) \/ stream'[k].lost
         \/ \E b \in Actors \ {a} : actor[b].stop = k
  <2>1. ~HeldIn(stream[i]) \/ stream[i].lost \/ \E b \in Actors \ {a} : actor[b].stop = i
    BY <1>1 DEF LiveInv, GivenUpIsClosed, Held, HeldIn
  <2> QED BY <1>1, <1>3, <2>1
<1>6. \A k \in Streams : k \notin {actor[a].own, actor[a].stop} => stream'[k] = stream[k]
  BY <1>3
<1> QED BY <1>1, <1>2, <1>4, <1>5, <1>6, ActorEnds

-----------------------------------------------------------------------------
(* The feeds that were given up.                                           *)

\* What a step may do to a stream so that GivenUpIsClosed stays true of it.
Follows(i) ==
    stream'[i].cancelled =>
      /\ stream[i].cancelled
      /\ stream'[i].feeding => stream[i].feeding
      /\ HeldIn(stream'[i]) => HeldIn(stream[i])
      /\ stream[i].lost => stream'[i].lost \/ ~HeldIn(stream'[i])
      /\ \A a \in Actors : actor[a].stop = i /\ actor[a].pc = "close" =>
            \/ ~HeldIn(stream'[i]) \/ stream'[i].lost
            \/ actor'[a].stop = i /\ actor'[a].pc = "close"

LEMMA FollowsIsEnough ==
    ASSUME LiveInv, \A i \in Streams : Follows(i)
    PROVE  GivenUpIsClosed'
<1> SUFFICES ASSUME NEW i \in Streams, stream'[i].cancelled
             PROVE  /\ ~stream'[i].feeding
                    /\ HeldIn(stream'[i]) => stream'[i].lost
                         \/ \E a \in Actors : actor'[a].stop = i /\ actor'[a].pc = "close"
  BY DEF GivenUpIsClosed, Held, HeldIn
<1>1. Follows(i) /\ stream[i].cancelled
  BY DEF Follows
<1>2. /\ ~stream[i].feeding
      /\ HeldIn(stream[i]) => stream[i].lost
            \/ \E a \in Actors : actor[a].stop = i /\ actor[a].pc = "close"
  BY <1>1 DEF LiveInv, GivenUpIsClosed, Held, HeldIn
<1> QED BY <1>1, <1>2 DEF Follows

\* The stream of a start is its own: nobody has given up its feed.
LEMMA OwnIsNotGivenUp ==
    ASSUME LiveInv, NEW v \in Actors, actor[v].own # NoStream, actor[v].stop # actor[v].own
    PROVE  ~stream[actor[v].own].cancelled
<1>1. /\ actor[v].own \in Streams /\ ~stream[actor[v].own].lost /\ stream[actor[v].own].service
      /\ \A a \in Actors \ {v} : actor[v].own # actor[a].stop
  BY OwnFacts
<1> QED BY <1>1 DEF LiveInv, GivenUpIsClosed, Held

\* BeginStop leaves the other streams as they are in base, and its own with no
\* more than it had there.
LEMMA BeginFollows ==
    ASSUME LiveInv, NEW a \in Actors, NEW i \in Streams, NEW job \in ActorRecord,
           NEW actors \in [Actors -> ActorRecord], NEW base \in [Streams -> StreamRecord],
           BeginStop(a, i, job, actors, base),
           \A k \in Streams :
              \/ /\ base[k].cancelled = stream[k].cancelled /\ base[k].feeding = stream[k].feeding
                 /\ HeldIn(base[k]) => HeldIn(stream[k])
                 /\ stream[k].lost => base[k].lost
              \/ ~HeldIn(base[k]) /\ (base[k].cancelled => stream[k].cancelled),
           \A b \in Actors : actor[b].stop # NoStream =>
              \/ b # a /\ actors[b] = actor[b]
              \/ ~HeldIn(base[actor[b].stop]) \/ base[actor[b].stop].lost
    PROVE  GivenUpIsClosed'
<1> SUFFICES ASSUME NEW k \in Streams, stream'[k].cancelled
             PROVE  /\ ~stream'[k].feeding
                    /\ HeldIn(stream'[k]) => stream'[k].lost
                         \/ \E b \in Actors : actor'[b].stop = k /\ actor'[b].pc = "close"
  BY DEF GivenUpIsClosed, Held, HeldIn
<1>1. /\ stream'[k].cancelled = base[k].cancelled /\ stream'[k].feeding = base[k].feeding
      /\ stream'[k].lost = base[k].lost /\ (HeldIn(stream'[k]) => HeldIn(base[k]))
  <2>1. base[k] \in StreamRecord /\ base[i] \in StreamRecord
    OBVIOUS
  <2> DEFINE s == [base[i] EXCEPT !.relay = FALSE]
  <2>2. stream' = base \/ stream' = [base EXCEPT ![i] = s]
    BY DEF BeginStop
  <2>3. /\ s.cancelled = base[i].cancelled /\ s.feeding = base[i].feeding /\ s.lost = base[i].lost
        /\ HeldIn(s) => HeldIn(base[i])
    BY <2>1 DEF StreamRecord, HeldIn
  <2> HIDE DEF s
  <2> QED BY <2>1, <2>2, <2>3
<1>2. \A b \in Actors \ {a} : actor'[b] = actors[b]
  BY DEF BeginStop
<1>3. CASE ~HeldIn(base[k])
  BY <1>1, <1>3 DEF HeldIn
<1>4. CASE HeldIn(base[k])
  <2>1. /\ stream[k].cancelled /\ base[k].feeding = stream[k].feeding
        /\ HeldIn(stream[k]) /\ (stream[k].lost => base[k].lost)
    BY <1>1, <1>4
  <2>2. ~stream[k].feeding /\ (stream[k].lost \/ \E b \in Actors : actor[b].stop = k /\ actor[b].pc = "close")
    BY <2>1 DEF LiveInv, GivenUpIsClosed, Held, HeldIn
  <2>3. ASSUME NEW b \in Actors, actor[b].stop = k, actor[b].pc = "close", ~base[k].lost
        PROVE  actor'[b].stop = k /\ actor'[b].pc = "close"
    <3>1. actor[b].stop # NoStream
      BY <2>3, Facts
    <3> QED BY <1>2, <1>4, <2>3, <3>1
  <2> QED BY <1>1, <2>1, <2>2, <2>3
<1> QED BY <1>3, <1>4

\* Streams that are closed, prepared or given back.
LEMMA ClearedFollows ==
    ASSUME LiveInv, NEW a \in Actors, actor[a].pc = "close", NEW i \in Streams,
           \/ stream'[i] = Cleared(a)[i]
           \/ ~stream'[i].cancelled,
           \A b \in Actors \ {a} : actor'[b] = actor[b]
    PROVE  Follows(i)
<1>1. actor[a].stop \in Streams
  BY Facts DEF ShapeOf, ActorRecord
<1>2. CASE i = actor[a].stop /\ stream'[i] = Cleared(a)[i]
  <2>1. ~HeldIn(stream'[i]) /\ (stream'[i].cancelled => stream[i].cancelled)
    BY <1>1, <1>2, ClearedIs
  <2>2. ~stream'[i].feeding
    BY <2>1 DEF HeldIn
  <2> QED BY <2>1, <2>2 DEF Follows
<1>3. CASE i # actor[a].stop /\ stream'[i] = Cleared(a)[i]
  <2>1. stream'[i] = stream[i]
    BY <1>1, <1>3, ClearedIs
  <2> QED BY <1>3, <2>1 DEF Follows
<1> QED BY <1>2, <1>3 DEF Follows

LEMMA StartFollows ==
    ASSUME LiveInv, NEW v \in Viewers, StartStep(v), ~PlaylistFails(v)
    PROVE  GivenUpIsClosed'
<1>1. /\ v \in Actors /\ actor[v] \in ActorRecord /\ ShapeOf(v, actor[v])
  BY Facts DEF Actors
<1>2. CASE OldStopped(v)
  <2>1. /\ actor[v].pc = "close" /\ actor[v].stop # actor[v].own /\ lock = v
        /\ stream' = Prepared(Cleared(v), actor[v].own)
        /\ \A b \in Actors \ {v} : actor'[b] = actor[b]
    BY <1>2, Facts DEF OldStopped
  <2>2. actor[v].own # NoStream /\ actor[v].own \in Streams /\ actor[v].stop \in Streams
    BY <1>1, <2>1, LiveViewAssumption, OwnFacts DEF LiveInv, ActorShape, Nobody, ShapeOf, ActorRecord
  <2>3. ~stream[actor[v].own].cancelled
    BY <1>1, <2>1, <2>2, OwnIsNotGivenUp
  <2> DEFINE base == Cleared(v)
  <2>4. base \in [Streams -> StreamRecord] /\ base[actor[v].own] = stream[actor[v].own]
    BY <1>1, <2>1, <2>2, ClearedIs
  <2> HIDE DEF base
  <2>5. /\ ~Prepared(base, actor[v].own)[actor[v].own].cancelled
        /\ \A k \in Streams \ {actor[v].own} : Prepared(base, actor[v].own)[k] = base[k]
    BY <2>2, <2>3, <2>4 DEF Prepared, StreamRecord
  <2>6. \A i \in Streams : stream'[i] = Cleared(v)[i] \/ ~stream'[i].cancelled
    BY <2>1, <2>5 DEF base
  <2> QED BY <1>1, <2>1, <2>6, ClearedFollows, FollowsIsEnough
<1>3. CASE FailedStopped(v)
  <2>1. actor[v].pc = "close" /\ stream' = Cleared(v) /\ \A b \in Actors \ {v} : actor'[b] = actor[b]
    BY <1>3, Facts DEF FailedStopped
  <2> QED BY <1>1, <2>1, ClearedFollows, FollowsIsEnough
<1>4. CASE Spawn(v) \/ SpawnFails(v) \/ SpawnBreaks(v) \/ Register(v)
  <2>1. /\ actor[v].pc \in {"spawn", "playlist"} /\ actor[v].own # NoStream /\ actor[v].stop = NoStream
        /\ \A b \in Actors \ {v} : actor'[b] = actor[b]
    BY <1>1, <1>4, Facts DEF Spawn, SpawnFails, SpawnBreaks, Register, ShapeOf
  <2>2. actor[v].own \in Streams /\ ~stream[actor[v].own].cancelled
    BY <1>1, <2>1, OwnFacts, OwnIsNotGivenUp
  <2>3. stream[actor[v].own] \in StreamRecord
    BY <2>2, Facts
  <2>4. \A k \in Streams : k # actor[v].own => stream'[k] = stream[k]
    BY <1>4, Facts DEF Spawn, SpawnFails, SpawnBreaks, Register
  <2>5. ~stream'[actor[v].own].cancelled
    <3> DEFINE s == stream[actor[v].own]
    <3>1. /\ ~[s EXCEPT !.process = TRUE].cancelled
          /\ \A made \in BOOLEAN : ~[s EXCEPT !.dir = made, !.lost = TRUE].cancelled
      BY <2>2, <2>3 DEF StreamRecord
    <3>2. CASE Spawn(v) \/ SpawnFails(v) \/ Register(v)
      BY <2>2, <3>1, <3>2, Facts, NothingType DEF Spawn, SpawnFails, Register
    <3>3. CASE SpawnBreaks(v)
      <4>1. PICK made \in BOOLEAN :
              stream' = [stream EXCEPT ![actor[v].own].dir = made, ![actor[v].own].lost = TRUE]
        BY <3>3 DEF SpawnBreaks
      <4>2. stream'[actor[v].own] = [s EXCEPT !.dir = made, !.lost = TRUE]
        BY <2>2, <4>1, Facts
      <4> QED BY <3>1, <4>2
    <3> QED BY <1>4, <3>2, <3>3
  <2>6. \A i \in Streams : Follows(i)
    BY <2>1, <2>4, <2>5 DEF Follows
  <2> QED BY <2>6, FollowsIsEnough
<1> QED BY <1>2, <1>3, <1>4 DEF StartStep

LEMMA AcquireFollows ==
    ASSUME LiveInv, NEW v \in Viewers, Acquire(v)
    PROVE  GivenUpIsClosed'
<1>1. /\ v \in Actors /\ actor[v] \in ActorRecord /\ actor[v].pc = "lock"
      /\ actor[v].own # NoStream /\ actor[v].stop = NoStream /\ v # "sweeper" /\ "sweeper" \in Actors
  BY Facts, LiveViewAssumption DEF Actors, Acquire, ShapeOf
<1>2. actor[v].own \in Streams /\ ~stream[actor[v].own].cancelled /\ stream[actor[v].own].camera \in Cameras
  BY <1>1, OwnFacts, OwnIsNotGivenUp
<1> DEFINE old == byCamera[stream[actor[v].own].camera]
<1>3. CASE old = NoStream
  <2>1. stream' = Prepared(stream, actor[v].own) /\ actor' = [Sweeping EXCEPT ![v].pc = "spawn"]
    BY <1>3 DEF Acquire
  <2>2. \A k \in Streams : k # actor[v].own => stream'[k] = stream[k]
    BY <1>2, <2>1, Facts DEF Prepared
  <2>3. ~stream'[actor[v].own].cancelled
    BY <1>2, <2>1, Facts DEF Prepared, StreamRecord
  <2>4. \A b \in Actors : actor[b].pc = "close" => actor'[b] = actor[b]
    <3>1. \A b \in Actors \ {v} : actor[b].pc = "close" => Sweeping[b] = actor[b]
      BY <1>1, Facts DEF Sweeping, ActorRecord
    <3>2. Sweeping \in [Actors -> ActorRecord]
      BY <1>1, Facts DEF Sweeping, ActorRecord
    <3> QED BY <1>1, <2>1, <3>1, <3>2
  <2>5. \A i \in Streams : Follows(i)
    BY <2>2, <2>3, <2>4 DEF Follows
  <2> QED BY <2>5, FollowsIsEnough
<1>4. CASE old # NoStream
  <2>1. BeginStop(v, old, actor[v], actor, stream)
    BY <1>4 DEF Acquire
  <2>2. old \in Streams
    BY <1>2, <1>4, Facts
  <2> HIDE DEF old
  <2>3. \A b \in Actors : actor[b].stop # NoStream => b # v /\ actor[b] = actor[b]
    BY <1>1
  <2> QED BY <1>1, <2>1, <2>2, <2>3, Facts, BeginFollows
<1> QED BY <1>3, <1>4

LEMMA StopFollows ==
    ASSUME LiveInv, NEW a \in Actors, StopStep(a)
    PROVE  GivenUpIsClosed'
<1>1. /\ actor[a] \in ActorRecord /\ ShapeOf(a, actor[a]) /\ actor[a].stop \in Streams
      /\ stream[actor[a].stop] \in StreamRecord
  BY Facts DEF StopStep, ProcessStops, FeedStopped, FeedTimesOut, FeedRaises, RequestStopped, NextStop,
               LastStop, ShapeOf, ActorRecord
<1>2. CASE ProcessStops(a) \/ FeedStopped(a)
  <2>1. \A k \in Streams : k # actor[a].stop => stream'[k] = stream[k]
    BY <1>2, Facts DEF ProcessStops, FeedStopped
  <2>2. /\ stream'[actor[a].stop].cancelled = stream[actor[a].stop].cancelled
        /\ stream'[actor[a].stop].feeding = stream[actor[a].stop].feeding
        /\ stream'[actor[a].stop].lost = stream[actor[a].stop].lost
        /\ HeldIn(stream'[actor[a].stop]) => HeldIn(stream[actor[a].stop])
    <3> DEFINE s == [stream[actor[a].stop] EXCEPT !.process = FALSE, !.relay = FALSE]
    <3>1. stream' = stream \/ stream' = [stream EXCEPT ![actor[a].stop] = s]
      BY <1>1, <1>2, Facts DEF ProcessStops, FeedStopped
    <3>2. /\ s.cancelled = stream[actor[a].stop].cancelled /\ s.feeding = stream[actor[a].stop].feeding
          /\ s.lost = stream[actor[a].stop].lost
          /\ HeldIn(s) => HeldIn(stream[actor[a].stop])
      BY <1>1 DEF StreamRecord, HeldIn
    <3> HIDE DEF s
    <3> QED BY <1>1, <3>1, <3>2, Facts
  <2>3. \A b \in Actors : actor[b].pc = "close" => actor'[b] = actor[b]
    BY <1>2, Facts DEF ProcessStops, FeedStopped
  <2>4. ASSUME NEW i \in Streams PROVE Follows(i)
    <3>1. CASE i # actor[a].stop
      BY <2>1, <2>3, <3>1 DEF Follows
    <3>2. CASE i = actor[a].stop
      BY <2>2, <2>3, <3>2 DEF Follows
    <3> QED BY <3>1, <3>2
  <2> QED BY <2>4, FollowsIsEnough
<1>3. CASE FeedTimesOut(a)
  <2> DEFINE r == [actor[a] EXCEPT !.pc = "close"]
  <2>1. r.pc = "close" /\ r.stop = actor[a].stop
    BY <1>1 DEF ActorRecord
  <2>2. actor'[a] = r /\ \A b \in Actors : actor[b].pc = "close" => actor'[b] = actor[b]
    BY <1>3, Facts DEF FeedTimesOut, Caught
  <2> HIDE DEF r
  <2>3. ASSUME NEW i \in Streams
        PROVE  /\ i # actor[a].stop => Follows(i)
               /\ i = actor[a].stop => ~stream'[i].feeding
    <3> DEFINE f == stream[i].feeding /\ i # actor[a].stop
               c == stream[i].cancelled \/ i = actor[a].stop
               l == stream[i].lost \/ (i # actor[a].stop /\ \E b \in Caught(a) : actor[b].own = i)
    <3>1. stream[i] \in StreamRecord /\ stream'[i] = [stream[i] EXCEPT !.feeding = f, !.cancelled = c, !.lost = l]
      BY <1>3, Facts DEF FeedTimesOut
    <3>2. /\ f => stream[i].feeding /\ i # actor[a].stop
          /\ c => stream[i].cancelled \/ i = actor[a].stop
          /\ stream[i].lost => l
      OBVIOUS
    <3> HIDE DEF f, c, l
    <3>3. /\ stream'[i].feeding = f /\ stream'[i].cancelled = c /\ stream'[i].lost = l
          /\ HeldIn(stream'[i]) => HeldIn(stream[i])
      BY <3>1, <3>2 DEF StreamRecord, HeldIn
    <3> QED BY <2>2, <3>2, <3>3 DEF Follows
  <2>4. ASSUME NEW i \in Streams, stream'[i].cancelled
        PROVE  /\ ~stream'[i].feeding
               /\ HeldIn(stream'[i]) => stream'[i].lost
                    \/ \E b \in Actors : actor'[b].stop = i /\ actor'[b].pc = "close"
    <3>1. CASE i = actor[a].stop
      BY <2>1, <2>2, <2>3, <3>1
    <3>2. CASE i # actor[a].stop
      <4>1. Follows(i)
        BY <2>3, <3>2
      <4> QED BY <2>4, <4>1 DEF Follows, LiveInv, GivenUpIsClosed, Held, HeldIn
    <3> QED BY <3>1, <3>2
  <2> QED BY <2>4 DEF GivenUpIsClosed, Held, HeldIn
<1>4. CASE FeedRaises(a)
  <2>1. \A b \in Actors : actor[b].pc = "close" => actor'[b] = actor[b]
    BY <1>4, Facts DEF FeedRaises
  <2>2. ASSUME NEW i \in Streams PROVE Follows(i)
    <3> DEFINE c == stream[i].cancelled /\ (i = actor[a].stop => StoppedByOther(a))
               l == stream[i].lost \/ (i # actor[a].stop /\ i = actor[a].own)
    <3>1. stream[i] \in StreamRecord /\ stream'[i] = [stream[i] EXCEPT !.cancelled = c, !.lost = l]
      BY <1>4, Facts DEF FeedRaises
    <3>2. (c => stream[i].cancelled) /\ (stream[i].lost => l)
      OBVIOUS
    <3> HIDE DEF c, l
    <3>3. /\ stream'[i].feeding = stream[i].feeding /\ stream'[i].cancelled = c /\ stream'[i].lost = l
          /\ HeldIn(stream'[i]) => HeldIn(stream[i])
      BY <3>1 DEF StreamRecord, HeldIn
    <3> QED BY <2>1, <3>2, <3>3 DEF Follows
  <2> QED BY <2>2, FollowsIsEnough
<1>5. CASE (a \in Viewers /\ RequestStopped(a)) \/ (a \notin Viewers /\ LastStop(a))
  <2>1. actor[a].pc = "close" /\ stream' = Cleared(a) /\ \A b \in Actors \ {a} : actor'[b] = actor[b]
    BY <1>5, Facts DEF RequestStopped, LastStop
  <2> QED BY <2>1, ClearedFollows, FollowsIsEnough
<1>6. CASE a \notin Viewers /\ NextStop(a)
  <2>1. PICK i \in actor[a].left :
          BeginStop(a, i, [actor[a] EXCEPT !.left = actor[a].left \ {i}], actor, Cleared(a))
    BY <1>6 DEF NextStop
  <2> DEFINE job == [actor[a] EXCEPT !.left = actor[a].left \ {i}]
             base == Cleared(a)
  <2>2. job \in ActorRecord /\ i \in Streams
    BY <1>1 DEF ActorRecord
  <2>3. /\ base \in [Streams -> StreamRecord] /\ ~HeldIn(base[actor[a].stop])
        /\ base[actor[a].stop].cancelled => stream[actor[a].stop].cancelled
        /\ \A k \in Streams \ {actor[a].stop} : base[k] = stream[k]
    BY <1>1, ClearedIs
  <2>4. BeginStop(a, i, job, actor, base)
    BY <2>1
  <2> HIDE DEF job, base
  <2> QED BY <2>2, <2>3, <2>4, Facts, BeginFollows
<1> QED BY <1>2, <1>3, <1>4, <1>5, <1>6 DEF StopStep

LEMMA BeginningFollows ==
    ASSUME LiveInv,
           \/ \E v \in Viewers : PlaylistFails(v) \/ \E i \in Streams : StopRequest(v, i)
           \/ Sweep \/ Shutdown
    PROVE  GivenUpIsClosed'
<1>1. /\ {"sweeper", "main"} \subseteq Actors /\ Viewers \subseteq Actors
      /\ "sweeper" # "main" /\ {"sweeper", "main"} \cap Viewers = {}
  BY LiveViewAssumption DEF Actors
<1>2. ASSUME NEW a \in Actors, NEW i \in Streams, NEW job \in ActorRecord,
             BeginStop(a, i, job, actor, stream), actor[a].stop = NoStream
      PROVE  GivenUpIsClosed'
  <2>1. \A b \in Actors : actor[b].stop # NoStream => b # a /\ actor[b] = actor[b]
    BY <1>2
  <2> QED BY <1>2, <2>1, Facts, BeginFollows
<1>3. ASSUME NEW v \in Viewers, PlaylistFails(v) PROVE GivenUpIsClosed'
  <2>1. /\ v \in Actors /\ actor[v] \in ActorRecord /\ actor[v].stop = NoStream /\ actor[v].own \in Streams
        /\ BeginStop(v, actor[v].own, actor[v], actor, stream)
    BY <1>1, <1>3, Facts, OwnFacts DEF PlaylistFails, ShapeOf
  <2> QED BY <1>2, <2>1
<1>4. ASSUME NEW v \in Viewers, NEW i \in Streams, StopRequest(v, i) PROVE GivenUpIsClosed'
  <2>1. v \in Actors /\ actor[v].stop = NoStream /\ BeginStop(v, i, Inactive, actor, stream)
    BY <1>1, <1>4, Facts DEF StopRequest, ShapeOf
  <2> QED BY <1>2, <2>1, NothingType
<1>5. CASE Sweep
  <2>1. PICK i \in idle : BeginStop("sweeper", i, [Inactive EXCEPT !.left = idle \ {i}], actor, stream)
    BY <1>5 DEF Sweep
  <2> DEFINE job == [Inactive EXCEPT !.left = idle \ {i}]
  <2>2. job \in ActorRecord /\ i \in Streams
    <3>1. idle \ {i} \in SUBSET Streams
      BY Facts
    <3> QED BY <3>1, Facts, NothingType DEF ActorRecord
  <2>3. actor["sweeper"].stop = NoStream /\ "sweeper" \in Actors
    BY <1>1, <1>5, Facts DEF Sweep, ShapeOf
  <2> HIDE DEF job
  <2> QED BY <1>2, <2>1, <2>2, <2>3 DEF job
<1>6. CASE Shutdown
  <2> DEFINE cut == [i \in Streams |-> [stream[i] EXCEPT !.lost = stream[i].lost \/ i = actor["sweeper"].stop]]
             q == [Inactive EXCEPT !.pc = "dead"]
             swept == [actor EXCEPT !["sweeper"] = q]
  <2>1. /\ q \in ActorRecord /\ actor["main"].stop = NoStream
        /\ \A v \in Viewers : actor[v].stop = NoStream
    BY <1>1, <1>6, Facts, NothingType DEF Shutdown, ShapeOf, LiveInv, ActorShape
  <2>2. ASSUME NEW k \in Streams
        PROVE  /\ cut[k] \in StreamRecord
               /\ cut[k].cancelled = stream[k].cancelled /\ cut[k].feeding = stream[k].feeding
               /\ HeldIn(cut[k]) => HeldIn(stream[k])
               /\ stream[k].lost => cut[k].lost
               /\ k = actor["sweeper"].stop => cut[k].lost
    <3>1. stream[k] \in StreamRecord
      BY Facts
    <3> QED BY <3>1 DEF StreamRecord, HeldIn
  <2>3. cut \in [Streams -> StreamRecord]
    BY <2>2
  <2>4. swept \in [Actors -> ActorRecord] /\ \A b \in Actors \ {"sweeper"} : swept[b] = actor[b]
    BY <2>1, Facts
  <2>5. \/ stream' = cut /\ actor' = swept
        \/ \E i \in sessions : BeginStop("main", i, [Inactive EXCEPT !.left = sessions \ {i}], swept, cut)
    BY <1>6 DEF Shutdown
  <2>6. \A b \in Actors : actor[b].stop # NoStream => b = "sweeper"
    BY <2>1 DEF Actors
  <2>7. actor["sweeper"].stop # NoStream =>
          actor["sweeper"].stop \in Streams /\ cut[actor["sweeper"].stop].lost
    BY <1>1, <2>2, Facts DEF ActorRecord
  <2> HIDE DEF cut, q, swept
  <2>8. CASE stream' = cut /\ actor' = swept
    <3>1. ASSUME NEW i \in Streams PROVE Follows(i)
      <4>1. \A b \in Actors : actor[b].stop = i => cut[i].lost
        BY <2>2, <2>6, Facts
      <4> QED BY <2>2, <2>8, <4>1 DEF Follows
    <3> QED BY <3>1, FollowsIsEnough
  <2>9. CASE \E i \in sessions : BeginStop("main", i, [Inactive EXCEPT !.left = sessions \ {i}], swept, cut)
    <3>1. PICK i \in sessions : BeginStop("main", i, [Inactive EXCEPT !.left = sessions \ {i}], swept, cut)
      BY <2>9
    <3> DEFINE job == [Inactive EXCEPT !.left = sessions \ {i}]
    <3>2. job \in ActorRecord /\ i \in Streams
      <4>1. sessions \ {i} \in SUBSET Streams
        BY Facts
      <4> QED BY <4>1, Facts, NothingType DEF ActorRecord
    <3> HIDE DEF job
    <3>3. BeginStop("main", i, job, swept, cut)
      BY <3>1 DEF job
    <3>4. "main" \in Actors /\ \A b \in Actors : actor[b].stop # NoStream => cut[actor[b].stop].lost
      BY <1>1, <2>6, <2>7
    <3> QED BY <2>2, <2>3, <2>4, <3>2, <3>3, <3>4, BeginFollows
  <2> QED BY <2>5, <2>8, <2>9
<1> QED BY <1>3, <1>4, <1>5, <1>6

LEMMA OthersFollow ==
    ASSUME LiveInv,
           \/ \E v \in Viewers, c \in Cameras : OpenRelay(v, c)
           \/ \E i \in Streams : Access(i) \/ GrowIdle(i) \/ ProcessExits(i) \/ FeedEnds(i)
           \/ UNCHANGED liveVars
    PROVE  GivenUpIsClosed'
<1>1. ASSUME NEW v \in Viewers, NEW c \in Cameras, OpenRelay(v, c) PROVE GivenUpIsClosed'
  <2>1. PICK i \in Streams :
           stream' = [stream EXCEPT ![i] = [Nothing EXCEPT !.camera = c, !.relay = TRUE, !.service = TRUE]]
    BY <1>1 DEF OpenRelay
  <2>2. \A b \in Actors : actor[b].pc = "close" => actor'[b] = actor[b]
    BY <1>1, Facts DEF OpenRelay
  <2>3. ~stream'[i].cancelled /\ \A k \in Streams \ {i} : stream'[k] = stream[k]
    <3>1. ~[Nothing EXCEPT !.camera = c, !.relay = TRUE, !.service = TRUE].cancelled
      BY DEF Nothing
    <3> QED BY <2>1, <3>1, Facts
  <2>4. \A k \in Streams : Follows(k)
    BY <2>2, <2>3 DEF Follows
  <2> QED BY <2>4, FollowsIsEnough
<1>2. ASSUME NEW i \in Streams, ProcessExits(i) \/ FeedEnds(i) PROVE GivenUpIsClosed'
  <2> DEFINE p == [stream[i] EXCEPT !.process = FALSE]
             f == [stream[i] EXCEPT !.feeding = FALSE]
  <2>1. \A x \in {p, f} : /\ x.cancelled = stream[i].cancelled /\ (x.feeding => stream[i].feeding)
                          /\ x.lost = stream[i].lost /\ (HeldIn(x) => HeldIn(stream[i]))
    <3>1. stream[i] \in StreamRecord
      BY Facts
    <3> QED BY <3>1 DEF StreamRecord, HeldIn
  <2>2. stream'[i] \in {p, f} /\ actor' = actor /\ \A k \in Streams \ {i} : stream'[k] = stream[k]
    BY <1>2, Facts DEF ProcessExits, FeedEnds
  <2> HIDE DEF p, f
  <2>3. ASSUME NEW k \in Streams PROVE Follows(k)
    <3>1. CASE k = i
      BY <2>1, <2>2, <3>1 DEF Follows
    <3>2. CASE k # i
      BY <2>2, <3>2 DEF Follows
    <3> QED BY <3>1, <3>2
  <2> QED BY <2>3, FollowsIsEnough
<1>3. CASE UNCHANGED <<stream, actor>>
  <2>1. \A i \in Streams : Follows(i)
    BY <1>3 DEF Follows
  <2> QED BY <2>1, FollowsIsEnough
<1> QED BY <1>1, <1>2, <1>3 DEF Access, GrowIdle, liveVars

-----------------------------------------------------------------------------

LEMMA NextLiveCore == LiveInv /\ [LiveNext]_liveVars => LiveCore'
<1> SUFFICES ASSUME LiveInv, [LiveNext]_liveVars PROVE LiveCore'
  OBVIOUS
<1>1. ASSUME NEW v \in Viewers, NEW c \in Cameras, OpenRelay(v, c) PROVE LiveCore'
  BY <1>1, OpenRelayStep
<1>2. ASSUME NEW v \in Viewers, Acquire(v) PROVE LiveCore'
  BY <1>2, AcquireOldStep, AcquireFreeStep
<1>3. ASSUME NEW v \in Viewers, StartStep(v) PROVE LiveCore'
  <2>1. v \in Actors
    BY DEF Actors
  <2> QED BY <1>3, <2>1, OldStoppedStep, SpawnStep, EndStep, RegisterStep, PlaylistFailsStep DEF StartStep
<1>4. ASSUME NEW v \in Viewers, NEW i \in Streams, StopRequest(v, i) PROVE LiveCore'
  BY <1>4, StopRequestStep
<1>5. ASSUME NEW a \in Actors, StopStep(a) PROVE LiveCore'
  <2>1. CASE ProcessStops(a) \/ FeedStopped(a)
    BY <2>1, StopGoesOnStep
  <2>2. CASE FeedTimesOut(a)
    BY <2>2, FeedTimesOutStep
  <2>3. CASE a \in Viewers /\ RequestStopped(a)
    BY <2>3, EndStep
  <2>4. CASE a \notin Viewers /\ NextStop(a)
    <3>1. a \in Actors \ Viewers /\ NextStop(a)
      BY <2>4
    <3> QED BY <3>1, NextStopStep
  <2>5. CASE a \notin Viewers /\ LastStop(a)
    BY <2>5, EndStep
  <2>6. CASE FeedRaises(a)
    BY <2>6, FeedRaisesStep
  <2> QED BY <1>5, <2>1, <2>2, <2>3, <2>4, <2>5, <2>6 DEF StopStep
<1>6. ASSUME NEW i \in Streams, Access(i) \/ GrowIdle(i) \/ ProcessExits(i) \/ FeedEnds(i) PROVE LiveCore'
  BY <1>6, SurroundingsStep
<1>7. CASE Sweep \/ Shutdown
  BY <1>7, SweepStep, ShutdownStep
<1>8. CASE UNCHANGED liveVars
  <2>1. UNCHANGED <<sessions, idle, byCamera, lock, actor, up, stream>>
    BY <1>8 DEF liveVars
  <2> QED BY <2>1, Facts, StreamsChange
<1> QED BY <1>1, <1>2, <1>3, <1>4, <1>5, <1>6, <1>7, <1>8 DEF LiveNext

LEMMA NextLiveInv == LiveInv /\ [LiveNext]_liveVars => LiveInv'
<1> SUFFICES ASSUME LiveInv, [LiveNext]_liveVars PROVE LiveInv'
  OBVIOUS
<1>1. LiveCore'
  BY NextLiveCore
<1>2. GivenUpIsClosed'
  BY StartFollows, AcquireFollows, StopFollows, BeginningFollows, OthersFollow DEF LiveNext, StartStep
<1> QED BY <1>1, <1>2 DEF LiveInv, LiveCore

\* The two tables of live_stream.py name the same sessions, whatever starts,
\* stops, sweeps and shutdown do between each other's awaits; a listed session
\* is whole and nobody is stopping it; a start past the lock has its camera
\* for itself (LiveViewSessionManager).
THEOREM SessionsAgree == LiveSpec => []LiveInv
<1>1. LiveInit => LiveInv
  BY InitLiveInv
<1>2. LiveInv /\ [LiveNext]_liveVars => LiveInv'
  BY NextLiveInv
<1> QED BY <1>1, <1>2, PTL DEF LiveSpec

\* No process, relay, feed, client or directory is without somebody who will
\* end it, but for the streams that an unexpected error or shutdown cut off
\* (start_session and _stop).
THEOREM NoStreamLeaks == LiveSpec => []NothingLeaks
<1>1. LiveInv => NothingLeaks
  BY DEF LiveInv, Owned, NothingLeaks, InHand
<1> QED BY <1>1, SessionsAgree, PTL

-----------------------------------------------------------------------------
(* Requests go forward.                                                    *)

Forward ==
    \A v \in Viewers : actor[v].pc # "off" =>
       actor'[v] = actor[v] \/ Before(actor'[v]) < Before(actor[v])

\* The phases in their order.
LEMMA BeforeIs ==
    ASSUME NEW r \in ActorRecord
    PROVE  /\ r.pc = "off" => Before(r) = 0
           /\ r.pc = "close" => Before(r) = IF r.stop = r.own THEN 1 ELSE 6
           /\ r.pc = "feed" => Before(r) = IF r.stop = r.own THEN 2 ELSE 7
           /\ r.pc = "process" => Before(r) = IF r.stop = r.own THEN 3 ELSE 8
           /\ r.pc = "playlist" => Before(r) = 4
           /\ r.pc = "spawn" => Before(r) = 5
           /\ r.pc = "lock" => Before(r) = 9
BY DEF Before

LEMMA ViewersAct ==
    /\ \A v \in Viewers : v \in Actors /\ v # "sweeper" /\ v # "main" /\ v # Nobody
    /\ Inactive \in ActorRecord /\ Inactive.pc = "off"
BY LiveViewAssumption, NothingType DEF Actors, Nobody

\* One actor moves; of the others at most the sweeper's record changes.
LEMMA OneGoesForward ==
    ASSUME LiveInv, NEW a \in Actors,
           \A v \in Viewers \ {a} : actor'[v] = actor[v],
           a \in Viewers => \/ actor[a].pc = "off"
                            \/ Before(actor'[a]) < Before(actor[a])
    PROVE  Forward
BY DEF Forward

LEMMA StartGoesForward ==
    ASSUME LiveInv, NEW v \in Viewers, StartStep(v)
    PROVE  Forward
<1>1. /\ v \in Actors /\ actor[v] \in ActorRecord /\ ShapeOf(v, actor[v]) /\ NoStream \notin Streams
  BY ViewersAct, Facts
<1>2. CASE OldStopped(v)
  <2> DEFINE r == [actor[v] EXCEPT !.pc = "spawn", !.stop = NoStream]
  <2>1. r \in ActorRecord /\ r.pc = "spawn"
    BY <1>1 DEF ActorRecord
  <2>2. actor' = [actor EXCEPT ![v] = r]
    BY <1>1, <1>2, Facts DEF OldStopped
  <2>3. actor[v].pc = "close" /\ actor[v].stop # actor[v].own
    BY <1>2 DEF OldStopped
  <2> HIDE DEF r
  <2>4. actor'[v] = r /\ \A w \in Viewers \ {v} : actor'[w] = actor[w]
    BY <1>1, <2>2, Facts, ViewersAct
  <2>5. Before(r) = 5 /\ Before(actor[v]) = 6
    BY <1>1, <2>1, <2>3, BeforeIs
  <2> QED BY <1>1, <2>4, <2>5, OneGoesForward
<1>3. CASE Spawn(v)
  <2> DEFINE r == [actor[v] EXCEPT !.pc = "playlist"]
  <2>1. r \in ActorRecord /\ r.pc = "playlist"
    BY <1>1 DEF ActorRecord
  <2>2. actor' = [actor EXCEPT ![v] = r] /\ actor[v].pc = "spawn"
    BY <1>1, <1>3, Facts DEF Spawn
  <2> HIDE DEF r
  <2>4. actor'[v] = r /\ \A w \in Viewers \ {v} : actor'[w] = actor[w]
    BY <1>1, <2>2, Facts, ViewersAct
  <2>5. Before(r) = 4 /\ Before(actor[v]) = 5
    BY <1>1, <2>1, <2>2, BeforeIs
  <2> QED BY <1>1, <2>4, <2>5, OneGoesForward
<1>4. CASE SpawnFails(v) \/ SpawnBreaks(v) \/ Register(v) \/ FailedStopped(v)
  <2>1. /\ actor' = [actor EXCEPT ![v] = Inactive]
        /\ actor[v].pc \in {"spawn", "playlist", "close"}
    BY <1>4 DEF SpawnFails, SpawnBreaks, Register, FailedStopped
  <2>2. actor'[v] = Inactive /\ \A w \in Viewers \ {v} : actor'[w] = actor[w]
    BY <1>1, <2>1, Facts, ViewersAct
  <2>3. Before(Inactive) = 0 /\ Before(actor[v]) \in 1..6
    BY <1>1, <2>1, ViewersAct, BeforeIs
  <2> QED BY <1>1, <2>2, <2>3, OneGoesForward
<1>5. CASE PlaylistFails(v)
  <2>1. /\ actor[v].pc = "playlist" /\ actor[v].own \in Streams
        /\ \E pc \in {"process", "feed"} :
             actor' = [actor EXCEPT ![v] = [actor[v] EXCEPT !.stop = actor[v].own, !.pc = pc]]
    BY <1>1, <1>5 DEF PlaylistFails, BeginStop, ShapeOf, ActorRecord
  <2>2. PICK pc \in {"process", "feed"} :
             actor' = [actor EXCEPT ![v] = [actor[v] EXCEPT !.stop = actor[v].own, !.pc = pc]]
    BY <2>1
  <2> DEFINE r == [actor[v] EXCEPT !.stop = actor[v].own, !.pc = pc]
  <2>3. r \in ActorRecord /\ r.pc = pc /\ r.stop = r.own
    BY <1>1 DEF ActorRecord
  <2>4. actor'[v] = r /\ \A w \in Viewers \ {v} : actor'[w] = actor[w]
    BY <1>1, <2>2, Facts, ViewersAct
  <2> HIDE DEF r
  <2>5. Before(r) \in {2, 3} /\ Before(actor[v]) = 4
    BY <1>1, <2>1, <2>3, BeforeIs
  <2> QED BY <1>1, <2>4, <2>5, OneGoesForward
<1> QED BY <1>2, <1>3, <1>4, <1>5 DEF StartStep

\* Whoever gets the lock goes on, with its start or with the old session.
LEMMA AcquirePhase ==
    ASSUME LiveInv, NEW v \in Viewers, Acquire(v)
    PROVE  /\ actor'[v] \in ActorRecord /\ actor'[v].pc \in {"spawn", "process", "feed"}
           /\ \A w \in Viewers \ {v} : actor'[w] = actor[w]
<1>1. v \in Actors /\ actor[v] \in ActorRecord /\ actor[v].pc = "lock" /\ ShapeOf(v, actor[v])
  BY ViewersAct, Facts DEF Acquire
<1> DEFINE old == byCamera[stream[actor[v].own].camera]
<1>2. CASE actor' = [Sweeping EXCEPT ![v].pc = "spawn"]
  <2> DEFINE r == [actor[v] EXCEPT !.pc = "spawn"]
  <2>1. r \in ActorRecord /\ r.pc = "spawn"
    BY <1>1 DEF ActorRecord
  <2>2. DOMAIN Sweeping = Actors /\ \A w \in Viewers : Sweeping[w] = actor[w]
    BY Facts, ViewersAct DEF Sweeping
  <2>3. actor'[v] = r /\ \A w \in Viewers \ {v} : actor'[w] = actor[w]
    BY <1>1, <1>2, <2>2, ViewersAct
  <2> QED BY <2>1, <2>3
<1>3. CASE old # NoStream /\ BeginStop(v, old, actor[v], actor, stream)
  <2>1. old \in Streams
    BY <1>1, <1>3, OwnFacts, Facts DEF ShapeOf
  <2>2. PICK pc \in {"process", "feed"} :
           actor' = [actor EXCEPT ![v] = [actor[v] EXCEPT !.stop = old, !.pc = pc]]
    BY <1>3 DEF BeginStop
  <2>3. /\ [actor[v] EXCEPT !.stop = old, !.pc = pc] \in ActorRecord
        /\ [actor[v] EXCEPT !.stop = old, !.pc = pc].pc = pc
    BY <1>1, <2>1 DEF ActorRecord
  <2> QED BY <1>1, <2>2, <2>3, Facts, ViewersAct
<1> QED BY <1>2, <1>3 DEF Acquire

LEMMA AcquireGoesForward ==
    ASSUME LiveInv, NEW v \in Viewers, Acquire(v)
    PROVE  Forward
<1>1. v \in Actors /\ actor[v] \in ActorRecord /\ actor[v].pc = "lock"
  BY ViewersAct, Facts DEF Acquire
<1>2. Before(actor[v]) = 9 /\ Before(actor'[v]) \in 2..8
  BY <1>1, AcquirePhase, BeforeIs
<1> QED BY <1>1, <1>2, AcquirePhase, OneGoesForward

\* Stops: of requests, of the sweeper, of shutdown.
LEMMA StopGoesForward ==
    ASSUME LiveInv, NEW a \in Actors,
           \/ ProcessStops(a) \/ FeedStopped(a) \/ FeedRaises(a)
           \/ a \in Viewers /\ RequestStopped(a)
           \/ a \notin Viewers /\ (NextStop(a) \/ LastStop(a))
    PROVE  Forward
<1>1. actor[a] \in ActorRecord /\ \A v \in Viewers : v \in Actors
  BY ViewersAct, Facts
<1>2. ASSUME NEW pc \in {"feed", "close"}, actor[a].pc = IF pc = "feed" THEN "process" ELSE "feed",
             actor' = [actor EXCEPT ![a].pc = pc]
      PROVE  Forward
  <2> DEFINE r == [actor[a] EXCEPT !.pc = pc]
  <2>1. r \in ActorRecord /\ r.pc = pc /\ r.own = actor[a].own /\ r.stop = actor[a].stop
    BY <1>1 DEF ActorRecord
  <2>2. actor'[a] = r /\ \A w \in Viewers \ {a} : actor'[w] = actor[w]
    BY <1>1, <1>2, Facts
  <2> HIDE DEF r
  <2>3. Before(r) < Before(actor[a])
    BY <1>1, <1>2, <2>1, BeforeIs
  <2> QED BY <2>2, <2>3, OneGoesForward
<1>3. CASE a \in Viewers /\ RequestStopped(a)
  <2>1. actor' = [actor EXCEPT ![a] = Inactive] /\ actor[a].pc = "close"
    BY <1>3 DEF RequestStopped
  <2>2. actor'[a] = Inactive /\ \A w \in Viewers \ {a} : actor'[w] = actor[w]
    BY <1>1, <2>1, Facts
  <2>3. Before(Inactive) = 0 /\ Before(actor[a]) \in 1..6
    BY <1>1, <2>1, ViewersAct, BeforeIs
  <2> QED BY <2>2, <2>3, OneGoesForward
<1>4. CASE a \notin Viewers /\ (NextStop(a) \/ LastStop(a))
  <2>1. \E r : actor' = [actor EXCEPT ![a] = r]
    BY <1>4 DEF NextStop, LastStop, BeginStop
  <2>2. \A w \in Viewers \ {a} : actor'[w] = actor[w]
    BY <1>1, <2>1, Facts
  <2> QED BY <1>4, <2>2, OneGoesForward
<1>5. CASE ProcessStops(a)
  BY <1>2, <1>5 DEF ProcessStops
<1>6. CASE FeedStopped(a)
  BY <1>2, <1>6 DEF FeedStopped
<1>7. CASE FeedRaises(a)
  <2>1. actor' = [actor EXCEPT ![a] = Cancelled(a)] /\ actor[a].pc = "feed"
    BY <1>7 DEF FeedRaises
  <2>2. \A w \in Viewers \ {a} : actor'[w] = actor[w]
    BY <1>1, <2>1, Facts
  <2>3. CASE a \in Viewers
    <3>1. actor'[a] = Inactive
      <4>1. Cancelled(a) = [Inactive EXCEPT !.pc = "off"]
        BY <2>3, ViewersAct DEF Cancelled
      <4> QED BY <1>1, <2>1, <4>1, Facts DEF Inactive
    <3>2. Before(Inactive) = 0 /\ Before(actor[a]) \in {2, 7}
      BY <1>1, <2>1, ViewersAct, BeforeIs
    <3> QED BY <2>2, <3>1, <3>2, OneGoesForward
  <2> QED BY <2>2, <2>3, OneGoesForward
<1> QED BY <1>3, <1>4, <1>5, <1>6, <1>7

\* A feed is given up: its stop goes on, and whoever awaits it too is cancelled.
LEMMA TimeOutGoesForward ==
    ASSUME LiveInv, NEW a \in Actors, FeedTimesOut(a)
    PROVE  Forward
<1> SUFFICES ASSUME NEW v \in Viewers
             PROVE  actor'[v] = actor[v] \/ Before(actor'[v]) < Before(actor[v])
  BY DEF Forward
<1>1. v \in Actors /\ actor[v] \in ActorRecord
  BY ViewersAct, Facts
<1>2. actor'[v] = IF v = a THEN [actor[a] EXCEPT !.pc = "close"]
                  ELSE IF v \in Caught(a) THEN Cancelled(v) ELSE actor[v]
  BY <1>1 DEF FeedTimesOut
<1>3. CASE v = a
  <2> DEFINE r == [actor[v] EXCEPT !.pc = "close"]
  <2>1. r \in ActorRecord /\ r.pc = "close" /\ r.own = actor[v].own /\ r.stop = actor[v].stop
    BY <1>1 DEF ActorRecord
  <2>2. actor'[v] = r /\ actor[v].pc = "feed"
    BY <1>2, <1>3 DEF FeedTimesOut
  <2> HIDE DEF r
  <2> QED BY <1>1, <2>1, <2>2, BeforeIs
<1>4. CASE v # a /\ v \in Caught(a)
  <2>1. actor[v].pc = "feed" /\ actor'[v] = [Inactive EXCEPT !.pc = "off"]
    BY <1>2, <1>4, ViewersAct DEF Caught, Cancelled
  <2>2. [Inactive EXCEPT !.pc = "off"] = Inactive
    BY DEF Inactive
  <2>3. Before(actor'[v]) = 0 /\ Before(actor[v]) \in {2, 7}
    BY <1>1, <2>1, <2>2, ViewersAct, BeforeIs
  <2> QED BY <2>3
<1> QED BY <1>2, <1>3, <1>4

\* A request begins, or an actor that is none.
LEMMA BeginsForward ==
    ASSUME LiveInv,
           \/ \E v \in Viewers : \/ \E c \in Cameras : OpenRelay(v, c)
                                 \/ \E i \in Streams : StopRequest(v, i)
           \/ Sweep \/ Shutdown
    PROVE  Forward
<1>1. actor \in [Actors -> ActorRecord] /\ {"sweeper", "main"} \subseteq Actors
  BY Facts DEF Actors
<1>2. ASSUME NEW v \in Viewers, \/ \E c \in Cameras : OpenRelay(v, c)
                                \/ \E i \in Streams : StopRequest(v, i)
      PROVE  Forward
  <2>1. actor[v].pc = "off" /\ \E r : actor' = [actor EXCEPT ![v] = r]
    BY <1>2 DEF OpenRelay, StopRequest, BeginStop
  <2> QED BY <1>1, <2>1, ViewersAct, OneGoesForward
<1>3. CASE Sweep
  <2>1. \E r : actor' = [actor EXCEPT !["sweeper"] = r]
    BY <1>3 DEF Sweep, BeginStop
  <2> QED BY <1>1, <2>1, ViewersAct, OneGoesForward
<1>4. CASE Shutdown
  <2>1. /\ \E q : \/ actor' = [actor EXCEPT !["sweeper"] = q]
                  \/ \E r : actor' = [[actor EXCEPT !["sweeper"] = q] EXCEPT !["main"] = r]
    BY <1>4 DEF Shutdown, BeginStop
  <2> QED BY <1>1, <2>1, ViewersAct DEF Forward
<1> QED BY <1>2, <1>3, <1>4

LEMMA NextForward ==
    ASSUME LiveInv, [LiveNext]_liveVars
    PROVE  Forward
<1>1. CASE \E i \in Streams : Access(i) \/ GrowIdle(i) \/ ProcessExits(i) \/ FeedEnds(i)
  <2>1. actor' = actor
    BY <1>1 DEF Access, GrowIdle, ProcessExits, FeedEnds
  <2> QED BY <2>1 DEF Forward
<1>2. CASE UNCHANGED liveVars
  BY <1>2 DEF Forward, liveVars
<1>3. CASE \E a \in Actors : StopStep(a)
  BY <1>3, StopGoesForward, TimeOutGoesForward DEF StopStep
<1> QED BY <1>1, <1>2, <1>3, StartGoesForward, AcquireGoesForward, BeginsForward DEF LiveNext

\* Every start and stop of a session goes forward or is cancelled, whatever
\* other requests, the sweeper and shutdown do: the safety half of RequestsEnd
\* (start_session, _stop).
THEOREM NoRequestGoesBack == LiveSpec => RequestsGoForward
<1>1. LiveInv /\ [LiveNext]_liveVars => [Forward]_liveVars
  BY NextForward
<1> QED BY <1>1, SessionsAgree, PTL DEF LiveSpec, RequestsGoForward, Forward

-----------------------------------------------------------------------------
(* The lock.                                                               *)

LEMMA LockStep ==
    ASSUME LiveInv, [LiveNext]_liveVars
    PROVE  lock' \in {lock, Nobody} \/ \E v \in Viewers : Acquire(v) /\ lock' = v
BY DEF LiveNext, StartStep, StopStep, liveVars, OpenRelay, Acquire, StopRequest, Access, GrowIdle,
       ProcessExits, FeedEnds, Sweep, Shutdown, OldStopped, Spawn, SpawnFails, SpawnBreaks, Register,
       PlaylistFails, FailedStopped, ProcessStops, FeedStopped, FeedTimesOut, FeedRaises,
       RequestStopped, NextStop, LastStop

LEMMA LockGoesOnNext ==
    ASSUME LiveInv, LiveInv', LockGoesOn, [LiveNext]_liveVars
    PROVE  LockGoesOn'
<1> SUFFICES ASSUME lock' # Nobody PROVE actor'[lock'].own # NoStream /\ actor'[lock'].pc # "lock"
  BY DEF LockGoesOn
<1>1. actor'[lock'].own # NoStream
  BY DEF LiveInv, ActorShape
<1>2. Forward
  BY NextForward
<1>3. \A v \in Viewers : /\ v \in Actors /\ actor[v] \in ActorRecord /\ ShapeOf(v, actor[v])
                         /\ actor'[v] \in ActorRecord
  BY ViewersAct, Facts DEF LiveInv, LiveTypeOK, ActorRecord
<1>4. \A v \in Viewers : actor[v].pc # "off" /\ actor'[v].pc = "lock" => actor'[v] = actor[v]
  <2> SUFFICES ASSUME NEW v \in Viewers, actor[v].pc # "off", actor'[v].pc = "lock"
               PROVE  actor'[v] = actor[v]
    OBVIOUS
  <2>1. Before(actor'[v]) = 9
    BY <1>3, BeforeIs
  <2>2. Before(actor[v]) \in 0..9
    BY <1>3 DEF Before, ActorRecord
  <2> QED BY <1>2, <2>1, <2>2 DEF Forward
<1>5. CASE lock' = lock
  <2>1. lock \in Viewers /\ actor[lock].own # NoStream /\ actor[lock].pc # "lock"
    BY <1>5, Facts DEF LockGoesOn
  <2>2. actor[lock].pc # "off"
    BY <1>3, <2>1 DEF ShapeOf
  <2> QED BY <1>1, <1>4, <1>5, <2>1, <2>2
<1>6. ASSUME NEW v \in Viewers, Acquire(v), lock' = v PROVE actor'[v].pc # "lock"
  BY <1>6, AcquirePhase
<1> QED BY <1>1, <1>5, <1>6, LockStep

\* Whoever waits for the lock of live_stream.py waits for a start that has got
\* beyond it: each way out of start_session gives it back, also when its await of
\* the old session's feed is cancelled by another stop.
THEOREM TheLockIsGivenBack == LiveSpec => []LockGoesOn
<1>1. LiveInit => LockGoesOn
  BY DEF LiveInit, LockGoesOn
<1> QED BY <1>1, LockGoesOnNext, NextLiveInv, InitLiveInv, PTL DEF LiveSpec
===============================================================================
