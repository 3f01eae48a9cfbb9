----------------------------- MODULE Cameras_proofs -----------------------------
(***************************************************************************)
(* Theorems about what is kept of a camera: its battery level, its switch, *)
(* its preview image and its protected vehicle; for any number of cameras, *)
(* of syncs and requests at a time, and of folders.                        *)
(***************************************************************************)
EXTENDS CameraBattery, CameraSwitches, CameraPreview, VehicleProximity,
        FiniteSetTheorems, WellFoundedInduction, TLAPS

-----------------------------------------------------------------------------
(* Batteries                                                               *)

SyncSlots ==
    [pc : {"off", "fetched", "compare", "alerts"}, levels : [Cams -> Levels],
     previous : [Cams -> Levels], due : SUBSET Cams]

\* The slots that owe an alert on a camera.
Owing(c) == {s \in Syncs : c \in sync[s].due}

LEMMA NoSyncIsASlot ==
    NoSync \in SyncSlots /\ NoSync.pc = "off" /\ NoSync.due = {}
BY CameraBatteryAssumption DEF NoSync, SyncSlots

\* One slot more or less that owes an alert is one alert more or less.
LEMMA OwingCounts ==
    ASSUME NEW c \in Cams, NEW s \in Syncs, NEW n \in {0, 1}, NEW m \in {0, 1},
           c \in sync[s].due <=> n = 1, c \in sync'[s].due <=> m = 1,
           \A t \in Syncs \ {s} : sync'[t] = sync[t]
    PROVE  Cardinality(Owing(c))' = Cardinality(Owing(c)) - n + m
<1>1. IsFiniteSet(Syncs) /\ Owing(c) \subseteq Syncs
  BY CameraBatteryAssumption DEF Owing
<1>2. IsFiniteSet(Owing(c)) /\ Cardinality(Owing(c)) \in Nat
  BY <1>1, FS_Subset, FS_CardinalityType
<1>3. CASE n = m
  <2>1. Owing(c)' = Owing(c)
    BY <1>3 DEF Owing
  <2> QED BY <1>2, <1>3, <2>1
<1>4. CASE n = 0 /\ m = 1
  <2>1. Owing(c)' = Owing(c) \cup {s} /\ s \notin Owing(c)
    BY <1>4 DEF Owing
  <2>2. Cardinality(Owing(c) \cup {s}) = Cardinality(Owing(c)) + 1
    BY <1>2, <2>1, FS_AddElement
  <2> QED BY <1>2, <1>4, <2>1, <2>2
<1>5. CASE n = 1 /\ m = 0
  <2>1. Owing(c)' = Owing(c) \ {s} /\ s \in Owing(c)
    BY <1>5 DEF Owing
  <2>2. Cardinality(Owing(c) \ {s}) = Cardinality(Owing(c)) - 1
    BY <1>2, <2>1, FS_RemoveElement
  <2> QED BY <1>2, <1>5, <2>1, <2>2
<1> QED BY <1>3, <1>4, <1>5

LEMMA BatteryBegins == BatteryInit => BatteryIInv
<1> SUFFICES ASSUME BatteryInit PROVE BatteryIInv
  OBVIOUS
<1>1. /\ level \in [Cams -> Levels] /\ battery \in [Cams -> Levels] /\ recorded = battery
      /\ sync \in [Syncs -> SyncSlots]
      /\ \A s \in Syncs : sync[s] = NoSync
  BY CameraBatteryAssumption, NoSyncIsASlot DEF BatteryInit
<1>2. /\ owed \in [Cams -> Int] /\ \A c \in Cams : owed[c] = 0
      /\ trouble \in [Cams -> SUBSET {"overlap", "cut_off"}]
  <2>1. owed = [c \in Cams |-> 0] /\ trouble = [c \in Cams |-> {}]
    BY DEF BatteryInit
  <2> QED BY <2>1
<1>3. BatteryTypeOK
  BY <1>1, <1>2 DEF BatteryTypeOK, SyncSlots
<1>4. BatteryHistory /\ FrozenWhileTroubled /\ DueAfterCommit
  BY <1>1, <1>2, NoSyncIsASlot DEF BatteryHistory, FrozenWhileTroubled, DueAfterCommit
<1>5. LowAlerted
  <2> SUFFICES ASSUME NEW c \in Cams PROVE Cardinality({s \in Syncs : c \in sync[s].due}) = 0
    BY <1>2 DEF LowAlerted
  <2>1. {s \in Syncs : c \in sync[s].due} = {}
    BY <1>1, NoSyncIsASlot
  <2> QED BY <2>1, FS_EmptySet
<1> QED BY <1>3, <1>4, <1>5 DEF BatteryIInv, BatteryInv

\* Steps that neither write rows nor owe or queue alerts.
LEMMA BatteryLooks ==
    ASSUME BatteryIInv, NEW s \in Syncs, FetchLevels(s) \/ ReadPrevious(s)
    PROVE  BatteryIInv'
<1> USE DEF BatteryIInv, BatteryInv
<1>1. UNCHANGED <<level, battery, recorded, owed, trouble>>
  BY DEF FetchLevels, ReadPrevious
<1>2. PICK r : /\ r \in SyncSlots /\ r.due = {} /\ sync[s].due = {}
               /\ sync' = [sync EXCEPT ![s] = r]
  <2>1. CASE FetchLevels(s)
    <3>1. PICK r : r = [NoSync EXCEPT !.pc = "fetched", !.levels = level]
      OBVIOUS
    <3>2. r \in SyncSlots /\ r.due = {}
      BY <3>1, NoSyncIsASlot DEF SyncSlots, BatteryTypeOK
    <3>3. sync[s].due = {}
      BY <2>1 DEF FetchLevels, DueAfterCommit
    <3> QED BY <2>1, <3>1, <3>2, <3>3 DEF FetchLevels
  <2>2. CASE ReadPrevious(s)
    <3>1. PICK r : r = [sync[s] EXCEPT !.pc = "compare", !.previous = battery]
      OBVIOUS
    <3>2. sync[s].pc = "fetched" /\ sync[s].due = {}
      BY <2>2 DEF ReadPrevious, DueAfterCommit
    <3>3. r \in SyncSlots /\ r.due = {}
      BY <3>1, <3>2 DEF SyncSlots, BatteryTypeOK
    <3>4. sync' = [sync EXCEPT ![s] = r]
      BY <2>2, <3>1 DEF ReadPrevious
    <3> QED BY <3>2, <3>3, <3>4
  <2> QED BY <2>1, <2>2
<1>3. sync' \in [Syncs -> SyncSlots] /\ \A t \in Syncs : sync'[t] = IF t = s THEN r ELSE sync[t]
  BY <1>2 DEF BatteryTypeOK, SyncSlots
<1>4. BatteryTypeOK'
  BY <1>1, <1>3 DEF BatteryTypeOK, SyncSlots
<1>5. BatteryHistory'
  BY <1>1 DEF BatteryHistory
<1>6. LowAlerted'
  <2> SUFFICES ASSUME NEW c \in Cams, trouble'[c] = {}
               PROVE  owed'[c] = Cardinality({t \in Syncs : c \in sync'[t].due})
    BY DEF LowAlerted
  <2>1. {t \in Syncs : c \in sync'[t].due} = {t \in Syncs : c \in sync[t].due}
    BY <1>2, <1>3
  <2> QED BY <1>1, <2>1 DEF LowAlerted
<1>7. FrozenWhileTroubled' /\ DueAfterCommit'
  BY <1>1, <1>2, <1>3 DEF FrozenWhileTroubled, DueAfterCommit
<1> QED BY <1>4, <1>5, <1>6, <1>7

\* The transaction: for a camera that nobody has overtaken, it compares with the
\* row that it replaces.
LEMMA BatteryCommits ==
    ASSUME BatteryIInv, NEW s \in Syncs, CommitLevels(s)
    PROVE  BatteryIInv'
<1> USE DEF BatteryIInv, BatteryInv
<1>1. /\ sync[s].pc = "compare" /\ sync[s].due = {} /\ sync[s] \in SyncSlots
      /\ battery' = sync[s].levels /\ UNCHANGED level
      /\ recorded' = [c \in Cams |-> IF c \in Changed(s) THEN sync[s].levels[c] ELSE recorded[c]]
      /\ trouble' = [c \in Cams |-> IF c \in Overtaken(s) THEN trouble[c] \cup {"overlap"}
                                    ELSE IF c \in Settled(s) THEN {} ELSE trouble[c]]
  BY DEF CommitLevels, DueAfterCommit, BatteryTypeOK, SyncSlots
<1>2. PICK on \in BOOLEAN :
        /\ sync' = [sync EXCEPT ![s] = [NoSync EXCEPT !.pc = "alerts", !.due = IF on THEN NewlyLow(s) ELSE {}]]
        /\ owed' = [c \in Cams |-> IF trouble'[c] # {} THEN 0
                       ELSE owed[c] + IF on /\ battery[c] # "low" /\ battery'[c] = "low" THEN 1 ELSE 0]
  BY DEF CommitLevels
<1>3. PICK r : r = [NoSync EXCEPT !.pc = "alerts", !.due = IF on THEN NewlyLow(s) ELSE {}]
  OBVIOUS
<1>4. r \in SyncSlots /\ r.pc = "alerts" /\ r.due = IF on THEN NewlyLow(s) ELSE {}
  <2>1. NewlyLow(s) \subseteq Cams
    BY DEF NewlyLow, Changed
  <2>2. PICK due \in SUBSET Cams : due = IF on THEN NewlyLow(s) ELSE {}
    BY <2>1
  <2>3. r = [NoSync EXCEPT !.pc = "alerts", !.due = due]
    BY <1>3, <2>2
  <2> QED BY <2>2, <2>3, NoSyncIsASlot DEF SyncSlots
<1>5. sync' \in [Syncs -> SyncSlots] /\ \A t \in Syncs : sync'[t] = IF t = s THEN r ELSE sync[t]
  BY <1>2, <1>3, <1>4 DEF BatteryTypeOK, SyncSlots
<1>6. BatteryTypeOK'
  <2>1. battery' \in [Cams -> Levels] /\ recorded' \in [Cams -> Levels]
    BY <1>1 DEF BatteryTypeOK, SyncSlots
  <2>2. trouble' \in [Cams -> SUBSET {"overlap", "cut_off"}]
    BY <1>1 DEF BatteryTypeOK
  <2>3. owed' \in [Cams -> Int]
    BY <1>2 DEF BatteryTypeOK
  <2> QED BY <1>1, <1>5, <2>1, <2>2, <2>3 DEF BatteryTypeOK, SyncSlots
<1>7. \A c \in Cams \ Overtaken(s) : sync[s].previous[c] = battery[c]
  BY DEF Overtaken
<1>8. \A c \in Cams : /\ c \in Overtaken(s) => "overlap" \in trouble'[c]
                      /\ trouble'[c] = {} => c \in Settled(s) \/ trouble[c] = {}
                      /\ "overlap" \notin trouble'[c] => c \in Settled(s) \/ "overlap" \notin trouble[c]
  BY <1>1
<1>9. BatteryHistory'
  <2> SUFFICES ASSUME NEW c \in Cams, "overlap" \notin trouble'[c] PROVE recorded'[c] = battery'[c]
    BY DEF BatteryHistory
  <2>1. c \notin Overtaken(s)
    BY <1>8
  <2>2. CASE c \in Changed(s)
    BY <1>1, <2>2
  <2>3. CASE c \notin Changed(s)
    BY <1>1, <1>7, <1>8, <2>1, <2>3 DEF Changed, Settled, BatteryHistory
  <2> QED BY <2>2, <2>3
<1>10. LowAlerted'
  <2> SUFFICES ASSUME NEW c \in Cams, trouble'[c] = {} PROVE owed'[c] = Cardinality(Owing(c))'
    BY DEF LowAlerted, Owing
  <2>1. c \notin Overtaken(s) /\ sync[s].previous[c] = battery[c]
    BY <1>7, <1>8
  <2>2. owed[c] = Cardinality(Owing(c)) /\ owed[c] \in Int
    <3>1. CASE trouble[c] = {}
      BY <3>1 DEF LowAlerted, Owing, BatteryTypeOK
    <3>2. CASE trouble[c] # {}
      <4>1. Owing(c) = {} /\ owed[c] = 0
        BY <1>8, <3>2 DEF Settled, Owing, FrozenWhileTroubled
      <4> QED BY <4>1, FS_EmptySet
    <3> QED BY <3>1, <3>2
  <2>3. PICK m \in {0, 1} : m = IF on /\ battery[c] # "low" /\ battery'[c] = "low" THEN 1 ELSE 0
    OBVIOUS
  <2>4. owed'[c] = owed[c] + m
    BY <1>2, <2>3
  <2>5. c \in sync'[s].due <=> m = 1
    BY <1>1, <1>4, <1>5, <2>1, <2>3 DEF NewlyLow, Changed
  <2>6. Cardinality(Owing(c))' = Cardinality(Owing(c)) - 0 + m
    BY <1>1, <1>5, <2>5, OwingCounts
  <2> QED BY <2>2, <2>4, <2>6
<1>11. FrozenWhileTroubled'
  BY <1>2 DEF FrozenWhileTroubled
<1>12. DueAfterCommit'
  BY <1>4, <1>5 DEF DueAfterCommit
<1> QED BY <1>6, <1>9, <1>10, <1>11, <1>12

\* An alert that is queued is owed no more; one of a sync that ends is neither.
LEMMA BatteryTells ==
    ASSUME BatteryIInv, NEW s \in Syncs, SyncEnds(s) \/ \E c \in Cams : QueueAlert(s, c)
    PROVE  BatteryIInv'
<1> USE DEF BatteryIInv, BatteryInv
<1>1. UNCHANGED <<level, battery, recorded>>
  BY DEF SyncEnds, QueueAlert
<1> DEFINE Tells(r, told) ==
        /\ sync' = [sync EXCEPT ![s] = r] /\ r.due = sync[s].due \ told
        /\ (r.pc = "off" /\ r.due = {}) \/ r.pc = "alerts"
        /\ owed' \in [Cams -> Int] /\ trouble' \in [Cams -> SUBSET {"overlap", "cut_off"}]
        /\ \A c \in Cams :
             /\ "overlap" \in trouble'[c] <=> "overlap" \in trouble[c]
             /\ trouble[c] # {} => trouble'[c] # {}
             /\ trouble'[c] # {} => owed'[c] = 0
             /\ trouble'[c] = {} => owed'[c] = owed[c] - IF c \in told THEN 1 ELSE 0
<1>2. PICK r \in SyncSlots, told \in SUBSET sync[s].due : Tells(r, told)
  <2>1. CASE SyncEnds(s)
    <3>1. /\ owed' = [c \in Cams |-> IF c \in sync[s].due THEN 0 ELSE owed[c]]
          /\ trouble' = [c \in Cams |-> IF c \in sync[s].due THEN trouble[c] \cup {"cut_off"} ELSE trouble[c]]
          /\ sync' = [sync EXCEPT ![s] = NoSync]
      BY <2>1 DEF SyncEnds
    <3>2. /\ owed' \in [Cams -> Int] /\ trouble' \in [Cams -> SUBSET {"overlap", "cut_off"}]
          /\ \A c \in Cams :
               /\ "overlap" \in trouble'[c] <=> "overlap" \in trouble[c]
               /\ trouble[c] # {} => trouble'[c] # {}
               /\ trouble'[c] # {} => owed'[c] = 0
               /\ trouble'[c] = {} => owed'[c] = owed[c] - IF c \in sync[s].due THEN 1 ELSE 0
      <4>1. owed' \in [Cams -> Int] /\ trouble' \in [Cams -> SUBSET {"overlap", "cut_off"}]
        BY <3>1 DEF BatteryTypeOK
      <4>2. ASSUME NEW c \in Cams, c \in sync[s].due
            PROVE  trouble'[c] = trouble[c] \cup {"cut_off"} /\ owed'[c] = 0
        BY <3>1, <4>2
      <4>3. ASSUME NEW c \in Cams, c \notin sync[s].due
            PROVE  trouble'[c] = trouble[c] /\ owed'[c] = owed[c] /\ owed[c] \in Int
        BY <3>1, <4>3 DEF BatteryTypeOK
      <4> QED BY <4>1, <4>2, <4>3 DEF FrozenWhileTroubled
    <3>3. NoSync.due = sync[s].due \ sync[s].due
      BY NoSyncIsASlot
    <3>4. PICK told \in SUBSET sync[s].due : told = sync[s].due
      OBVIOUS
    <3>5. PICK r \in SyncSlots : r = NoSync
      BY NoSyncIsASlot
    <3>6. Tells(r, told)
      BY <3>1, <3>2, <3>3, <3>4, <3>5, NoSyncIsASlot
    <3> QED BY <3>6
  <2>2. ASSUME NEW c \in Cams, QueueAlert(s, c) PROVE \E r \in SyncSlots, told \in SUBSET sync[s].due : Tells(r, told)
    <3>1. PICK r : r = [sync[s] EXCEPT !.due = @ \ {c}]
      OBVIOUS
    <3>2. /\ sync[s].pc = "alerts" /\ c \in sync[s].due /\ sync' = [sync EXCEPT ![s] = r]
          /\ owed' = [owed EXCEPT ![c] = IF trouble[c] # {} THEN 0 ELSE @ - 1] /\ trouble' = trouble
      BY <2>2, <3>1 DEF QueueAlert
    <3>3. r \in SyncSlots /\ r.due = sync[s].due \ {c} /\ r.pc = "alerts"
      BY <3>1, <3>2 DEF BatteryTypeOK, SyncSlots
    <3>4. /\ owed' \in [Cams -> Int]
          /\ \A d \in Cams :
               /\ trouble'[d] # {} => owed'[d] = 0
               /\ trouble'[d] = {} => owed'[d] = owed[d] - IF d \in {c} THEN 1 ELSE 0
      BY <3>2 DEF BatteryTypeOK, FrozenWhileTroubled
    <3>5. {c} \in SUBSET sync[s].due /\ trouble' \in [Cams -> SUBSET {"overlap", "cut_off"}]
      BY <3>2 DEF BatteryTypeOK
    <3>6. PICK told \in SUBSET sync[s].due : told = {c}
      BY <3>5
    <3>7. Tells(r, told)
      BY <3>2, <3>3, <3>4, <3>5, <3>6
    <3> QED BY <3>3, <3>7
  <2> QED BY <2>1, <2>2
<1>3. sync' \in [Syncs -> SyncSlots] /\ \A t \in Syncs : sync'[t] = IF t = s THEN r ELSE sync[t]
  BY <1>2 DEF BatteryTypeOK, SyncSlots
<1>4. BatteryTypeOK'
  BY <1>1, <1>2, <1>3 DEF BatteryTypeOK, SyncSlots
<1>5. BatteryHistory'
  BY <1>1, <1>2 DEF BatteryHistory
<1>6. LowAlerted'
  <2> SUFFICES ASSUME NEW c \in Cams, trouble'[c] = {} PROVE owed'[c] = Cardinality(Owing(c))'
    BY DEF LowAlerted, Owing
  <2>1. owed[c] = Cardinality(Owing(c)) /\ owed[c] \in Int
    BY <1>2 DEF LowAlerted, Owing, BatteryTypeOK
  <2>2. PICK n \in {0, 1} : c \in sync[s].due <=> n = 1
    OBVIOUS
  <2>3. PICK m \in {0, 1} : c \in sync'[s].due <=> m = 1
    OBVIOUS
  <2>4. Cardinality(Owing(c))' = Cardinality(Owing(c)) - n + m
    BY <1>3, <2>2, <2>3, OwingCounts
  <2>5. owed'[c] = owed[c] - n + m
    BY <1>2, <1>3, <2>1, <2>2, <2>3
  <2> QED BY <2>1, <2>4, <2>5
<1>7. FrozenWhileTroubled' /\ DueAfterCommit'
  BY <1>2, <1>3 DEF FrozenWhileTroubled, DueAfterCommit
<1> QED BY <1>4, <1>5, <1>6, <1>7

\* The batteries themselves, which nothing else in the state speaks of.
LEMMA BatteryDrains ==
    ASSUME BatteryIInv, (\E c \in Cams, l \in Levels : LevelChanges(c, l)) \/ UNCHANGED batteryVars
    PROVE  BatteryIInv'
<1>1. UNCHANGED <<battery, recorded, owed, trouble, sync>> /\ level' \in [Cams -> Levels]
  BY DEF LevelChanges, batteryVars, BatteryIInv, BatteryInv, BatteryTypeOK
<1> QED BY <1>1 DEF BatteryIInv, BatteryInv, BatteryTypeOK, BatteryHistory, LowAlerted, FrozenWhileTroubled,
                   DueAfterCommit

\* Battery history and alerts follow the rows, for any number of cameras,
\* levels and slots (blink_sync.py).
THEOREM BatteriesAreToldOf == BatterySpec => []BatteryInv
<1>1. BatteryInit => BatteryIInv
  BY BatteryBegins
<1>2. BatteryIInv /\ [BatteryNext]_batteryVars => BatteryIInv'
  BY BatteryLooks, BatteryCommits, BatteryTells, BatteryDrains DEF BatteryNext
<1>3. BatteryIInv => BatteryInv
  BY DEF BatteryIInv
<1> QED BY <1>1, <1>2, <1>3, PTL DEF BatterySpec

-----------------------------------------------------------------------------
(* Arming and motion detection                                             *)

FetchSlots ==
    [pc : {"off", "fetched"}, alone : BOOLEAN,
     switches : [Switches -> BOOLEAN] \cup [MotionCams -> BOOLEAN] \cup [{} -> BOOLEAN]]

AdminSlots ==
    [pc : {"off", "blink"}, todo : SUBSET Switches, done : SUBSET Switches,
     value : BOOLEAN, bulk : BOOLEAN, loaded : SUBSET Switches]

LEMMA NoSwitchIsUnderWay ==
    /\ NoFetch \in FetchSlots /\ NoFetch.pc = "off" /\ ~NoFetch.alone
    /\ NoAdmin \in AdminSlots /\ NoAdmin.pc = "off" /\ NoAdmin.todo = {} /\ NoAdmin.done = {}
<1>1. NoFetch \in FetchSlots
  BY DEF NoFetch, FetchSlots
<1> QED BY <1>1 DEF NoFetch, NoAdmin, AdminSlots

\* Whoever begins disturbs a sync that had all to itself.
LEMMA NobodyAlone ==
    ASSUME SwitchTypeOK
    PROVE  /\ Disturbed \in [SwitchSyncs -> FetchSlots]
           /\ \A s \in SwitchSyncs : /\ Disturbed[s].pc = fetch[s].pc /\ ~Disturbed[s].alone
                                     /\ Disturbed[s].switches = fetch[s].switches
<1> SUFFICES ASSUME NEW s \in SwitchSyncs
             PROVE  /\ [fetch[s] EXCEPT !.alone = FALSE] \in FetchSlots
                    /\ [fetch[s] EXCEPT !.alone = FALSE].pc = fetch[s].pc
                    /\ ~[fetch[s] EXCEPT !.alone = FALSE].alone
                    /\ [fetch[s] EXCEPT !.alone = FALSE].switches = fetch[s].switches
  BY DEF Disturbed
<1>1. fetch[s] \in FetchSlots
  BY DEF SwitchTypeOK, FetchSlots
<1> QED BY <1>1 DEF FetchSlots

LEMMA SwitchBegins == SwitchInit => SwitchIInv
<1> SUFFICES ASSUME SwitchInit PROVE SwitchIInv
  OBVIOUS
<1>1. real = [w \in Switches |-> FALSE] /\ shown = real /\ mishaps = {}
        /\ fetch = [s \in SwitchSyncs |-> NoFetch] /\ admin = [a \in Admins |-> NoAdmin]
  BY DEF SwitchInit
<1>2. SwitchTypeOK
  <2>1. real \in [Switches -> BOOLEAN] /\ shown \in [Switches -> BOOLEAN]
    BY <1>1
  <2>2. fetch \in [SwitchSyncs -> FetchSlots] /\ admin \in [Admins -> AdminSlots]
    BY <1>1, NoSwitchIsUnderWay
  <2> QED BY <1>1, <2>1, <2>2 DEF SwitchTypeOK, FetchSlots, AdminSlots
<1>3. Fetched = {} /\ Working = {}
  BY <1>1, NoSwitchIsUnderWay DEF Fetched, Working
<1>4. AloneIsReal /\ SingleIsToDo
  BY <1>1, NoSwitchIsUnderWay DEF AloneIsReal, SingleIsToDo
<1>5. OneAtATime
  BY <1>1, <1>3 DEF OneAtATime
<1> QED BY <1>2, <1>4, <1>5 DEF SwitchIInv

\* Blink's own app: from then on nothing is claimed until a sync has all to
\* itself.
LEMMA SwitchedElsewhere ==
    ASSUME SwitchIInv, NEW w \in Switches, UsedElsewhere(w)
    PROVE  SwitchIInv'
<1> USE DEF SwitchIInv
<1>1. /\ real' = [real EXCEPT ![w] = ~@] /\ fetch' = Disturbed
      /\ mishaps' = mishaps \cup {"elsewhere"} /\ UNCHANGED <<shown, admin>>
  BY DEF UsedElsewhere
<1>2. SwitchTypeOK'
  <2>1. real' \in [Switches -> BOOLEAN]
    BY <1>1 DEF SwitchTypeOK
  <2>2. fetch' \in [SwitchSyncs -> FetchSlots]
    BY <1>1, NobodyAlone
  <2> QED BY <1>1, <2>1, <2>2 DEF SwitchTypeOK, FetchSlots
<1>3. AloneIsReal'
  BY <1>1, NobodyAlone DEF AloneIsReal
<1>4. OneAtATime' /\ SingleIsToDo'
  BY <1>1 DEF OneAtATime, SingleIsToDo
<1> QED BY <1>2, <1>3, <1>4

\* get_cameras, get_sync_modules
LEMMA SwitchesFetched ==
    ASSUME SwitchIInv, NEW s \in SwitchSyncs, FetchSwitches(s)
    PROVE  SwitchIInv'
<1> USE DEF SwitchIInv
<1>1. PICK modules \in BOOLEAN :
        fetch' = [Disturbed EXCEPT ![s] =
           [pc |-> "fetched", alone |-> modules /\ Fetched = {} /\ Working = {},
            switches |-> [w \in IF modules THEN Switches ELSE MotionCams |-> real[w]]]]
  BY DEF FetchSwitches
<1>2. PICK alone \in BOOLEAN : alone = (modules /\ Fetched = {} /\ Working = {})
  OBVIOUS
<1>3. PICK switches : switches = [w \in IF modules THEN Switches ELSE MotionCams |-> real[w]]
  OBVIOUS
<1>4. PICK r : r = [pc |-> "fetched", alone |-> alone, switches |-> switches]
  OBVIOUS
<1>5. fetch' = [Disturbed EXCEPT ![s] = r]
  BY <1>1, <1>2, <1>3, <1>4
<1>6. switches \in [Switches -> BOOLEAN] \cup [MotionCams -> BOOLEAN]
        /\ \A w \in DOMAIN switches : switches[w] = real[w]
  <2>1. CASE modules
    BY <1>3, <2>1 DEF SwitchTypeOK
  <2>2. CASE ~modules
    BY <1>3, <2>2 DEF SwitchTypeOK, Switches
  <2> QED BY <2>1, <2>2
<1>7. r \in FetchSlots /\ r.pc = "fetched" /\ r.alone = alone /\ r.switches = switches
  BY <1>4, <1>6 DEF FetchSlots
<1>8. fetch' \in [SwitchSyncs -> FetchSlots]
        /\ \A t \in SwitchSyncs : fetch'[t] = IF t = s THEN r ELSE Disturbed[t]
  BY <1>5, <1>7, NobodyAlone
<1>9. /\ UNCHANGED <<real, shown, admin>> /\ fetch[s].pc = "off"
      /\ mishaps' = IF Fetched = {} /\ Working = {} THEN mishaps ELSE mishaps \cup {"raced"}
  BY DEF FetchSwitches, Raced
<1>10. SwitchTypeOK'
  BY <1>8, <1>9 DEF SwitchTypeOK, FetchSlots
<1>11. Working' = Working /\ Fetched' = Fetched \cup {s}
  BY <1>7, <1>8, <1>9, NobodyAlone DEF Working, Fetched
<1>12. AloneIsReal'
  <2> SUFFICES ASSUME NEW t \in SwitchSyncs, fetch'[t].alone
               PROVE  Fetched' = {t} /\ Working' = {} /\ fetch'[t].switches = real'
    BY DEF AloneIsReal
  <2>1. t = s
    BY <1>8, NobodyAlone
  <2>2. alone
    BY <1>7, <1>8, <2>1
  <2>3. Fetched = {} /\ Working = {} /\ switches = [w \in Switches |-> real[w]]
    BY <1>2, <1>3, <2>2
  <2>4. switches = real
    BY <2>3 DEF SwitchTypeOK
  <2> QED BY <1>7, <1>8, <1>9, <1>11, <2>1, <2>3, <2>4
<1>13. OneAtATime'
  <2> SUFFICES ASSUME mishaps' = {} PROVE OneAtATime'
    BY DEF OneAtATime
  <2>1. mishaps = {} /\ Fetched = {} /\ Working = {}
    BY <1>9
  <2>2. Fetched' = {s} /\ Working' = {} /\ shown' = real'
    BY <1>9, <1>11, <2>1 DEF OneAtATime
  <2>3. \A w \in DOMAIN fetch'[s].switches : fetch'[s].switches[w] = real'[w]
    BY <1>6, <1>7, <1>8, <1>9
  <2> QED BY <2>2, <2>3 DEF OneAtATime
<1>14. SingleIsToDo'
  BY <1>9 DEF SingleIsToDo
<1> QED BY <1>10, <1>12, <1>13, <1>14

\* The rows are written with what was fetched: as it still is, if the sync had
\* all to itself.
LEMMA SwitchesCommitted ==
    ASSUME SwitchIInv, NEW s \in SwitchSyncs, CommitSwitches(s) \/ FetchLost(s)
    PROVE  SwitchIInv'
<1> USE DEF SwitchIInv
<1>1. fetch[s].pc = "fetched" /\ fetch' = [fetch EXCEPT ![s] = NoFetch] /\ UNCHANGED <<real, admin>>
  BY DEF CommitSwitches, FetchLost
<1>2. fetch' \in [SwitchSyncs -> FetchSlots]
        /\ \A t \in SwitchSyncs : fetch'[t] = IF t = s THEN NoFetch ELSE fetch[t]
  BY <1>1, NoSwitchIsUnderWay DEF SwitchTypeOK, FetchSlots
<1>3. Fetched' = Fetched \ {s} /\ Working' = Working /\ s \in Fetched
  BY <1>1, <1>2, NoSwitchIsUnderWay DEF Fetched, Working
<1>4. fetch[s] \in FetchSlots
  BY DEF SwitchTypeOK, FetchSlots
<1>5. /\ shown' \in [Switches -> BOOLEAN]
      /\ \/ shown' = shown /\ mishaps' = mishaps
         \/ /\ \A w \in Switches :
                 shown'[w] = IF w \in DOMAIN fetch[s].switches THEN fetch[s].switches[w] ELSE shown[w]
            /\ mishaps' = IF fetch[s].alone THEN {} ELSE mishaps
  <2>1. CASE FetchLost(s)
    BY <2>1 DEF FetchLost, SwitchTypeOK
  <2>2. CASE CommitSwitches(s)
    <3>1. shown' = [w \in Switches |-> IF w \in DOMAIN fetch[s].switches THEN fetch[s].switches[w] ELSE shown[w]]
            /\ mishaps' = IF fetch[s].alone THEN {} ELSE mishaps
      BY <2>2 DEF CommitSwitches
    <3>2. \A w \in DOMAIN fetch[s].switches : fetch[s].switches[w] \in BOOLEAN
      BY <1>4 DEF FetchSlots
    <3>3. shown' \in [Switches -> BOOLEAN]
      BY <3>1, <3>2 DEF SwitchTypeOK
    <3>4. \A w \in Switches :
            shown'[w] = IF w \in DOMAIN fetch[s].switches THEN fetch[s].switches[w] ELSE shown[w]
      BY <3>1
    <3> QED BY <3>1, <3>3, <3>4
  <2> QED BY <2>1, <2>2
<1>6. SwitchTypeOK'
  BY <1>1, <1>2, <1>5 DEF SwitchTypeOK, FetchSlots
<1>7. AloneIsReal'
  <2> SUFFICES ASSUME NEW t \in SwitchSyncs, fetch'[t].alone PROVE FALSE
    BY DEF AloneIsReal
  <2>1. t # s /\ fetch[t].alone
    BY <1>2, NoSwitchIsUnderWay
  <2> QED BY <1>3, <2>1 DEF AloneIsReal
<1>8. OneAtATime'
  <2> SUFFICES ASSUME mishaps' = {} PROVE OneAtATime'
    BY DEF OneAtATime
  <2>1. Fetched' = {} /\ Working' = {} /\ (mishaps = {} \/ fetch[s].alone)
    BY <1>3, <1>5 DEF OneAtATime, AloneIsReal
  <2>2. CASE shown' = shown /\ mishaps' = mishaps
    BY <1>1, <1>3, <2>1, <2>2 DEF OneAtATime
  <2>3. CASE /\ \A w \in Switches :
                  shown'[w] = IF w \in DOMAIN fetch[s].switches THEN fetch[s].switches[w] ELSE shown[w]
             /\ mishaps' = IF fetch[s].alone THEN {} ELSE mishaps
    <3>1. \A w \in Switches : shown'[w] = real[w]
      <4>1. CASE fetch[s].alone
        <5>1. fetch[s].switches = real /\ DOMAIN real = Switches
          BY <4>1 DEF AloneIsReal, SwitchTypeOK
        <5> QED BY <2>3, <5>1
      <4>2. CASE mishaps = {}
        <5>1. shown = real /\ \A w \in Switches : w \in DOMAIN fetch[s].switches => fetch[s].switches[w] = real[w]
          BY <1>3, <2>1, <4>2 DEF OneAtATime
        <5> QED BY <2>3, <5>1
      <4> QED BY <2>1, <4>1, <4>2
    <3>2. shown' = real'
      BY <1>1, <1>6, <3>1 DEF SwitchTypeOK
    <3> QED BY <2>1, <3>2 DEF OneAtATime
  <2> QED BY <1>5, <2>2, <2>3
<1>9. SingleIsToDo'
  BY <1>1 DEF SingleIsToDo
<1> QED BY <1>6, <1>7, <1>8, <1>9

\* A request begins with the rows that it loads.
LEMMA AdminBegins ==
    ASSUME SwitchIInv, NEW a \in Admins, NEW job \in AdminSlots, Begin(a, job),
           job.done = {}, job.bulk \/ \A w \in job.todo : job.todo = {w}
    PROVE  SwitchIInv'
<1> USE DEF SwitchIInv
<1>1. PICK r : r = [job EXCEPT !.pc = "blink", !.loaded = {w \in job.todo : shown[w]}]
  OBVIOUS
<1>2. r \in AdminSlots /\ r.pc = "blink" /\ r.done = {} /\ r.todo = job.todo /\ r.bulk = job.bulk
        /\ r.loaded = {w \in job.todo : shown[w]}
  BY <1>1 DEF AdminSlots
<1>3. /\ admin[a].pc = "off" /\ admin' = [admin EXCEPT ![a] = r] /\ fetch' = Disturbed
      /\ UNCHANGED <<real, shown>>
      /\ mishaps' = IF Fetched = {} /\ Working = {} THEN mishaps ELSE mishaps \cup {"raced"}
  BY <1>1 DEF Begin, Raced
<1>4. admin' \in [Admins -> AdminSlots] /\ \A b \in Admins : admin'[b] = IF b = a THEN r ELSE admin[b]
  BY <1>2, <1>3 DEF SwitchTypeOK, AdminSlots
<1>5. SwitchTypeOK'
  BY <1>3, <1>4, NobodyAlone DEF SwitchTypeOK, AdminSlots, FetchSlots
<1>6. AloneIsReal'
  BY <1>3, NobodyAlone DEF AloneIsReal
<1>7. SingleIsToDo'
  BY <1>2, <1>4 DEF SingleIsToDo
<1>8. OneAtATime'
  <2> SUFFICES ASSUME mishaps' = {} PROVE OneAtATime'
    BY DEF OneAtATime
  <2>1. mishaps = {} /\ Fetched = {} /\ Working = {}
    BY <1>3
  <2>2. Fetched' = {} /\ Working' = {a}
    BY <1>2, <1>3, <1>4, <2>1, NobodyAlone DEF Fetched, Working
  <2>3. shown' = real' /\ r.done = {} /\ \A w \in r.todo : w \in r.loaded <=> shown'[w]
    BY <1>2, <1>3, <2>1 DEF OneAtATime
  <2>4. admin'[a] = r
    BY <1>4
  <2> QED BY <2>2, <2>3, <2>4 DEF OneAtATime
<1> QED BY <1>5, <1>6, <1>7, <1>8

LEMMA SwitchRequests ==
    ASSUME SwitchIInv, NEW a \in Admins,
           (\E w \in Switches, on \in BOOLEAN : Switch(a, w, on)) \/ (\E on \in BOOLEAN : SwitchAll(a, on))
    PROVE  SwitchIInv'
<1>1. ASSUME NEW w \in Switches, NEW on \in BOOLEAN, Switch(a, w, on) PROVE SwitchIInv'
  <2>1. PICK job : job = [NoAdmin EXCEPT !.todo = {w}, !.value = on]
    OBVIOUS
  <2>2. job \in AdminSlots /\ job.done = {} /\ (job.bulk \/ \A v \in job.todo : job.todo = {v})
    BY <2>1, NoSwitchIsUnderWay DEF AdminSlots
  <2>3. Begin(a, job)
    BY <1>1, <2>1 DEF Switch
  <2> QED BY <2>2, <2>3, AdminBegins
<1>2. ASSUME NEW on \in BOOLEAN, SwitchAll(a, on) PROVE SwitchIInv'
  <2>1. PICK job : job = [NoAdmin EXCEPT !.todo = MotionCams, !.value = on, !.bulk = TRUE]
    OBVIOUS
  <2>2. job \in AdminSlots /\ job.done = {} /\ (job.bulk \/ \A v \in job.todo : job.todo = {v})
    BY <2>1, NoSwitchIsUnderWay DEF AdminSlots, Switches
  <2>3. Begin(a, job)
    BY <1>2, <2>1 DEF SwitchAll
  <2> QED BY <2>2, <2>3, AdminBegins
<1> QED BY <1>1, <1>2

\* While a request is under way no sync has all to itself.
LEMMA WorkingDisturbs ==
    ASSUME SwitchIInv, NEW a \in Admins, admin[a].pc = "blink"
    PROVE  a \in Working /\ \A s \in SwitchSyncs : ~fetch[s].alone
BY DEF SwitchIInv, AloneIsReal, Working

\* Blink does one switch of a request, or refuses it.
LEMMA BlinkAnswers ==
    ASSUME SwitchIInv, NEW a \in Admins, NEW w \in Switches, BlinkSwitches(a, w) \/ BlinkRefusesSwitch(a, w)
    PROVE  SwitchIInv'
<1> USE DEF SwitchIInv
<1>1. admin[a].pc = "blink" /\ w \in admin[a].todo /\ UNCHANGED <<shown, fetch, mishaps>>
        /\ admin[a] \in AdminSlots
  BY DEF BlinkSwitches, BlinkRefusesSwitch, SwitchTypeOK, AdminSlots
<1>2. AloneIsReal'
  BY <1>1, WorkingDisturbs DEF AloneIsReal
<1>3. CASE BlinkSwitches(a, w)
  <2>1. PICK r : r = [admin[a] EXCEPT !.todo = @ \ {w}, !.done = @ \cup {w}]
    OBVIOUS
  <2>2. real' = [real EXCEPT ![w] = admin[a].value] /\ admin' = [admin EXCEPT ![a] = r]
    BY <1>3, <2>1 DEF BlinkSwitches
  <2>3. /\ r \in AdminSlots /\ r.pc = "blink" /\ r.todo = admin[a].todo \ {w} /\ r.done = admin[a].done \cup {w}
        /\ r.value = admin[a].value /\ r.bulk = admin[a].bulk /\ r.loaded = admin[a].loaded
    BY <1>1, <2>1 DEF AdminSlots
  <2>4. admin' \in [Admins -> AdminSlots] /\ \A b \in Admins : admin'[b] = IF b = a THEN r ELSE admin[b]
    BY <2>2, <2>3 DEF SwitchTypeOK, AdminSlots
  <2>5. real' \in [Switches -> BOOLEAN] /\ \A v \in Switches : real'[v] = IF v = w THEN admin[a].value ELSE real[v]
    BY <1>1, <2>2 DEF SwitchTypeOK, AdminSlots
  <2>6. SwitchTypeOK'
    BY <1>1, <2>4, <2>5 DEF SwitchTypeOK, AdminSlots
  <2>7. SingleIsToDo'
    BY <2>4, <2>3, <1>1 DEF SingleIsToDo
  <2>8. OneAtATime'
    <3> SUFFICES ASSUME mishaps = {} PROVE OneAtATime'
      BY <1>1 DEF OneAtATime
    <3>1. Fetched' = {} /\ Working' = {a} /\ Working = {a}
      BY <1>1, <2>3, <2>4 DEF OneAtATime, Fetched, Working
    <3>2. \A v \in Switches :
            /\ real'[v] = IF v \in r.done THEN r.value ELSE shown[v]
            /\ v \in r.todo \cup r.done => (v \in r.loaded <=> shown[v])
      BY <1>1, <2>3, <2>5, <3>1 DEF OneAtATime
    <3>3. admin'[a] = r
      BY <2>4
    <3> QED BY <1>1, <3>1, <3>2, <3>3 DEF OneAtATime
  <2> QED BY <1>2, <2>6, <2>7, <2>8
<1>4. CASE BlinkRefusesSwitch(a, w)
  <2>1. PICK auth \in BOOLEAN :
          admin' = [admin EXCEPT ![a] = IF ~admin[a].bulk THEN NoAdmin
                                        ELSE [admin[a] EXCEPT !.todo = IF auth THEN {} ELSE @ \ {w}]]
    BY <1>4 DEF BlinkRefusesSwitch
  <2>2. real' = real
    BY <1>4 DEF BlinkRefusesSwitch
  <2>3. PICK r : r = IF ~admin[a].bulk THEN NoAdmin ELSE [admin[a] EXCEPT !.todo = IF auth THEN {} ELSE @ \ {w}]
    OBVIOUS
  <2>4. /\ r \in AdminSlots
        /\ \/ ~admin[a].bulk /\ r = NoAdmin
           \/ /\ admin[a].bulk /\ r.pc = "blink" /\ r.todo \subseteq admin[a].todo /\ r.done = admin[a].done
              /\ r.value = admin[a].value /\ r.bulk = admin[a].bulk /\ r.loaded = admin[a].loaded
    <3>1. CASE ~admin[a].bulk
      BY <2>3, <3>1, NoSwitchIsUnderWay
    <3>2. CASE admin[a].bulk
      <4>1. PICK todo \in SUBSET admin[a].todo : todo = IF auth THEN {} ELSE admin[a].todo \ {w}
        OBVIOUS
      <4>2. r = [admin[a] EXCEPT !.todo = todo]
        BY <2>3, <3>2, <4>1
      <4> QED BY <1>1, <3>2, <4>2 DEF AdminSlots
    <3> QED BY <3>1, <3>2
  <2>5. admin' = [admin EXCEPT ![a] = r]
    BY <2>1, <2>3
  <2>6. admin' \in [Admins -> AdminSlots] /\ \A b \in Admins : admin'[b] = IF b = a THEN r ELSE admin[b]
    BY <2>4, <2>5 DEF SwitchTypeOK, AdminSlots
  <2>7. SwitchTypeOK'
    BY <1>1, <2>2, <2>6 DEF SwitchTypeOK, AdminSlots
  <2>8. SingleIsToDo'
    BY <2>4, <2>6, NoSwitchIsUnderWay DEF SingleIsToDo
  <2>9. OneAtATime'
    <3> SUFFICES ASSUME mishaps = {} PROVE OneAtATime'
      BY <1>1 DEF OneAtATime
    <3>1. /\ Fetched' = {} /\ Working = {a} /\ admin'[a] = r
          /\ Working' = IF r.pc = "off" THEN {} ELSE {a}
      BY <1>1, <2>6 DEF OneAtATime, Fetched, Working
    <3>2. CASE ~admin[a].bulk /\ r = NoAdmin
      <4>1. admin[a].done = {}
        BY <1>1, <3>2 DEF SingleIsToDo
      <4>2. shown' = real'
        <5>1. \A v \in Switches : real[v] = shown[v]
          BY <3>1, <4>1 DEF OneAtATime
        <5> QED BY <1>1, <2>2, <5>1 DEF SwitchTypeOK
      <4> QED BY <3>1, <3>2, <4>2, NoSwitchIsUnderWay DEF OneAtATime
    <3>3. CASE admin[a].bulk /\ r.pc = "blink"
      <4>1. Working' = {a}
        BY <3>1, <3>3
      <4>2. \A v \in Switches :
              /\ real[v] = IF v \in r.done THEN r.value ELSE shown[v]
              /\ v \in r.todo \cup r.done => (v \in r.loaded <=> shown[v])
        BY <2>4, <3>1, <3>3 DEF OneAtATime, NoAdmin
      <4> QED BY <1>1, <2>2, <3>1, <4>1, <4>2 DEF OneAtATime
    <3> QED BY <2>4, <3>2, <3>3
  <2> QED BY <1>2, <2>7, <2>8, <2>9
<1> QED BY <1>3, <1>4

\* A request ends: with the rows that Blink switched for it, or without anybody
\* knowing.
LEMMA AdminEnds ==
    ASSUME SwitchIInv, NEW a \in Admins, RequestBreaks(a) \/ SaveSwitches(a)
    PROVE  SwitchIInv'
<1> USE DEF SwitchIInv
<1>1. admin[a].pc = "blink" /\ admin' = [admin EXCEPT ![a] = NoAdmin] /\ UNCHANGED fetch
        /\ admin[a] \in AdminSlots
  BY DEF RequestBreaks, SaveSwitches, SwitchTypeOK, AdminSlots
<1>2. admin' \in [Admins -> AdminSlots] /\ \A b \in Admins : admin'[b] = IF b = a THEN NoAdmin ELSE admin[b]
  BY <1>1, NoSwitchIsUnderWay DEF SwitchTypeOK, AdminSlots
<1>3. AloneIsReal'
  BY <1>1, WorkingDisturbs DEF AloneIsReal
<1>4. SingleIsToDo'
  BY <1>2, NoSwitchIsUnderWay DEF SingleIsToDo
<1>5. CASE RequestBreaks(a)
  <2>1. real' \in [Switches -> BOOLEAN] /\ mishaps' = mishaps \cup {"lost"} /\ shown' = shown
    <3>1. PICK w \in admin[a].todo : real' \in {real, [real EXCEPT ![w] = admin[a].value]}
      BY <1>5 DEF RequestBreaks
    <3>2. admin[a].value \in BOOLEAN
      BY <1>1 DEF AdminSlots
    <3> QED BY <1>5, <3>1, <3>2 DEF RequestBreaks, SwitchTypeOK
  <2>2. SwitchTypeOK'
    BY <1>1, <1>2, <2>1 DEF SwitchTypeOK, AdminSlots
  <2>3. OneAtATime'
    BY <2>1 DEF OneAtATime
  <2> QED BY <1>3, <1>4, <2>2, <2>3
<1>6. CASE SaveSwitches(a)
  <2>1. /\ admin[a].todo = {} /\ UNCHANGED <<real, mishaps>>
        /\ shown' = [w \in Switches |->
             IF w \in admin[a].done /\ (w \in admin[a].loaded) # admin[a].value THEN admin[a].value ELSE shown[w]]
    BY <1>6 DEF SaveSwitches
  <2>2. shown' \in [Switches -> BOOLEAN]
    BY <1>1, <2>1 DEF SwitchTypeOK, AdminSlots
  <2>3. SwitchTypeOK'
    BY <1>1, <1>2, <2>1, <2>2 DEF SwitchTypeOK, AdminSlots
  <2>4. OneAtATime'
    <3> SUFFICES ASSUME mishaps = {} PROVE OneAtATime'
      BY <2>1 DEF OneAtATime
    <3>1. Fetched' = {} /\ Working = {a} /\ Working' = {}
      BY <1>1, <1>2, NoSwitchIsUnderWay DEF OneAtATime, Fetched, Working
    <3>2. \A w \in Switches : shown'[w] = real[w]
      <4> TAKE w \in Switches
      <4>1. /\ real[w] = IF w \in admin[a].done THEN admin[a].value ELSE shown[w]
            /\ w \in admin[a].done => (w \in admin[a].loaded <=> shown[w])
        BY <3>1 DEF OneAtATime
      <4>2. admin[a].value \in BOOLEAN /\ shown[w] \in BOOLEAN
        BY <1>1 DEF AdminSlots, SwitchTypeOK
      <4>3. shown'[w] = IF w \in admin[a].done /\ (w \in admin[a].loaded) # admin[a].value
                        THEN admin[a].value ELSE shown[w]
        BY <2>1
      <4> QED BY <4>1, <4>2, <4>3
    <3>3. shown' = real'
      BY <2>1, <2>2, <3>2 DEF SwitchTypeOK
    <3> QED BY <3>1, <3>3 DEF OneAtATime
  <2> QED BY <1>3, <1>4, <2>3, <2>4
<1> QED BY <1>5, <1>6

\* The rows show what Blink has whenever nothing is under way and nothing has
\* gone wrong since a sync had all to itself (sync_module/service.py).
THEOREM RowsShowSwitches == SwitchSpec => []SwitchInv
<1>1. SwitchInit => SwitchIInv
  BY SwitchBegins
<1>2. SwitchIInv /\ [SwitchNext]_switchVars => SwitchIInv'
  <2> SUFFICES ASSUME SwitchIInv, [SwitchNext]_switchVars PROVE SwitchIInv'
    OBVIOUS
  <2>1. CASE \E w \in Switches : UsedElsewhere(w)
    BY <2>1, SwitchedElsewhere
  <2>2. CASE \E s \in SwitchSyncs : FetchSwitches(s) \/ CommitSwitches(s) \/ FetchLost(s)
    BY <2>2, SwitchesFetched, SwitchesCommitted
  <2>3. CASE \E a \in Admins : (\E w \in Switches, on \in BOOLEAN : Switch(a, w, on))
                                 \/ (\E on \in BOOLEAN : SwitchAll(a, on))
    BY <2>3, SwitchRequests
  <2>4. CASE \E a \in Admins, w \in Switches : BlinkSwitches(a, w) \/ BlinkRefusesSwitch(a, w)
    BY <2>4, BlinkAnswers
  <2>5. CASE \E a \in Admins : RequestBreaks(a) \/ SaveSwitches(a)
    BY <2>5, AdminEnds
  <2>6. CASE UNCHANGED switchVars
    <3>1. UNCHANGED <<real, shown, fetch, admin, mishaps>>
      BY <2>6 DEF switchVars
    <3>2. Fetched' = Fetched /\ Working' = Working
      BY <3>1 DEF Fetched, Working
    <3> QED BY <3>1, <3>2 DEF SwitchIInv, SwitchTypeOK, AloneIsReal, OneAtATime, SingleIsToDo
  <2> QED BY <2>1, <2>2, <2>3, <2>4, <2>5, <2>6 DEF SwitchNext
<1>3. SwitchIInv => SwitchInv
  BY DEF SwitchIInv, SwitchInv, ShownIsReal, OneAtATime
<1> QED BY <1>1, <1>2, <1>3, PTL DEF SwitchSpec

-----------------------------------------------------------------------------
(* Preview images                                                          *)

WatcherSlots ==
    [pc : {"off", "fetch", "write", "replace", "commit"}, cam : PreviewCams \cup {"none"},
     to : Folders \cup {"none"}, loaded : Folders \cup {"none"},
     fd : {"none", "part", "file", "unlinked"}, alone : BOOLEAN]

LEMMA NoWatcherIsASlot ==
    NoWatcher \in WatcherSlots /\ NoWatcher.pc = "off"
BY DEF NoWatcher, WatcherSlots

\* Who is writing into a folder, slot by slot.
LEMMA WhoWrites ==
    ASSUME NEW f
    PROVE  /\ Writing(f) \subseteq Watchers
           /\ \A r \in Watchers : r \in Writing(f) <=> watcher[r].pc \in {"write", "replace"} /\ watcher[r].to = f
BY DEF Writing

LEMMA PreviewBegins == PreviewInit => PreviewIInv
<1> SUFFICES ASSUME PreviewInit PROVE PreviewIInv
  OBVIOUS
<1> USE DEF PreviewInit
<1>1. PreviewTypeOK
  <2>1. watcher \in [Watchers -> WatcherSlots]
    BY NoWatcherIsASlot
  <2>2. homes \in [Folders -> SUBSET PreviewCams]
    OBVIOUS
  <2>3. row \in [PreviewCams -> Folders \cup {"none"}]
    OBVIOUS
  <2>4. file \in [Folders -> PreviewCams \cup {"none", "torn"}] /\ part \in [Folders -> PreviewCams \cup {"none", "torn"}]
    OBVIOUS
  <2> QED BY <2>1, <2>2, <2>3, <2>4 DEF PreviewTypeOK, WatcherSlots
<1>2. WritesApart
  BY NoWatcherIsASlot DEF WritesApart
<1>3. FilesAreThere
  BY NoWatcherIsASlot DEF FilesAreThere
<1> QED BY <1>1, <1>2, <1>3 DEF PreviewIInv

\* A camera's new name: its folders only become more.
LEMMA PreviewRenames ==
    ASSUME PreviewIInv, NEW c \in PreviewCams, NEW f \in Folders, Rename(c, f)
    PROVE  PreviewIInv'
<1> USE DEF PreviewIInv
<1>1. /\ folder' = [folder EXCEPT ![c] = f] /\ homes' = [homes EXCEPT ![f] = @ \cup {c}]
      /\ UNCHANGED <<row, file, part, clash, watcher>>
  BY DEF Rename
<1>2. PreviewTypeOK'
  BY <1>1 DEF PreviewTypeOK
<1>3. WritesApart'
  BY <1>1 DEF WritesApart, Writing
<1>4. \A g \in Folders : homes[g] \subseteq homes'[g]
  BY <1>1 DEF PreviewTypeOK
<1>5. \A d \in PreviewCams : d \in homes'[folder'[d]]
  <2> TAKE d \in PreviewCams
  <2>1. CASE d = c
    BY <1>1, <2>1 DEF PreviewTypeOK
  <2>2. CASE d # c
    BY <1>1, <1>4, <2>2 DEF PreviewTypeOK, FilesAreThere
  <2> QED BY <2>1, <2>2
<1>6. FilesAreThere'
  BY <1>1, <1>4, <1>5 DEF FilesAreThere, PreviewTypeOK
<1> QED BY <1>2, <1>3, <1>6

\* A slot that is not writing becomes another that is not: no file changes.
LEMMA WatcherPasses ==
    ASSUME PreviewIInv, NEW r \in Watchers, NEW w \in WatcherSlots,
           watcher' = [watcher EXCEPT ![r] = w],
           watcher[r].pc \notin {"write", "replace"}, w.pc \in {"off", "fetch"},
           w.pc = "fetch" => w.to \in Folders /\ w.cam \in homes[w.to],
           UNCHANGED <<homes, file, part, clash>>
    PROVE  /\ watcher' \in [Watchers -> WatcherSlots] /\ WritesApart'
           /\ \A q \in Watchers :
                /\ watcher'[q].pc # "off" => watcher'[q].to \in Folders /\ watcher'[q].cam \in homes[watcher'[q].to]
                /\ watcher'[q].pc = "commit" => file[watcher'[q].to] # "none"
<1> USE DEF PreviewIInv
<1>1. watcher' \in [Watchers -> WatcherSlots] /\ \A q \in Watchers : watcher'[q] = IF q = r THEN w ELSE watcher[q]
  BY DEF PreviewTypeOK, WatcherSlots
<1>2. \A f : Writing(f)' = Writing(f)
  BY <1>1 DEF Writing
<1>3. WritesApart'
  BY <1>1, <1>2 DEF WritesApart
<1>4. \A q \in Watchers :
        /\ watcher'[q].pc # "off" => watcher'[q].to \in Folders /\ watcher'[q].cam \in homes[watcher'[q].to]
        /\ watcher'[q].pc = "commit" => file[watcher'[q].to] # "none"
  BY <1>1 DEF FilesAreThere
<1> QED BY <1>1, <1>3, <1>4

\* get_preview and its answers; the path that a row gets is that of a file.
LEMMA PreviewAnswers ==
    ASSUME PreviewIInv, NEW r \in Watchers,
           NoImage(r) \/ NotePath(r) \/ \E c \in PreviewCams : Ask(r, c)
    PROVE  PreviewIInv'
<1> USE DEF PreviewIInv
<1>1. UNCHANGED <<folder, homes, file, part, clash>>
  BY DEF NoImage, NotePath, Ask
<1>2. PICK w \in WatcherSlots :
        /\ watcher' = [watcher EXCEPT ![r] = w] /\ w.pc \in {"off", "fetch"}
        /\ w.pc = "fetch" => w.to \in Folders /\ w.cam \in homes[w.to]
  <2>1. CASE NoImage(r) \/ NotePath(r)
    BY <2>1, NoWatcherIsASlot DEF NoImage, NotePath, End
  <2>2. ASSUME NEW c \in PreviewCams, Ask(r, c)
        PROVE  \E w \in WatcherSlots :
                 /\ watcher' = [watcher EXCEPT ![r] = w] /\ w.pc \in {"off", "fetch"}
                 /\ w.pc = "fetch" => w.to \in Folders /\ w.cam \in homes[w.to]
    <3>1. PICK w : w = [NoWatcher EXCEPT !.pc = "fetch", !.cam = c, !.to = folder[c], !.loaded = row[c]]
      OBVIOUS
    <3>2. w \in WatcherSlots /\ w.pc = "fetch" /\ w.cam = c /\ w.to = folder[c]
      BY <3>1, NoWatcherIsASlot DEF WatcherSlots, PreviewTypeOK
    <3>3. watcher' = [watcher EXCEPT ![r] = w]
      BY <2>2, <3>1 DEF Ask
    <3>4. folder[c] \in Folders /\ c \in homes[folder[c]]
      BY DEF PreviewTypeOK, FilesAreThere
    <3> QED BY <3>2, <3>3, <3>4
  <2> QED BY <2>1, <2>2
<1>3. watcher[r].pc \in {"off", "fetch", "commit"}
  BY DEF NoImage, NotePath, Ask
<1>4. /\ watcher' \in [Watchers -> WatcherSlots] /\ WritesApart'
      /\ \A q \in Watchers :
           /\ watcher'[q].pc # "off" => watcher'[q].to \in Folders /\ watcher'[q].cam \in homes[watcher'[q].to]
           /\ watcher'[q].pc = "commit" => file[watcher'[q].to] # "none"
  BY <1>1, <1>2, <1>3, WatcherPasses
<1>5. row' \in [PreviewCams -> Folders \cup {"none"}]
        /\ \A c \in PreviewCams : row'[c] # "none" => file[row'[c]] # "none"
  <2>1. CASE NotePath(r)
    <3>1. /\ watcher[r].pc = "commit" /\ watcher[r].to \in Folders /\ watcher[r].cam \in PreviewCams
          /\ file[watcher[r].to] # "none"
      BY <2>1 DEF NotePath, FilesAreThere, PreviewTypeOK
    <3>2. row' = [row EXCEPT ![watcher[r].cam] = IF watcher[r].to # watcher[r].loaded THEN watcher[r].to ELSE @]
      BY <2>1 DEF NotePath
    <3>3. \A c \in PreviewCams : row'[c] = row[c] \/ row'[c] = watcher[r].to
      BY <3>1, <3>2 DEF PreviewTypeOK
    <3>4. row' \in [PreviewCams -> Folders \cup {"none"}]
      BY <3>1, <3>2 DEF PreviewTypeOK
    <3> QED BY <3>1, <3>3, <3>4 DEF FilesAreThere
  <2>2. CASE row' = row
    BY <2>2 DEF PreviewTypeOK, FilesAreThere
  <2> QED BY <2>1, <2>2 DEF NoImage, Ask
<1>6. PreviewTypeOK'
  BY <1>1, <1>4, <1>5 DEF PreviewTypeOK, WatcherSlots
<1>7. FilesAreThere'
  BY <1>1, <1>4, <1>5 DEF FilesAreThere
<1> QED BY <1>4, <1>6, <1>7

\* open(..., "wb"): alone or not, what is in the folder stays until a rename.
LEMMA PreviewOpens ==
    ASSUME PreviewIInv, NEW r \in Watchers, OpenPart(r)
    PROVE  PreviewIInv'
<1> USE DEF PreviewIInv
<1>0. PICK f : f = watcher[r].to
  OBVIOUS
<1>1. /\ watcher[r].pc = "fetch" /\ f \in Folders /\ r \notin Writing(f)
      /\ clash' = IF Writing(f) = {} THEN clash ELSE clash \cup {f}
      /\ part' = [part EXCEPT ![f] = "torn"]
      /\ UNCHANGED <<folder, homes, row, file>>
  BY WhoWrites, <1>0 DEF OpenPart, FilesAreThere
<1>2. PICK alone \in BOOLEAN : alone = (Writing(f) = {})
  OBVIOUS
<1>3. watcher' = [q \in Watchers |->
         IF q = r THEN [watcher[r] EXCEPT !.pc = "write", !.fd = "part", !.alone = alone]
         ELSE IF q \in Writing(f) THEN [watcher[q] EXCEPT !.alone = FALSE] ELSE watcher[q]]
  BY <1>0, <1>2 DEF OpenPart
<1>4. ASSUME NEW q \in Watchers
      PROVE  /\ watcher'[q] \in WatcherSlots
             /\ watcher'[q].cam = watcher[q].cam /\ watcher'[q].to = watcher[q].to
             /\ q # r => watcher'[q].pc = watcher[q].pc /\ watcher'[q].fd = watcher[q].fd
             /\ q = r => watcher'[q].pc = "write" /\ watcher'[q].fd = "part" /\ watcher'[q].alone = alone
             /\ q # r /\ q \in Writing(f) => ~watcher'[q].alone
             /\ q # r /\ q \notin Writing(f) => watcher'[q].alone = watcher[q].alone
  <2>1. watcher[q] \in WatcherSlots
    BY DEF PreviewTypeOK, WatcherSlots
  <2>2. CASE q = r
    <3>1. watcher'[q] = [watcher[q] EXCEPT !.pc = "write", !.fd = "part", !.alone = alone]
      BY <1>3, <2>2
    <3> QED BY <2>1, <2>2, <3>1 DEF WatcherSlots
  <2>3. CASE q # r /\ q \in Writing(f)
    <3>1. watcher'[q] = [watcher[q] EXCEPT !.alone = FALSE]
      BY <1>3, <2>3
    <3> QED BY <2>1, <2>3, <3>1 DEF WatcherSlots
  <2>4. CASE q # r /\ q \notin Writing(f)
    BY <1>3, <2>1, <2>4
  <2> QED BY <2>2, <2>3, <2>4
<1>5. watcher' \in [Watchers -> WatcherSlots]
  BY <1>3, <1>4
<1>6. PreviewTypeOK'
  BY <1>1, <1>5 DEF PreviewTypeOK, WatcherSlots
<1>7. Writing(f)' = Writing(f) \cup {r} /\ \A g : g # f => Writing(g)' = Writing(g)
  <2>1. \A g, q : q \in Writing(g)' <=> (q \in Writing(g) \/ (q = r /\ g = f))
    BY <1>1, <1>4, <1>0 DEF Writing
  <2>2. Writing(f)' = Writing(f) \cup {r}
    BY <2>1
  <2>3. ASSUME NEW g, g # f PROVE Writing(g)' = Writing(g)
    BY <2>1, <2>3
  <2> QED BY <2>2, <2>3
<1>8. WritesApart'
  <2> SUFFICES ASSUME NEW q \in Watchers, watcher'[q].pc \in {"write", "replace"}, NEW g, g = watcher[q].to
               PROVE  IF watcher'[q].alone
                      THEN /\ Writing(g)' = {q} /\ watcher'[q].fd = "part"
                           /\ watcher'[q].pc = "replace" => part'[g] = watcher'[q].cam
                      ELSE g \in clash'
    BY <1>4 DEF WritesApart, Writing
  <2>1. CASE q = r
    BY <1>1, <1>2, <1>4, <1>7, <2>1, <1>0
  <2>2. CASE q # r /\ q \in Writing(f)
    BY <1>1, <1>4, <2>2, WhoWrites
  <2>3. CASE q # r /\ q \notin Writing(f)
    <3>1. watcher[q].to # f /\ watcher[q].pc \in {"write", "replace"}
      BY <1>4, <2>3, WhoWrites
    <3>2. watcher[q].to \in Folders
      BY <3>1 DEF FilesAreThere
    <3>3. part'[watcher[q].to] = part[watcher[q].to]
      BY <1>1, <3>1, <3>2 DEF PreviewTypeOK
    <3> QED BY <1>1, <1>4, <1>7, <2>3, <3>1, <3>3 DEF WritesApart
  <2> QED BY <2>1, <2>2, <2>3
<1>9. FilesAreThere'
  BY <1>1, <1>4, <1>0 DEF FilesAreThere
<1> QED BY <1>6, <1>8, <1>9

\* The bytes: one that writes alone writes its own image into its own file.
LEMMA PreviewWrites ==
    ASSUME PreviewIInv, NEW r \in Watchers, WriteBytes(r)
    PROVE  PreviewIInv'
<1> USE DEF PreviewIInv
<1>0. PICK f : f = watcher[r].to
  OBVIOUS
<1>1. /\ watcher[r].pc = "write" /\ f \in Folders /\ watcher[r] \in WatcherSlots
      /\ watcher[r].cam \in homes[f] /\ watcher[r].cam \in PreviewCams
      /\ watcher' = [watcher EXCEPT ![r].pc = "replace"]
      /\ UNCHANGED <<folder, homes, row, clash>>
  BY <1>0 DEF WriteBytes, FilesAreThere, PreviewTypeOK, WatcherSlots
<1>2. PICK new \in Written(r) :
         /\ part' = IF watcher[r].fd = "part" THEN [part EXCEPT ![f] = new] ELSE part
         /\ file' = IF watcher[r].fd = "file" THEN [file EXCEPT ![f] = new] ELSE file
  BY <1>0 DEF WriteBytes
<1>3. new \in PreviewCams \cup {"torn"} /\ new # "none" /\ (watcher[r].alone => new = watcher[r].cam)
  BY <1>1, <1>2, CameraPreviewAssumption DEF Written
<1>4. /\ watcher' \in [Watchers -> WatcherSlots]
      /\ \A q \in Watchers : q # r => watcher'[q] = watcher[q]
      /\ watcher'[r].pc = "replace" /\ watcher'[r].cam = watcher[r].cam /\ watcher'[r].to = f
      /\ watcher'[r].fd = watcher[r].fd /\ watcher'[r].alone = watcher[r].alone
  <2>1. PICK w : w = [watcher[r] EXCEPT !.pc = "replace"]
    OBVIOUS
  <2>2. /\ w \in WatcherSlots /\ w.pc = "replace" /\ w.cam = watcher[r].cam /\ w.to = watcher[r].to
        /\ w.fd = watcher[r].fd /\ w.alone = watcher[r].alone
    BY <1>1, <2>1 DEF WatcherSlots
  <2>3. watcher' = [watcher EXCEPT ![r] = w]
    BY <1>1, <2>1
  <2>4. watcher' \in [Watchers -> WatcherSlots] /\ \A q \in Watchers : watcher'[q] = IF q = r THEN w ELSE watcher[q]
    BY <2>2, <2>3 DEF PreviewTypeOK, WatcherSlots
  <2> QED BY <1>0, <2>2, <2>4
<1>5. PreviewTypeOK'
  BY <1>1, <1>2, <1>3, <1>4 DEF PreviewTypeOK, WatcherSlots
<1>6. \A g : Writing(g)' = Writing(g)
  BY <1>1, <1>4, <1>0 DEF Writing
<1>7. r \in Writing(f) /\ \A g \in Folders : g # f => part'[g] = part[g] /\ file'[g] = file[g]
  BY <1>1, <1>2, WhoWrites, <1>0 DEF PreviewTypeOK
<1>8. watcher[r].alone => watcher[r].fd = "part" /\ Writing(f) = {r} /\ part'[f] = watcher[r].cam /\ file' = file
  BY <1>1, <1>2, <1>3, <1>0 DEF WritesApart, PreviewTypeOK
<1>9. WritesApart'
  <2> SUFFICES ASSUME NEW q \in Watchers, watcher'[q].pc \in {"write", "replace"}, NEW g, g = watcher[q].to
               PROVE  IF watcher'[q].alone
                      THEN /\ Writing(g)' = {q} /\ watcher'[q].fd = "part"
                           /\ watcher'[q].pc = "replace" => part'[g] = watcher'[q].cam
                      ELSE g \in clash'
    <3>1. \A q \in Watchers : watcher'[q].to = watcher[q].to
      BY <1>0, <1>4
    <3> QED BY <3>1 DEF WritesApart, Writing
  <2>1. CASE q = r
    BY <1>1, <1>4, <1>6, <1>8, <2>1, <1>0 DEF WritesApart
  <2>2. CASE q # r /\ ~watcher[q].alone
    BY <1>1, <1>4, <2>2 DEF WritesApart
  <2>3. CASE q # r /\ watcher[q].alone
    <3>1. Writing(watcher[q].to) = {q} /\ watcher[q].to \in Folders
      BY <1>4, <2>3 DEF WritesApart, FilesAreThere
    <3>2. watcher[q].to # f
      BY <1>7, <2>3, <3>1
    <3> QED BY <1>4, <1>6, <1>7, <2>3, <3>1, <3>2 DEF WritesApart
  <2> QED BY <2>1, <2>2, <2>3
<1>10. \A g \in Folders : file[g] # "none" => file'[g] # "none"
  BY <1>1, <1>2, <1>3 DEF PreviewTypeOK
<1>11. \A g \in Folders \ clash : file'[g] = file[g]
  <2>1. f \notin clash => watcher[r].alone
    BY <1>1, <1>0 DEF WritesApart
  <2> QED BY <1>7, <1>8, <2>1
<1>12. FilesAreThere'
  <2>1. \A q \in Watchers :
          /\ watcher'[q].pc # "off" => watcher'[q].to \in Folders /\ watcher'[q].cam \in homes[watcher'[q].to]
          /\ watcher'[q].pc = "commit" => file'[watcher'[q].to] # "none"
    BY <1>1, <1>4, <1>10 DEF FilesAreThere
  <2>2. \A c \in PreviewCams : row[c] # "none" => file'[row[c]] # "none"
    BY <1>10 DEF FilesAreThere, PreviewTypeOK
  <2> QED BY <1>1, <1>11, <2>1, <2>2 DEF FilesAreThere
<1> QED BY <1>5, <1>9, <1>12

\* What becomes of the others when one of the writers of a folder renames the
\* file or removes it: only where their bytes go.
Elsewhere(r, f) ==
    \A q \in Watchers : q # r =>
      /\ watcher'[q] \in WatcherSlots
      /\ watcher'[q].pc = watcher[q].pc /\ watcher'[q].cam = watcher[q].cam
      /\ watcher'[q].to = watcher[q].to /\ watcher'[q].alone = watcher[q].alone
      /\ q \notin Writing(f) => watcher'[q].fd = watcher[q].fd

LEMMA OthersWriteApart ==
    ASSUME PreviewIInv, NEW r \in Watchers, NEW f \in Folders, r \in Writing(f), Elsewhere(r, f),
           watcher'[r].pc \notin {"write", "replace"},
           clash' \in {clash, IF watcher[r].alone THEN clash \ {f} ELSE clash},
           \A g \in Folders \ {f} : part'[g] = part[g]
    PROVE  WritesApart'
<1> USE DEF PreviewIInv
<1>1. \A g : Writing(g)' = IF g = f THEN Writing(g) \ {r} ELSE Writing(g)
  <2>1. \A g, q : q \in Writing(g)' <=> (q \in Writing(g) /\ q # r)
    BY DEF Writing, Elsewhere
  <2>2. \A g : g # f => r \notin Writing(g)
    BY WhoWrites
  <2> QED BY <2>1, <2>2
<1> SUFFICES ASSUME NEW q \in Watchers, watcher'[q].pc \in {"write", "replace"}, NEW t, t = watcher[q].to
             PROVE  IF watcher'[q].alone
                    THEN /\ Writing(t)' = {q} /\ watcher'[q].fd = "part"
                         /\ watcher'[q].pc = "replace" => part'[t] = watcher'[q].cam
                    ELSE t \in clash'
  BY DEF WritesApart, Writing, Elsewhere
<1>2. /\ q # r /\ watcher[q].pc = watcher'[q].pc /\ watcher[q].to = watcher'[q].to
      /\ watcher[q].cam = watcher'[q].cam /\ watcher[q].alone = watcher'[q].alone
      /\ watcher[q].to \in Folders
  BY DEF Elsewhere, FilesAreThere
<1>3. CASE watcher[q].alone
  <2>1. Writing(watcher[q].to) = {q}
    BY <1>2, <1>3 DEF WritesApart
  <2>2. watcher[q].to # f /\ q \notin Writing(f)
    BY <1>2, <2>1, WhoWrites
  <2> QED BY <1>1, <1>2, <1>3, <2>1, <2>2 DEF WritesApart, Elsewhere
<1>4. CASE ~watcher[q].alone
  <2>1. watcher[q].to \in clash
    BY <1>2, <1>4 DEF WritesApart
  <2>2. watcher[r].alone => watcher[q].to # f
    <3>1. watcher[r].alone => Writing(f) = {r}
      BY WhoWrites DEF WritesApart
    <3> QED BY <1>2, <3>1, WhoWrites
  <2> QED BY <1>2, <1>4, <2>1, <2>2
<1> QED BY <1>3, <1>4

\* os.replace: what was written alone is an image of the camera.
LEMMA PreviewReplaces ==
    ASSUME PreviewIInv, NEW r \in Watchers, Replace(r)
    PROVE  PreviewIInv'
<1> USE DEF PreviewIInv
<1>0. PICK f : f = watcher[r].to
  OBVIOUS
<1>1. /\ watcher[r].pc = "replace" /\ f \in Folders /\ watcher[r].cam \in homes[f] /\ part[f] # "none"
      /\ file' = [file EXCEPT ![f] = part[f]] /\ part' = [part EXCEPT ![f] = "none"]
      /\ watcher' = Renamed(f, r)
      /\ clash' = IF watcher[r].alone THEN clash \ {f} ELSE clash
      /\ UNCHANGED <<folder, homes, row>>
  BY <1>0 DEF Replace, FilesAreThere
<1>2. ASSUME NEW q \in Watchers
      PROVE  /\ watcher'[q] \in WatcherSlots
             /\ watcher'[q].cam = watcher[q].cam /\ watcher'[q].to = watcher[q].to
             /\ q # r => watcher'[q].pc = watcher[q].pc /\ watcher'[q].alone = watcher[q].alone
             /\ q # r /\ q \notin Writing(f) => watcher'[q].fd = watcher[q].fd
             /\ q = r => watcher'[q].pc = "commit"
  <2>1. watcher[q] \in WatcherSlots
    BY DEF PreviewTypeOK, WatcherSlots
  <2>2. CASE q = r
    <3>1. watcher'[q] = [watcher[q] EXCEPT !.pc = "commit", !.fd = "none", !.alone = FALSE]
      BY <1>1, <2>2 DEF Renamed
    <3> QED BY <2>1, <2>2, <3>1 DEF WatcherSlots
  <2>3. CASE q # r /\ q \in Writing(f)
    <3>1. PICK fd \in {"file", "unlinked"} : fd = IF watcher[q].fd = "part" THEN "file" ELSE "unlinked"
      OBVIOUS
    <3>2. watcher'[q] = [watcher[q] EXCEPT !.fd = fd]
      BY <1>1, <2>3, <3>1 DEF Renamed
    <3> QED BY <2>1, <2>3, <3>2 DEF WatcherSlots
  <2>4. CASE q # r /\ q \notin Writing(f)
    BY <1>1, <2>1, <2>4 DEF Renamed
  <2> QED BY <2>2, <2>3, <2>4
<1>3. watcher' \in [Watchers -> WatcherSlots]
  BY <1>1, <1>2 DEF Renamed
<1>4. r \in Writing(f)
  BY <1>0, <1>1, WhoWrites
<1>5. PreviewTypeOK'
  BY <1>1, <1>3 DEF PreviewTypeOK, WatcherSlots
<1>6. WritesApart'
  <2>1. Elsewhere(r, f)
    BY <1>2 DEF Elsewhere
  <2>2. \A g \in Folders \ {f} : part'[g] = part[g]
    BY <1>1 DEF PreviewTypeOK
  <2>3. watcher'[r].pc = "commit"
    BY <1>2
  <2> QED BY <1>1, <1>4, <2>1, <2>2, <2>3, OthersWriteApart
<1>7. \A g \in Folders : file'[g] = IF g = f THEN part[f] ELSE file[g]
  BY <1>1 DEF PreviewTypeOK
<1>8. f \notin clash' => part[f] \in homes[f]
  <2>1. CASE watcher[r].alone
    BY <1>1, <2>1, <1>0 DEF WritesApart
  <2>2. CASE ~watcher[r].alone
    BY <1>1, <2>2, <1>0 DEF WritesApart
  <2> QED BY <2>1, <2>2
<1>9. FilesAreThere'
  <2>1. \A q \in Watchers :
          /\ watcher'[q].pc # "off" => watcher'[q].to \in Folders /\ watcher'[q].cam \in homes'[watcher'[q].to]
          /\ watcher'[q].pc = "commit" => file'[watcher'[q].to] # "none"
    BY <1>1, <1>2, <1>7, <1>0 DEF FilesAreThere
  <2>2. \A c \in PreviewCams : row'[c] # "none" => file'[row'[c]] # "none"
    BY <1>1, <1>7 DEF FilesAreThere, PreviewTypeOK
  <2>3. \A g \in Folders \ clash' : file'[g] \in homes'[g] \cup {"none"}
    BY <1>1, <1>7, <1>8 DEF FilesAreThere
  <2> QED BY <1>1, <2>1, <2>2, <2>3 DEF FilesAreThere
<1> QED BY <1>5, <1>6, <1>9

\* OSError: the file is removed, and with it what others have in it.
LEMMA PreviewFails ==
    ASSUME PreviewIInv, NEW r \in Watchers, WriteFails(r)
    PROVE  PreviewIInv'
<1> USE DEF PreviewIInv
<1>0. PICK f : f = watcher[r].to
  OBVIOUS
<1>1. /\ watcher[r].pc \in {"write", "replace"} /\ f \in Folders
      /\ part' = [part EXCEPT ![f] = "none"]
      /\ watcher' = [q \in Watchers |->
           IF q = r THEN NoWatcher
           ELSE IF q \in Writing(f) /\ watcher[q].fd = "part" THEN [watcher[q] EXCEPT !.fd = "unlinked"]
           ELSE watcher[q]]
      /\ UNCHANGED <<folder, homes, row, file, clash>>
  BY <1>0 DEF WriteFails, FilesAreThere
<1>2. ASSUME NEW q \in Watchers
      PROVE  /\ watcher'[q] \in WatcherSlots
             /\ q # r => /\ watcher'[q].cam = watcher[q].cam /\ watcher'[q].to = watcher[q].to
                         /\ watcher'[q].pc = watcher[q].pc /\ watcher'[q].alone = watcher[q].alone
             /\ q # r /\ q \notin Writing(f) => watcher'[q].fd = watcher[q].fd
             /\ q = r => watcher'[q].pc = "off"
  <2>1. watcher[q] \in WatcherSlots
    BY DEF PreviewTypeOK, WatcherSlots
  <2>2. CASE q = r
    BY <1>1, <2>2, NoWatcherIsASlot
  <2>3. CASE q # r /\ q \in Writing(f) /\ watcher[q].fd = "part"
    <3>1. watcher'[q] = [watcher[q] EXCEPT !.fd = "unlinked"]
      BY <1>1, <2>3
    <3> QED BY <2>1, <2>3, <3>1 DEF WatcherSlots
  <2>4. CASE q # r /\ ~(q \in Writing(f) /\ watcher[q].fd = "part")
    BY <1>1, <2>1, <2>4
  <2> QED BY <2>2, <2>3, <2>4
<1>3. watcher' \in [Watchers -> WatcherSlots]
  BY <1>1, <1>2
<1>4. r \in Writing(f)
  BY <1>0, <1>1, WhoWrites
<1>5. PreviewTypeOK'
  BY <1>1, <1>3 DEF PreviewTypeOK, WatcherSlots
<1>6. WritesApart'
  <2>1. Elsewhere(r, f)
    BY <1>2 DEF Elsewhere
  <2>2. \A g \in Folders \ {f} : part'[g] = part[g]
    BY <1>1 DEF PreviewTypeOK
  <2>3. watcher'[r].pc = "off"
    BY <1>2
  <2> QED BY <1>1, <1>4, <2>1, <2>2, <2>3, OthersWriteApart
<1>7. FilesAreThere'
  <2>1. \A q \in Watchers :
          /\ watcher'[q].pc # "off" => watcher'[q].to \in Folders /\ watcher'[q].cam \in homes[watcher'[q].to]
          /\ watcher'[q].pc = "commit" => file[watcher'[q].to] # "none"
    BY <1>2 DEF FilesAreThere
  <2> QED BY <1>1, <2>1 DEF FilesAreThere
<1> QED BY <1>5, <1>6, <1>7

\* The API process ends: nobody writes any more.
LEMMA PreviewCrashes ==
    ASSUME PreviewIInv, Crash
    PROVE  PreviewIInv'
<1> USE DEF PreviewIInv
<1>1. watcher' = [r \in Watchers |-> NoWatcher] /\ UNCHANGED <<folder, homes, row, file, part, clash>>
  BY DEF Crash
<1>2. watcher' \in [Watchers -> WatcherSlots] /\ \A r \in Watchers : watcher'[r].pc = "off"
  BY <1>1, NoWatcherIsASlot
<1>3. PreviewTypeOK'
  BY <1>1, <1>2 DEF PreviewTypeOK, WatcherSlots
<1>4. WritesApart' /\ FilesAreThere'
  BY <1>1, <1>2 DEF WritesApart, FilesAreThere
<1> QED BY <1>3, <1>4

LEMMA PreviewSteps == PreviewIInv /\ [PreviewNext]_previewVars => PreviewIInv'
<1> SUFFICES ASSUME PreviewIInv, [PreviewNext]_previewVars PROVE PreviewIInv'
  OBVIOUS
<1>1. CASE \E c \in PreviewCams, f \in Folders : Rename(c, f)
  BY <1>1, PreviewRenames
<1>2. CASE \E r \in Watchers : NoImage(r) \/ NotePath(r) \/ \E c \in PreviewCams : Ask(r, c)
  BY <1>2, PreviewAnswers
<1>3. CASE \E r \in Watchers : OpenPart(r)
  BY <1>3, PreviewOpens
<1>4. CASE \E r \in Watchers : WriteBytes(r)
  BY <1>4, PreviewWrites
<1>5. CASE \E r \in Watchers : Replace(r)
  BY <1>5, PreviewReplaces
<1>6. CASE \E r \in Watchers : WriteFails(r)
  BY <1>6, PreviewFails
<1>7. CASE Crash
  BY <1>7, PreviewCrashes
<1>8. CASE UNCHANGED previewVars
  <2>1. UNCHANGED <<folder, homes, row, file, part, clash, watcher>>
    BY <1>8 DEF previewVars
  <2> QED BY <2>1 DEF PreviewIInv, PreviewTypeOK, WritesApart, FilesAreThere, Writing
<1> QED BY <1>1, <1>2, <1>3, <1>4, <1>5, <1>6, <1>7, <1>8 DEF PreviewNext

\* A path in a row leads to an image: whole, unless two wrote at once, and of
\* that camera, unless another had its folder (storage/service.py).
THEOREM PathsLeadToImages == PreviewSpec => []PreviewInv
<1>1. PreviewInit => PreviewIInv
  BY PreviewBegins
<1>2. PreviewIInv /\ [PreviewNext]_previewVars => PreviewIInv'
  BY PreviewSteps
<1>3. PreviewIInv => PreviewInv
  <2> SUFFICES ASSUME PreviewIInv, NEW c \in PreviewCams, row[c] # "none"
               PROVE  /\ file[row[c]] # "none"
                      /\ row[c] \notin clash => file[row[c]] # "torn" /\ (homes[row[c]] = {c} => file[row[c]] = c)
    BY DEF PreviewIInv, PreviewInv, PreviewsAreSound
  <2>1. file[row[c]] # "none" /\ row[c] \in Folders
    BY DEF PreviewIInv, FilesAreThere, PreviewTypeOK
  <2>2. homes[row[c]] \subseteq PreviewCams
    BY <2>1 DEF PreviewIInv, PreviewTypeOK
  <2>3. row[c] \notin clash => file[row[c]] \in homes[row[c]]
    BY <2>1 DEF PreviewIInv, FilesAreThere
  <2> QED BY <2>1, <2>2, <2>3, CameraPreviewAssumption
<1> QED BY <1>1, <1>2, <1>3, PTL DEF PreviewSpec

-----------------------------------------------------------------------------
(* The geometry of a breach.  Fractions are pairs of a numerator and a      *)
(* denominator above 0.                                                    *)

\* A set of numbers that is not empty has a least member.
LEMMA LeastNumber ==
    ASSUME NEW T \in SUBSET Nat, T # {}
    PROVE  \E x \in T : \A y \in T : x <= y
<1> DEFINE R == OpToRel(<, Nat)
<1>1. IsWellFoundedOn(R, Nat)
  BY NatLessThanWellFounded
<1>2. \A x, y \in Nat : <<y, x>> \in R <=> y < x
  BY DEF OpToRel
<1> HIDE DEF R
<1>3. PICK x \in T : \A y \in T : ~(<<y, x>> \in R)
  BY <1>1, WFMin
<1>4. ASSUME NEW y \in T PROVE x <= y
  <2>1. x \in Nat /\ y \in Nat
    OBVIOUS
  <2>2. ~(y < x)
    BY <1>2, <1>3, <2>1
  <2> QED BY <2>1, <2>2
<1> QED BY <1>4

LEMMA Lagrange ==
    ASSUME NEW u1 \in Int, NEW u2 \in Int, NEW v1 \in Int, NEW v2 \in Int
    PROVE  (v1 * u2 - v2 * u1) * (v1 * u2 - v2 * u1) + (u1 * v1 + u2 * v2) * (u1 * v1 + u2 * v2)
             = (u1 * u1 + u2 * u2) * (v1 * v1 + v2 * v2)
OBVIOUS

LEMMA Square == ASSUME NEW x \in Int PROVE x * x \in Int /\ x * x >= 0 /\ (x * x = 0 => x = 0)
OBVIOUS

\* m <= n if c * m <= c * n and c > 0
LEMMA Cancel ==
    ASSUME NEW c \in Int, c > 0, NEW m \in Int, NEW n \in Int, c * m <= c * n
    PROVE  m <= n
OBVIOUS

LEMMA Scale ==
    ASSUME NEW c \in Int, c >= 0, NEW m \in Int, NEW n \in Int, m <= n
    PROVE  c * m <= c * n
OBVIOUS

\* A fraction that is at most another is within what the other is within.
LEMMA WithinToo ==
    ASSUME NEW m \in Int, NEW d \in Int, NEW n \in Int, NEW e \in Int, d > 0, e > 0,
           NEW w \in Int, NEW r \in Int, w >= 0,
           m * e <= n * d, w * n <= r * e
    PROVE  w * m <= r * d
<1>1. w * (m * e) <= w * (n * d)
  BY Scale
<1>2. d * (w * n) <= d * (r * e)
  BY Scale
<1>3. e * (w * m) <= e * (r * d)
  BY <1>1, <1>2
<1> QED BY <1>3, Cancel

Points == Int \X Int

\* The squares that SegmentDistance is made of, in the coordinates u of p and
\* v of b as seen from a.
LEMMA Squares ==
    ASSUME NEW p \in Points, NEW a \in Points, NEW b \in Points
    PROVE  LET pa == Dot(a, p, p)  pb == Dot(b, p, p)  ab == Dot(a, b, b)
               along == Dot(a, b, p)  off == Cross(a, b, p)
           IN  /\ pa \in Int /\ pb \in Int /\ ab \in Int /\ along \in Int /\ off \in Int
               /\ pa >= 0 /\ pb >= 0 /\ ab >= 0
               /\ pb = pa - 2 * along + ab
               /\ Dot(b, a, p) = ab - along
               /\ off * off = pa * ab - along * along
               /\ off * off = pb * ab - (ab - along) * (ab - along)
               /\ a # b => ab > 0
               /\ a = b => ab = 0 /\ along = 0 /\ off = 0
<1> DEFINE u1 == p[1] - a[1]
           u2 == p[2] - a[2]
           v1 == b[1] - a[1]
           v2 == b[2] - a[2]
<1>1. /\ p[1] \in Int /\ p[2] \in Int /\ a[1] \in Int /\ a[2] \in Int /\ b[1] \in Int /\ b[2] \in Int
      /\ (a = b) <=> (a[1] = b[1] /\ a[2] = b[2])
  BY DEF Points
<1>2. /\ u1 \in Int /\ u2 \in Int /\ v1 \in Int /\ v2 \in Int
      /\ p[1] - b[1] = u1 - v1 /\ p[2] - b[2] = u2 - v2
      /\ a[1] - b[1] = -v1 /\ a[2] - b[2] = -v2
      /\ a = b <=> v1 = 0 /\ v2 = 0
  <2>1. ASSUME NEW x \in Int, NEW y \in Int, NEW z \in Int
        PROVE  /\ y - x \in Int /\ x - y = -(y - x) /\ z - y = (z - x) - (y - x)
               /\ x = y <=> y - x = 0
    OBVIOUS
  <2>2. /\ v1 \in Int /\ a[1] - b[1] = -v1 /\ p[1] - b[1] = u1 - v1 /\ (a[1] = b[1] <=> v1 = 0)
        /\ v2 \in Int /\ a[2] - b[2] = -v2 /\ p[2] - b[2] = u2 - v2 /\ (a[2] = b[2] <=> v2 = 0)
    <3>1. /\ v1 \in Int /\ a[1] - b[1] = -v1 /\ p[1] - b[1] = u1 - v1 /\ (a[1] = b[1] <=> v1 = 0)
      BY <1>1, <2>1
    <3>2. /\ v2 \in Int /\ a[2] - b[2] = -v2 /\ p[2] - b[2] = u2 - v2 /\ (a[2] = b[2] <=> v2 = 0)
      BY <1>1, <2>1
    <3> QED BY <3>1, <3>2
  <2> QED BY <1>1, <2>1, <2>2
<1>3. /\ Dot(a, p, p) = u1 * u1 + u2 * u2
      /\ Dot(b, p, p) = (u1 - v1) * (u1 - v1) + (u2 - v2) * (u2 - v2)
      /\ Dot(a, b, b) = v1 * v1 + v2 * v2
      /\ Dot(a, b, p) = v1 * u1 + v2 * u2
      /\ Dot(b, a, p) = (-v1) * (u1 - v1) + (-v2) * (u2 - v2)
      /\ Cross(a, b, p) = v1 * u2 - v2 * u1
  BY <1>2 DEF Dot, Cross
<1> HIDE DEF u1, u2, v1, v2
<1>4. /\ u1 * u1 >= 0 /\ u2 * u2 >= 0 /\ v1 * v1 >= 0 /\ v2 * v2 >= 0
      /\ (u1 - v1) * (u1 - v1) >= 0 /\ (u2 - v2) * (u2 - v2) >= 0
      /\ v1 * v1 = 0 => v1 = 0
      /\ v2 * v2 = 0 => v2 = 0
  BY <1>2, Square
<1>5. Dot(b, a, p) = Dot(a, b, b) - Dot(a, b, p)
  BY <1>2, <1>3
<1>6. Dot(b, p, p) = Dot(a, p, p) - 2 * Dot(a, b, p) + Dot(a, b, b)
  BY <1>2, <1>3
<1>7. Cross(a, b, p) * Cross(a, b, p)
        = Dot(a, p, p) * Dot(a, b, b) - Dot(a, b, p) * Dot(a, b, p)
  BY <1>2, <1>3, Lagrange
<1>8. /\ Dot(a, p, p) \in Int /\ Dot(b, p, p) \in Int /\ Dot(a, b, b) \in Int
      /\ Dot(a, b, p) \in Int /\ Cross(a, b, p) \in Int
  BY <1>2, <1>3
<1>9. Cross(a, b, p) * Cross(a, b, p)
        = Dot(b, p, p) * Dot(a, b, b)
            - (Dot(a, b, b) - Dot(a, b, p)) * (Dot(a, b, b) - Dot(a, b, p))
  BY <1>6, <1>7, <1>8
<1>10. /\ Dot(a, p, p) >= 0 /\ Dot(b, p, p) >= 0 /\ Dot(a, b, b) >= 0
       /\ a # b => Dot(a, b, b) > 0
       /\ a = b => Dot(a, b, b) = 0 /\ Dot(a, b, p) = 0 /\ Cross(a, b, p) = 0
  BY <1>2, <1>3, <1>4
<1> QED BY <1>5, <1>6, <1>7, <1>8, <1>9, <1>10

\* The distance from an edge is within a bound, w * distance^2 <= r, just when
\* p is on the disc around one of its ends or in the band along it.
LEMMA EdgeWithin ==
    ASSUME NEW p \in Points, NEW a \in Points, NEW b \in Points,
           NEW w \in Int, NEW r \in Int, w > 0, r >= 0
    PROVE  LET square == SegmentDistance(p, a, b)
           IN  /\ square[1] \in Int /\ square[2] \in Int /\ square[2] > 0
               /\ w * square[1] <= r * square[2] <=>
                    \/ w * Dot(a, p, p) <= r
                    \/ w * Dot(b, p, p) <= r
                    \/ /\ Dot(a, b, p) > 0 /\ Dot(b, a, p) > 0
                       /\ w * (Cross(a, b, p) * Cross(a, b, p)) <= r * Dot(a, b, b)
<1> DEFINE pa == Dot(a, p, p)
           pb == Dot(b, p, p)
           ab == Dot(a, b, b)
           along == Dot(a, b, p)
           off == Cross(a, b, p)
<1>1. /\ pa \in Int /\ pb \in Int /\ ab \in Int /\ along \in Int /\ off \in Int
      /\ pa >= 0 /\ pb >= 0 /\ ab >= 0
      /\ pb = pa - 2 * along + ab
      /\ Dot(b, a, p) = ab - along
      /\ off * off = pa * ab - along * along
      /\ off * off = pb * ab - (ab - along) * (ab - along)
      /\ a # b => ab > 0
      /\ a = b => ab = 0 /\ along = 0 /\ off = 0
  BY Squares
<1>2. SegmentDistance(p, a, b) =
        IF a = b \/ along <= 0 THEN <<pa, 1>>
        ELSE IF along >= ab THEN <<pb, 1>> ELSE <<off * off, ab>>
  <2>1. CASE a = b \/ along <= 0
    BY <2>1, <1>1 DEF SegmentDistance
  <2>2. CASE a # b /\ along > 0 /\ along >= ab
    BY <2>2, <1>1 DEF SegmentDistance
  <2>3. CASE a # b /\ along > 0 /\ along < ab
    BY <2>3, <1>1 DEF SegmentDistance
  <2> QED BY <2>1, <2>2, <2>3, <1>1
<1> SUFFICES
      LET square == SegmentDistance(p, a, b)
      IN  /\ square[1] \in Int /\ square[2] \in Int /\ square[2] > 0
          /\ w * square[1] <= r * square[2] <=>
               \/ w * pa <= r
               \/ w * pb <= r
               \/ along > 0 /\ Dot(b, a, p) > 0 /\ w * (off * off) <= r * ab
  OBVIOUS
<1> HIDE DEF pa, pb, ab, along, off
<1>3. CASE a = b \/ along <= 0
  <2>1. pa <= pb /\ ~(along > 0)
    BY <1>1, <1>3
  <2>2. w * pa <= w * pb
    BY <2>1, <1>1, Scale
  <2>3. w * pa \in Int /\ w * pb \in Int /\ r * 1 = r
    BY <1>1
  <2> QED BY <2>1, <2>2, <2>3, <1>1, <1>2, <1>3
<1>4. CASE a # b /\ along > 0 /\ along >= ab
  <2>1. pb <= pa /\ ~(ab - along > 0)
    BY <1>1, <1>4
  <2>2. w * pb <= w * pa
    BY <2>1, <1>1, Scale
  <2>3. w * pa \in Int /\ w * pb \in Int /\ r * 1 = r
    BY <1>1
  <2> QED BY <2>1, <2>2, <2>3, <1>1, <1>2, <1>4
<1>5. CASE a # b /\ along > 0 /\ along < ab
  <2>1. ab > 0 /\ ab - along > 0
    BY <1>1, <1>5
  <2>2. along * along >= 0 /\ (ab - along) * (ab - along) >= 0
    BY <1>1, Square
  <2>3. off * off \in Int /\ off * off <= pa * ab /\ off * off <= pb * ab
    BY <1>1, <2>2
  <2>4. ASSUME NEW c \in Int, w * c <= r, off * off <= c * ab
        PROVE  w * (off * off) <= r * ab
    <3>1. off * off * 1 <= c * ab /\ ab * (w * c) <= ab * r
      BY <2>1, <2>3, <2>4, <1>1, Scale
    <3>2. w * (off * off) <= w * (c * ab)
      BY <2>3, <2>4, <1>1, Scale
    <3> QED BY <3>1, <3>2, <2>3, <1>1
  <2>5. w * pa <= r \/ w * pb <= r => w * (off * off) <= r * ab
    BY <2>3, <2>4, <1>1
  <2> QED BY <2>1, <2>3, <2>5, <1>1, <1>2, <1>5
<1> QED BY <1>1, <1>3, <1>4, <1>5

\* Of finitely many fractions one is the least.
LEMMA LeastFraction ==
    ASSUME NEW S, IsFiniteSet(S), S # {}, NEW num \in [S -> Int], NEW den \in [S -> Int],
           \A x \in S : den[x] > 0
    PROVE  \E x \in S : \A y \in S : num[x] * den[y] <= num[y] * den[x]
<1> DEFINE Least(T, x) == \A y \in T : num[x] * den[y] <= num[y] * den[x]
           Without == {T \in SUBSET S : T # {} /\ ~\E x \in T : Least(T, x)}
           R == StrictSubsetOrdering(S)
<1> SUFFICES ASSUME S \in Without PROVE FALSE
  OBVIOUS
<1>1. IsWellFoundedOn(R, SUBSET S)
  BY FS_StrictSubsetOrderingWellFounded, FS_FiniteSubsetsOfFinite
<1>2. \A T, U \in SUBSET S : T \subseteq U /\ T # U => <<T, U>> \in R
  BY DEF StrictSubsetOrdering
<1>3. Without \subseteq SUBSET S /\ Without # {}
  OBVIOUS
<1> HIDE DEF R
<1>4. PICK T \in Without : \A U \in Without : <<U, T>> \notin R
  <2> HIDE DEF Without
  <2> QED BY <1>1, <1>3, WFMin
<1>5. PICK x \in T : TRUE
  OBVIOUS
<1>6. T \ {x} \notin Without
  <2>1. T \ {x} \in SUBSET S /\ T \ {x} \subseteq T /\ T \ {x} # T
    BY <1>5
  <2>2. <<T \ {x}, T>> \in R
    BY <2>1, <1>2, <1>3
  <2> HIDE DEF Without
  <2> QED BY <2>2, <1>4
<1>7. \A y \in S : num[y] \in Int /\ den[y] \in Int /\ den[y] > 0
  OBVIOUS
<1>8. CASE T \ {x} = {}
  <2>1. T = {x}
    BY <1>5, <1>8
  <2>2. Least(T, x)
    BY <2>1, <1>7
  <2> QED BY <2>2, <1>5
<1>9. CASE T \ {x} # {}
  <2>1. PICK z \in T \ {x} : Least(T \ {x}, z)
    BY <1>6, <1>9
  <2>2. x \in S /\ z \in S /\ T \subseteq S
    BY <1>5
  <2>3. CASE num[z] * den[x] <= num[x] * den[z]
    <3>1. num[z] * den[z] <= num[z] * den[z]
      BY <1>7, <2>2
    <3>2. Least(T, z)
      BY <2>1, <2>3
    <3> QED BY <3>2, <2>1
  <2>4. CASE ~(num[z] * den[x] <= num[x] * den[z])
    <3>1. num[x] * den[z] <= num[z] * den[x]
      <4>1. num[x] * den[z] \in Int /\ num[z] * den[x] \in Int
        BY <1>7, <2>2
      <4> QED BY <4>1, <2>4
    <3>2. ASSUME NEW y \in T PROVE num[x] * den[y] <= num[y] * den[x]
      <4>1. CASE y = x
        BY <4>1, <1>7, <2>2
      <4>2. CASE y # x
        <5>1. num[z] * den[y] <= num[y] * den[z]
          BY <4>2, <2>1
        <5>2. y \in S
          OBVIOUS
        <5>3. num[x] * den[z] <= num[z] * den[x]
          BY <3>1
        <5>4. /\ num[x] \in Int /\ den[x] \in Int /\ den[x] > 0
              /\ num[y] \in Int /\ den[y] \in Int /\ den[y] > 0 /\ den[y] >= 0
              /\ num[z] \in Int /\ den[z] \in Int /\ den[z] > 0
          <6>1. \A n \in Int : n > 0 => n >= 0
            OBVIOUS
          <6> QED BY <6>1, <1>7, <2>2, <5>2
        <5>5. den[y] * num[z] <= num[y] * den[z]
          BY <5>1, <5>4
        <5>6. den[y] * num[x] <= num[y] * den[x]
          BY <5>3, <5>4, <5>5, WithinToo, Zenon
        <5> QED BY <5>4, <5>6
      <4> QED BY <4>1, <4>2
    <3>3. Least(T, x)
      BY <3>2
    <3> QED BY <3>3, <1>5
  <2> QED BY <2>3, <2>4
<1> QED BY <1>8, <1>9

\* A finite set of integers, not empty, has a greatest and a least member.
LEMMA MaxMin ==
    ASSUME NEW S \in SUBSET Int, IsFiniteSet(S), S # {}
    PROVE  /\ Max(S) \in S /\ \A y \in S : Max(S) >= y
           /\ Min(S) \in S /\ \A y \in S : Min(S) <= y
<1> DEFINE up == [x \in S |-> x]
           down == [x \in S |-> -x]
           one == [x \in S |-> 1]
<1>1. up \in [S -> Int] /\ down \in [S -> Int] /\ one \in [S -> Int] /\ \A x \in S : one[x] > 0
  OBVIOUS
<1>2. \E x \in S : \A y \in S : x <= y
  <2>1. PICK x \in S : \A y \in S : up[x] * one[y] <= up[y] * one[x]
    <3> HIDE DEF up, one
    <3> QED BY <1>1, LeastFraction
  <2>2. \A y \in S : x * 1 <= y * 1
    BY <2>1
  <2> QED BY <2>2
<1>3. \E x \in S : \A y \in S : x >= y
  <2>1. PICK x \in S : \A y \in S : down[x] * one[y] <= down[y] * one[x]
    <3> HIDE DEF down, one
    <3> QED BY <1>1, LeastFraction
  <2>2. \A y \in S : (-x) * 1 <= (-y) * 1
    BY <2>1
  <2> QED BY <2>2
<1>4. Max(S) \in S /\ \A y \in S : Max(S) >= y
  BY <1>3 DEF Max
<1>5. Min(S) \in S /\ \A y \in S : Min(S) <= y
  BY <1>2 DEF Min
<1> QED BY <1>4, <1>5

Outlines == {o \in Seq(Int \X Int) : o # <<>>}

LEMMA Corners ==
    ASSUME NEW o \in Outlines
    PROVE  /\ Len(o) \in Nat \ {0} /\ DOMAIN o = 1 .. Len(o)
           /\ \A i \in DOMAIN o :
                /\ o[i] \in Points /\ NextPoint(o, i) \in Points
                /\ (i % Len(o)) + 1 \in DOMAIN o /\ NextPoint(o, i) = o[(i % Len(o)) + 1]
                /\ (i % Len(o)) + 1 = IF i = Len(o) THEN 1 ELSE i + 1
<1>1. Len(o) \in Nat \ {0} /\ DOMAIN o = 1 .. Len(o)
  BY DEF Outlines
<1>2. \A i \in DOMAIN o : o[i] \in Points
  BY DEF Outlines, Points
<1>3. ASSUME NEW i \in DOMAIN o
      PROVE  (i % Len(o)) + 1 = IF i = Len(o) THEN 1 ELSE i + 1
  BY <1>1
<1>4. ASSUME NEW i \in DOMAIN o PROVE (i % Len(o)) + 1 \in DOMAIN o
  BY <1>1, <1>3
<1> QED BY <1>1, <1>2, <1>3, <1>4 DEF NextPoint

Coordinates(o, axis) == {o[i][axis] : i \in DOMAIN o}

LEMMA CoordinatesFinite ==
    ASSUME NEW o \in Outlines, NEW axis \in {1, 2}
    PROVE  /\ Coordinates(o, axis) \in SUBSET Int /\ Coordinates(o, axis) # {}
           /\ IsFiniteSet(Coordinates(o, axis))
<1> DEFINE f == [i \in 1 .. Len(o) |-> o[i][axis]]
<1>1. DOMAIN o = 1 .. Len(o) /\ Len(o) \in Nat \ {0} /\ \A i \in DOMAIN o : o[i][axis] \in Int
  BY Corners DEF Points
<1>2. IsFiniteSet(1 .. Len(o))
  BY <1>1, FS_Interval
<1>3. f \in Surjection(1 .. Len(o), Coordinates(o, axis))
  BY <1>1 DEF Surjection, Coordinates
<1>4. IsFiniteSet(Coordinates(o, axis))
  <2> HIDE DEF f
  <2> QED BY <1>2, <1>3, FS_Surjection
<1>5. Coordinates(o, axis) \in SUBSET Int /\ Coordinates(o, axis) # {}
  BY <1>1 DEF Coordinates
<1> QED BY <1>4, <1>5

LEMMA SpanIsInt ==
    ASSUME NEW o \in Outlines
    PROVE  MaxSpan(o) \in Int
<1> DEFINE Span(axis) == Max(Coordinates(o, axis)) - Min(Coordinates(o, axis))
<1>1. MaxSpan(o) = Max({Span(1), Span(2)})
  BY DEF MaxSpan, Coordinates
<1>2. ASSUME NEW axis \in {1, 2} PROVE Span(axis) \in Int
  <2>1. Max(Coordinates(o, axis)) \in Int /\ Min(Coordinates(o, axis)) \in Int
    BY CoordinatesFinite, MaxMin
  <2> QED BY <2>1
<1>3. Span(1) \in Int /\ Span(2) \in Int
  BY <1>2
<1> HIDE DEF Span
<1>4. Max({Span(1), Span(2)}) \in {Span(1), Span(2)}
  BY <1>3 DEF Max
<1> QED BY <1>1, <1>3, <1>4

\* The distance from the outline is within a bound just when p is inside, on
\* the disc around a corner or in the band along an edge.
LEMMA DistanceWithin ==
    ASSUME NEW p \in Points, NEW o \in Outlines, NEW w \in Int, NEW r \in Int, w > 0, r >= 0
    PROVE  LET d == DistanceToPolygon(p, o)
           IN  /\ d[1] \in Int /\ d[2] \in Int /\ d[2] > 0
               /\ w * d[1] <= r * d[2] <=>
                    \/ PointInPolygon(p, o)
                    \/ \E i \in DOMAIN o :
                         LET a == o[i]  b == NextPoint(o, i)
                         IN  \/ w * Dot(a, p, p) <= r
                             \/ /\ Dot(a, b, p) > 0 /\ Dot(b, a, p) > 0
                                /\ w * (Cross(a, b, p) * Cross(a, b, p)) <= r * Dot(a, b, b)
<1> DEFINE d == DistanceToPolygon(p, o)
           Sq(i) == SegmentDistance(p, o[i], NextPoint(o, i))
           OnCorner(a) == w * Dot(a, p, p) <= r
           Along(a, b) == /\ Dot(a, b, p) > 0 /\ Dot(b, a, p) > 0
                          /\ w * (Cross(a, b, p) * Cross(a, b, p)) <= r * Dot(a, b, b)
           Close == \E i \in DOMAIN o : OnCorner(o[i]) \/ Along(o[i], NextPoint(o, i))
<1> SUFFICES /\ d[1] \in Int /\ d[2] \in Int /\ d[2] > 0
             /\ w * d[1] <= r * d[2] <=> PointInPolygon(p, o) \/ Close
  OBVIOUS
<1>1. ASSUME NEW i \in DOMAIN o
      PROVE  /\ Sq(i)[1] \in Int /\ Sq(i)[2] \in Int /\ Sq(i)[2] > 0
             /\ w * Sq(i)[1] <= r * Sq(i)[2] <=>
                  OnCorner(o[i]) \/ OnCorner(NextPoint(o, i)) \/ Along(o[i], NextPoint(o, i))
  <2>1. o[i] \in Points /\ NextPoint(o, i) \in Points
    BY Corners
  <2> QED BY <2>1, EdgeWithin
<1>2. CASE PointInPolygon(p, o)
  <2>1. d = <<0, 1>>
    BY <1>2 DEF DistanceToPolygon
  <2> HIDE DEF d, Close
  <2> QED BY <2>1, <1>2
<1>3. CASE ~PointInPolygon(p, o)
  <2> DEFINE squares == {Sq(i) : i \in DOMAIN o}
             num == [i \in DOMAIN o |-> Sq(i)[1]]
             den == [i \in DOMAIN o |-> Sq(i)[2]]
  <2> HIDE DEF Sq
  <2>1. PICK k \in DOMAIN o : \A i \in DOMAIN o : num[k] * den[i] <= num[i] * den[k]
    <3>1. IsFiniteSet(DOMAIN o) /\ DOMAIN o # {}
      <4>1. DOMAIN o = 1 .. Len(o) /\ Len(o) \in Nat \ {0}
        BY Corners
      <4>2. IsFiniteSet(1 .. Len(o))
        BY <4>1, FS_Interval
      <4> QED BY <4>1, <4>2
    <3>2. /\ num \in [DOMAIN o -> Int] /\ den \in [DOMAIN o -> Int]
          /\ \A i \in DOMAIN o : den[i] > 0
      BY <1>1
    <3> HIDE DEF num, den
    <3> QED BY <3>1, <3>2, LeastFraction
  <2>2. \E x \in squares : \A e \in squares : x[1] * e[2] <= e[1] * x[2]
    <3>1. Sq(k) \in squares /\ \A i \in DOMAIN o : Sq(k)[1] * Sq(i)[2] <= Sq(i)[1] * Sq(k)[2]
      BY <2>1
    <3> QED BY <3>1
  <2>3. d = CHOOSE x \in squares : \A e \in squares : x[1] * e[2] <= e[1] * x[2]
    BY <1>3 DEF DistanceToPolygon, Sq
  <2>4. d \in squares /\ \A e \in squares : d[1] * e[2] <= e[1] * d[2]
    <3> HIDE DEF d, squares
    <3> QED BY <2>2, <2>3
  <2> HIDE DEF d
  <2>5. PICK m \in DOMAIN o : d = Sq(m)
    BY <2>4
  <2>6. d[1] \in Int /\ d[2] \in Int /\ d[2] > 0
    BY <1>1, <2>5
  <2>7. ASSUME w * d[1] <= r * d[2] PROVE Close
    <3>1. OnCorner(o[m]) \/ OnCorner(NextPoint(o, m)) \/ Along(o[m], NextPoint(o, m))
      BY <2>5, <2>7, <1>1
    <3>2. \E j \in DOMAIN o : NextPoint(o, m) = o[j]
      BY Corners
    <3> HIDE DEF OnCorner, Along
    <3> QED BY <3>1, <3>2
  <2>8. ASSUME NEW i \in DOMAIN o, OnCorner(o[i]) \/ Along(o[i], NextPoint(o, i))
        PROVE  w * d[1] <= r * d[2]
    <3>1. w * Sq(i)[1] <= r * Sq(i)[2]
      <4> HIDE DEF OnCorner, Along
      <4> QED BY <2>8, <1>1
    <3>2. d[1] * Sq(i)[2] <= Sq(i)[1] * d[2]
      BY <2>4
    <3>3. Sq(i)[1] \in Int /\ Sq(i)[2] \in Int /\ Sq(i)[2] > 0
      BY <1>1
    <3>4. w >= 0
      OBVIOUS
    <3>5. PICK n \in Int, e \in Int, x \in Int, y \in Int :
             n = Sq(i)[1] /\ e = Sq(i)[2] /\ x = d[1] /\ y = d[2]
      BY <3>3, <2>6
    <3>6. e > 0 /\ y > 0 /\ w * n <= r * e /\ x * e <= n * y
      BY <3>1, <3>2, <3>3, <3>5, <2>6
    <3>7. w * x <= r * y
      BY <3>4, <3>6, WithinToo
    <3> QED BY <3>5, <3>7
  <2>9. Close => w * d[1] <= r * d[2]
    <3> HIDE DEF OnCorner, Along
    <3> QED BY <2>8
  <2> HIDE DEF Close
  <2> QED BY <1>3, <2>6, <2>7, <2>9
<1> QED BY <1>2, <1>3

LEMMA Signs ==
    ASSUME NEW x \in Int, NEW y \in Int
    PROVE  /\ x * y \in Int
           /\ x > 0 /\ y > 0 => x * y > 0
           /\ x > 0 /\ y <= 0 => x * y <= 0
           /\ x <= 0 /\ y > 0 => x * y <= 0
           /\ x <= 0 /\ y <= 0 => x * y >= 0
OBVIOUS

\* The signs alone decide for all edges but those that pass p from below to
\* above or from its right to its left and have p on their line.
LEMMA RaysBySigns ==
    ASSUME NEW x1 \in Int, NEW y1 \in Int, NEW x2 \in Int, NEW y2 \in Int,
           NEW m \in Int, NEW n \in Int, NEW k \in Int, k = m - n,
           x1 > 0 /\ y2 > 0 => m > 0,   x1 > 0 /\ y2 <= 0 => m <= 0,
           x1 <= 0 /\ y2 > 0 => m <= 0, x1 <= 0 /\ y2 <= 0 => m >= 0,
           x2 > 0 /\ y1 > 0 => n > 0,   x2 > 0 /\ y1 <= 0 => n <= 0,
           x2 <= 0 /\ y1 > 0 => n <= 0, x2 <= 0 /\ y1 <= 0 => n >= 0,
           k # 0 \/ ~(x1 > 0 /\ y1 <= 0 /\ x2 <= 0),
           k # 0 \/ ~(x1 <= 0 /\ y1 <= 0 /\ x2 > 0 /\ y2 > 0)
    PROVE  (((y1 > 0) # (y2 > 0) /\ (y2 > y1) = (k > 0) /\ k # 0)
               # ((x1 > 0) # (x2 > 0) /\ (x1 < x2) = (k < 0)))
             = ((x1 > 0 /\ y1 > 0) # (x2 > 0 /\ y2 > 0))
<1>1. CASE x1 > 0 /\ y1 > 0
  <2>1. CASE x2 > 0 /\ y2 > 0
    BY <1>1, <2>1
  <2>2. CASE x2 > 0 /\ y2 <= 0
    BY <1>1, <2>2
  <2>3. CASE x2 <= 0 /\ y2 > 0
    BY <1>1, <2>3
  <2>4. CASE x2 <= 0 /\ y2 <= 0
    BY <1>1, <2>4
  <2> QED BY <2>1, <2>2, <2>3, <2>4
<1>2. CASE x1 > 0 /\ y1 <= 0
  <2>1. CASE x2 > 0 /\ y2 > 0
    BY <1>2, <2>1
  <2>2. CASE x2 > 0 /\ y2 <= 0
    BY <1>2, <2>2
  <2>3. CASE x2 <= 0 /\ y2 > 0
    BY <1>2, <2>3
  <2>4. CASE x2 <= 0 /\ y2 <= 0
    BY <1>2, <2>4
  <2> QED BY <2>1, <2>2, <2>3, <2>4
<1>3. CASE x1 <= 0 /\ y1 > 0
  <2>1. CASE x2 > 0 /\ y2 > 0
    BY <1>3, <2>1
  <2>2. CASE x2 > 0 /\ y2 <= 0
    BY <1>3, <2>2
  <2>3. CASE x2 <= 0
    BY <1>3, <2>3
  <2> QED BY <2>1, <2>2, <2>3
<1>4. CASE x1 <= 0 /\ y1 <= 0
  <2>1. CASE x2 > 0 /\ y2 > 0
    BY <1>4, <2>1
  <2>2. CASE x2 > 0 /\ y2 <= 0
    BY <1>4, <2>2
  <2>3. CASE x2 <= 0
    BY <1>4, <2>3
  <2> QED BY <2>1, <2>2, <2>3
<1> QED BY <1>1, <1>2, <1>3, <1>4

\* Coordinates of the ends of an edge as seen from p, and which of the rays
\* from p the edge crosses; k is the cross product of the ends.
GoesRight(y1, y2, k) == (y1 > 0) # (y2 > 0) /\ (y2 > y1) = (k > 0) /\ k # 0
GoesUp(x1, x2, k) == (x1 > 0) # (x2 > 0) /\ (x1 < x2) = (k < 0)
Quadrant(x, y) == x > 0 /\ y > 0
Between(x1, y1, x2, y2) ==
    x1 * (x1 - x2) + y1 * (y1 - y2) > 0 /\ x2 * (x2 - x1) + y2 * (y2 - y1) > 0

\* Of an edge that does not go through p: just one of the two rays crosses it
\* when just one of its ends is above and to the right of p.
LEMMA RaysOfEdge ==
    ASSUME NEW x1 \in Int, NEW y1 \in Int, NEW x2 \in Int, NEW y2 \in Int,
           NEW k \in Int, k = x1 * y2 - x2 * y1
    PROVE  \/ (GoesRight(y1, y2, k) # GoesUp(x1, x2, k)) = (Quadrant(x1, y1) # Quadrant(x2, y2))
           \/ x1 = 0 /\ y1 = 0
           \/ x2 = 0 /\ y2 = 0
           \/ k = 0 /\ Between(x1, y1, x2, y2)
<1> DEFINE m == x1 * y2
           n == x2 * y1
           right == (y1 > 0) # (y2 > 0) /\ (y2 > y1) = (k > 0) /\ k # 0
           up == (x1 > 0) # (x2 > 0) /\ (x1 < x2) = (k < 0)
           first == x1 > 0 /\ y1 > 0
           second == x2 > 0 /\ y2 > 0
           through == /\ k = 0
                      /\ x1 * (x1 - x2) + y1 * (y1 - y2) > 0
                      /\ x2 * (x2 - x1) + y2 * (y2 - y1) > 0
<1> SUFFICES ((right # up) = (first # second)) \/ (x1 = 0 /\ y1 = 0) \/ (x2 = 0 /\ y2 = 0) \/ through
  BY DEF GoesRight, GoesUp, Quadrant, Between
<1>1. /\ m \in Int /\ n \in Int /\ k = m - n
      /\ x1 > 0 /\ y2 > 0 => m > 0
      /\ x1 > 0 /\ y2 <= 0 => m <= 0
      /\ x1 <= 0 /\ y2 > 0 => m <= 0
      /\ x1 <= 0 /\ y2 <= 0 => m >= 0
      /\ x2 > 0 /\ y1 > 0 => n > 0
      /\ x2 > 0 /\ y1 <= 0 => n <= 0
      /\ x2 <= 0 /\ y1 > 0 => n <= 0
      /\ x2 <= 0 /\ y1 <= 0 => n >= 0
  BY Signs
<1>2. CASE k # 0 \/ (~(x1 > 0 /\ y1 <= 0 /\ x2 <= 0) /\ ~(x1 <= 0 /\ y1 <= 0 /\ x2 > 0 /\ y2 > 0))
  <2>1. (right # up) = (first # second)
    <3>1. /\ k # 0 \/ ~(x1 > 0 /\ y1 <= 0 /\ x2 <= 0)
          /\ k # 0 \/ ~(x1 <= 0 /\ y1 <= 0 /\ x2 > 0 /\ y2 > 0)
      BY <1>2
    <3>2. (right # up) = (first # second)
      <4> HIDE DEF m, n
      <4> QED BY <1>1, <3>1, RaysBySigns
    <3> QED BY <3>2
  <2> QED BY <2>1
<1>3. CASE k = 0 /\ x1 > 0 /\ y1 <= 0 /\ x2 <= 0
  <2>1. x1 * (x1 - x2) > 0 /\ x2 * (x2 - x1) >= 0 /\ (x2 < 0 => x2 * (x2 - x1) > 0)
    BY <1>3
  <2>2. CASE y2 > 0
    <3>1. y1 * (y1 - y2) >= 0 /\ y2 * (y2 - y1) > 0
      BY <1>3, <2>2
    <3> QED BY <1>3, <2>1, <3>1
  <2>3. CASE y2 <= 0
    <3>1. m = n /\ m <= 0 /\ n >= 0
      BY <1>1, <1>3, <2>3
    <3>2. y2 = 0
      BY <3>1, <1>3, <2>3
    <3>3. x2 = 0 \/ y1 = 0
      BY <3>1, <1>3
    <3>4. y1 * (y1 - y2) >= 0 /\ y2 * (y2 - y1) = 0
      BY <3>2, Square
    <3> QED BY <1>3, <2>1, <3>2, <3>4
  <2> QED BY <2>2, <2>3
<1>4. CASE k = 0 /\ x1 <= 0 /\ y1 <= 0 /\ x2 > 0 /\ y2 > 0
  <2>1. /\ x1 * (x1 - x2) >= 0 /\ (x1 < 0 => x1 * (x1 - x2) > 0)
        /\ y1 * (y1 - y2) >= 0 /\ (y1 < 0 => y1 * (y1 - y2) > 0)
        /\ x2 * (x2 - x1) > 0 /\ y2 * (y2 - y1) > 0
    BY <1>4
  <2> QED BY <1>4, <2>1
<1> QED BY <1>2, <1>3, <1>4

UpAndRight(p, a) == a[1] > p[1] /\ a[2] > p[2]
Through(p, a, b) == Cross(a, b, p) = 0 /\ Dot(a, b, p) > 0 /\ Dot(b, a, p) > 0

LEMMA EdgeRays ==
    ASSUME NEW p \in Points, NEW a \in Points, NEW b \in Points,
           p # a, p # b, ~Through(p, a, b)
    PROVE  (Crosses(p, a, b) # UpwardRay(p, a, b)) = (UpAndRight(p, a) # UpAndRight(p, b))
<1> DEFINE x1 == a[1] - p[1]
           y1 == a[2] - p[2]
           x2 == b[1] - p[1]
           y2 == b[2] - p[2]
           k == x1 * y2 - x2 * y1
<1>1. /\ p[1] \in Int /\ p[2] \in Int /\ a[1] \in Int /\ a[2] \in Int /\ b[1] \in Int /\ b[2] \in Int
      /\ ~(a[1] = p[1] /\ a[2] = p[2]) /\ ~(b[1] = p[1] /\ b[2] = p[2])
  BY DEF Points
<1>2. ASSUME NEW x \in Int, NEW y \in Int, NEW z \in Int
      PROVE  /\ x - z \in Int /\ z - x = -(x - z) /\ y - x = (y - z) - (x - z)
             /\ (x > z <=> x - z > 0) /\ (x = z <=> x - z = 0) /\ (x < y <=> x - z < y - z)
  OBVIOUS
<1>3. /\ x1 \in Int /\ y1 \in Int /\ x2 \in Int /\ y2 \in Int
      /\ ~(x1 = 0 /\ y1 = 0) /\ ~(x2 = 0 /\ y2 = 0)
      /\ p[1] - a[1] = -x1 /\ p[2] - a[2] = -y1 /\ p[1] - b[1] = -x2 /\ p[2] - b[2] = -y2
      /\ b[1] - a[1] = x2 - x1 /\ b[2] - a[2] = y2 - y1
      /\ a[1] - b[1] = x1 - x2 /\ a[2] - b[2] = y1 - y2
      /\ (a[1] > p[1] <=> x1 > 0) /\ (a[2] > p[2] <=> y1 > 0)
      /\ (b[1] > p[1] <=> x2 > 0) /\ (b[2] > p[2] <=> y2 > 0)
      /\ (a[1] < b[1] <=> x1 < x2) /\ (b[2] > a[2] <=> y2 > y1)
  <2>1. /\ x1 \in Int /\ p[1] - a[1] = -x1 /\ x2 \in Int /\ p[1] - b[1] = -x2
        /\ b[1] - a[1] = x2 - x1 /\ a[1] - b[1] = x1 - x2
    BY <1>1, <1>2
  <2>2. /\ y1 \in Int /\ p[2] - a[2] = -y1 /\ y2 \in Int /\ p[2] - b[2] = -y2
        /\ b[2] - a[2] = y2 - y1 /\ a[2] - b[2] = y1 - y2
    BY <1>1, <1>2
  <2>3. /\ (a[1] > p[1] <=> x1 > 0) /\ (b[1] > p[1] <=> x2 > 0) /\ (a[1] < b[1] <=> x1 < x2)
        /\ (a[1] = p[1] <=> x1 = 0) /\ (b[1] = p[1] <=> x2 = 0)
    BY <1>1, <1>2
  <2>4. /\ (a[2] > p[2] <=> y1 > 0) /\ (b[2] > p[2] <=> y2 > 0)
        /\ (b[2] > a[2] <=> y2 > y1)
        /\ (a[2] = p[2] <=> y1 = 0) /\ (b[2] = p[2] <=> y2 = 0)
    BY <1>1, <1>2
  <2> HIDE DEF x1, y1, x2, y2
  <2> QED BY <1>1, <2>1, <2>2, <2>3, <2>4
<1> HIDE DEF x1, y1, x2, y2
<1>4. /\ k \in Int
      /\ Cross(a, b, p) = k
      /\ (p[1] - a[1]) * (b[2] - a[2]) - (p[2] - a[2]) * (b[1] - a[1]) = -k
      /\ Dot(a, b, p) = x1 * (x1 - x2) + y1 * (y1 - y2)
      /\ Dot(b, a, p) = x2 * (x2 - x1) + y2 * (y2 - y1)
  <2>1. /\ Cross(a, b, p) = (x2 - x1) * (-y1) - (y2 - y1) * (-x1)
        /\ (p[1] - a[1]) * (b[2] - a[2]) - (p[2] - a[2]) * (b[1] - a[1])
             = (-x1) * (y2 - y1) - (-y1) * (x2 - x1)
        /\ Dot(a, b, p) = (x2 - x1) * (-x1) + (y2 - y1) * (-y1)
        /\ Dot(b, a, p) = (x1 - x2) * (-x2) + (y1 - y2) * (-y2)
    BY <1>3 DEF Cross, Dot
  <2> QED BY <2>1, <1>3
<1> HIDE DEF k
<1>5. Crosses(p, a, b) = GoesRight(y1, y2, k)
  <2>1. /\ ((a[2] > p[2]) # (b[2] > p[2])) = ((y1 > 0) # (y2 > 0))
        /\ ((b[2] > a[2]) = (-k < 0)) = ((y2 > y1) = (k > 0))
        /\ (-k # 0) = (k # 0)
    <3>1. ((-k < 0) <=> (k > 0)) /\ (-k # 0 <=> k # 0)
      BY <1>4
    <3> QED BY <1>3, <3>1
  <2> QED BY <1>4, <2>1 DEF Crosses, GoesRight
<1>6. UpwardRay(p, a, b) = GoesUp(x1, x2, k)
  <2>1. /\ (a[1] > p[1]) = (x1 > 0) /\ (b[1] > p[1]) = (x2 > 0)
        /\ (a[1] < b[1]) = (x1 < x2) /\ (Cross(a, b, p) < 0) = (k < 0)
    BY <1>3, <1>4
  <2> QED BY <2>1 DEF UpwardRay, GoesUp
<1>7. UpAndRight(p, a) = Quadrant(x1, y1) /\ UpAndRight(p, b) = Quadrant(x2, y2)
  BY <1>3 DEF UpAndRight, Quadrant
<1>8. ~(k = 0 /\ Between(x1, y1, x2, y2))
  BY <1>4 DEF Through, Between
<1>9. k = x1 * y2 - x2 * y1
  BY DEF k
<1>10. \/ (GoesRight(y1, y2, k) # GoesUp(x1, x2, k)) = (Quadrant(x1, y1) # Quadrant(x2, y2))
       \/ x1 = 0 /\ y1 = 0
       \/ x2 = 0 /\ y2 = 0
       \/ k = 0 /\ Between(x1, y1, x2, y2)
  BY <1>3, <1>4, <1>9, RaysOfEdge, Zenon
<1> QED BY <1>3, <1>5, <1>6, <1>7, <1>8, <1>10, Zenon

LEMMA Parity ==
    ASSUME NEW c \in Nat
    PROVE  /\ c % 2 \in {0, 1}
           /\ (c + 1) % 2 = 0 <=> c % 2 = 1
OBVIOUS

\* Once around the outline, one changes sides an even number of times.
LEMMA TurnsAreEven ==
    ASSUME NEW n \in Nat \ {0}, NEW g \in [1 .. n -> BOOLEAN]
    PROVE  Cardinality({i \in 1 .. n : g[i] # g[IF i = n THEN 1 ELSE i + 1]}) % 2 = 0
<1> DEFINE Turns(k) == {i \in 1 .. (k - 1) : g[i] # g[i + 1]}
           Even(k) == Cardinality(Turns(k)) % 2 = 0 <=> g[k] = g[1]
           Odd == {k \in 1 .. n : ~Even(k)}
           All == {i \in 1 .. n : g[i] # g[IF i = n THEN 1 ELSE i + 1]}
<1>1. ASSUME NEW k \in 1 .. n
      PROVE  IsFiniteSet(Turns(k)) /\ Cardinality(Turns(k)) \in Nat
  <2>1. IsFiniteSet(1 .. (k - 1)) /\ Turns(k) \in SUBSET (1 .. (k - 1))
    BY FS_Interval
  <2> HIDE DEF Turns
  <2> QED BY <2>1, FS_Subset, FS_CardinalityType
<1>2. Odd = {}
  <2> SUFFICES ASSUME Odd # {} PROVE FALSE
    OBVIOUS
  <2>1. Odd \in SUBSET Nat
    OBVIOUS
  <2>2. PICK k \in Odd : \A j \in Odd : k <= j
    <3> HIDE DEF Odd
    <3> QED BY <2>1, LeastNumber
  <2>3. k # 1
    <3>1. Turns(1) = {}
      OBVIOUS
    <3>2. Cardinality(Turns(1)) = 0
      <4> HIDE DEF Turns
      <4> QED BY <3>1, FS_EmptySet
    <3>3. Even(1)
      <4> HIDE DEF Turns
      <4> QED BY <3>2
    <3> HIDE DEF Even
    <3> QED BY <3>3
  <2>4. k - 1 \in 1 .. n /\ k \in 1 .. n /\ k - 1 \notin Odd
    <3>1. k \in 1 .. n
      OBVIOUS
    <3>2. k - 1 \in 1 .. n /\ ~(k <= k - 1)
      BY <2>3, <3>1
    <3> HIDE DEF Odd
    <3> QED BY <2>2, <3>1, <3>2
  <2>5. Even(k - 1) /\ ~Even(k)
    <3> HIDE DEF Even
    <3> QED BY <2>4
  <2>6. IsFiniteSet(Turns(k - 1)) /\ Cardinality(Turns(k - 1)) \in Nat
    BY <1>1, <2>4
  <2>7. CASE g[k - 1] = g[k]
    <3>1. Turns(k) = Turns(k - 1)
      BY <2>4, <2>7
    <3> HIDE DEF Turns
    <3> QED BY <2>5, <2>7, <3>1
  <2>8. CASE g[k - 1] # g[k]
    <3>1. Turns(k) = Turns(k - 1) \cup {k - 1} /\ k - 1 \notin Turns(k - 1)
      BY <2>4, <2>8
    <3>2. g[k] \in BOOLEAN /\ g[k - 1] \in BOOLEAN /\ g[1] \in BOOLEAN
      BY <2>4
    <3>3. g[k] = g[1] <=> g[k - 1] # g[1]
      BY <2>8, <3>2
    <3> HIDE DEF Turns
    <3>4. Cardinality(Turns(k)) = Cardinality(Turns(k - 1)) + 1
      BY <2>6, <3>1, FS_AddElement
    <3>5. /\ Cardinality(Turns(k - 1)) % 2 \in {0, 1}
          /\ Cardinality(Turns(k)) % 2 = 0 <=> Cardinality(Turns(k - 1)) % 2 = 1
      BY <2>6, <3>4, Parity
    <3> QED BY <2>5, <3>3, <3>5
  <2> QED BY <2>7, <2>8
<1>3. Even(n)
  <2> HIDE DEF Even
  <2> QED BY <1>2
<1>4. g[n] \in BOOLEAN /\ g[1] \in BOOLEAN
  OBVIOUS
<1>5. IsFiniteSet(Turns(n)) /\ Cardinality(Turns(n)) \in Nat
  BY <1>1
<1>6. CASE g[n] = g[1]
  <2>1. All = Turns(n)
    BY <1>6
  <2> HIDE DEF Turns, All
  <2>2. Cardinality(All) % 2 = 0
    BY <1>3, <1>6, <2>1
  <2> QED BY <2>2 DEF All
<1>7. CASE g[n] # g[1]
  <2>1. All = Turns(n) \cup {n} /\ n \notin Turns(n)
    BY <1>7
  <2> HIDE DEF Turns, All
  <2>2. Cardinality(All) = Cardinality(Turns(n)) + 1
    BY <1>5, <2>1, FS_AddElement
  <2>3. Cardinality(Turns(n)) % 2 = 1
    BY <1>3, <1>5, <1>7, Parity
  <2>4. Cardinality(All) % 2 = 0
    BY <1>5, <2>2, <2>3, Parity
  <2> QED BY <2>4 DEF All
<1> QED BY <1>6, <1>7

LEMMA DisjointUnion ==
    ASSUME NEW A, NEW B, IsFiniteSet(A), IsFiniteSet(B), A \cap B = {}
    PROVE  Cardinality(A \cup B) = Cardinality(A) + Cardinality(B)
<1>1. Cardinality(A \cap B) = 0
  BY FS_EmptySet
<1>2. Cardinality(A) \in Nat /\ Cardinality(B) \in Nat
  BY FS_CardinalityType
<1>3. Cardinality(A \cup B) = Cardinality(A) + Cardinality(B) - Cardinality(A \cap B)
  BY FS_Union
<1> QED BY <1>1, <1>2, <1>3

\* Sets that differ in an even number of members are both even or both odd.
LEMMA SameParity ==
    ASSUME NEW A, NEW B, IsFiniteSet(A), IsFiniteSet(B),
           Cardinality((A \ B) \cup (B \ A)) % 2 = 0
    PROVE  Cardinality(A) % 2 = 1 <=> Cardinality(B) % 2 = 1
<1> DEFINE C == A \cap B
           D == A \ B
           E == B \ A
<1>1. /\ C \in SUBSET A /\ D \in SUBSET A /\ E \in SUBSET B
      /\ A = D \cup C /\ D \cap C = {} /\ B = E \cup C /\ E \cap C = {} /\ D \cap E = {}
  OBVIOUS
<1>2. Cardinality(D \cup E) % 2 = 0
  OBVIOUS
<1> HIDE DEF C, D, E
<1>3. IsFiniteSet(C) /\ IsFiniteSet(D) /\ IsFiniteSet(E)
  BY <1>1, FS_Subset
<1>4. Cardinality(C) \in Nat /\ Cardinality(D) \in Nat /\ Cardinality(E) \in Nat
  BY <1>3, FS_CardinalityType
<1>5. /\ Cardinality(A) = Cardinality(D) + Cardinality(C)
      /\ Cardinality(B) = Cardinality(E) + Cardinality(C)
      /\ Cardinality(D \cup E) = Cardinality(D) + Cardinality(E)
  <2>1. Cardinality(D \cup C) = Cardinality(D) + Cardinality(C)
    BY <1>1, <1>3, DisjointUnion
  <2>2. Cardinality(E \cup C) = Cardinality(E) + Cardinality(C)
    BY <1>1, <1>3, DisjointUnion
  <2>3. Cardinality(D \cup E) = Cardinality(D) + Cardinality(E)
    BY <1>1, <1>3, DisjointUnion
  <2> QED BY <1>1, <2>1, <2>2, <2>3
<1>6. ASSUME NEW c \in Nat, NEW d \in Nat, NEW e \in Nat, (d + e) % 2 = 0
      PROVE  (d + c) % 2 = 1 <=> (e + c) % 2 = 1
  BY <1>6
<1> QED BY <1>2, <1>4, <1>5, <1>6

\* Of a point that is not on the outline, both rays tell whether it is inside:
\* _point_in_polygon (vehicles/geometry.py) does not depend on the direction it
\* looks in, whatever was drawn.
THEOREM RaysAgree ==
    ASSUME NEW p \in Points, NEW o \in Outlines,
           \A i \in DOMAIN o : p # o[i] /\ ~Through(p, o[i], NextPoint(o, i))
    PROVE  PointInPolygon(p, o) <=> InsideUpwards(p, o)
<1> DEFINE n == Len(o)
           g == [i \in 1 .. n |-> UpAndRight(p, o[i])]
           Right == {i \in DOMAIN o : Crosses(p, o[i], NextPoint(o, i))}
           Up == {i \in DOMAIN o : UpwardRay(p, o[i], NextPoint(o, i))}
           Turns == {i \in 1 .. n : g[i] # g[IF i = n THEN 1 ELSE i + 1]}
<1>1. n \in Nat \ {0} /\ DOMAIN o = 1 .. n
  BY Corners
<1>2. g \in [1 .. n -> BOOLEAN]
  BY DEF UpAndRight
<1>3. Cardinality(Turns) % 2 = 0
  <2> HIDE DEF n, g
  <2> QED BY <1>1, <1>2, TurnsAreEven
<1>4. ASSUME NEW i \in DOMAIN o
      PROVE  i \in Turns <=> (i \in Right) # (i \in Up)
  <2> DEFINE j == IF i = n THEN 1 ELSE i + 1
  <2>1. j \in DOMAIN o /\ NextPoint(o, i) = o[j] /\ o[i] \in Points /\ o[j] \in Points
    BY Corners
  <2>2. p # o[i] /\ p # o[j] /\ ~Through(p, o[i], o[j])
    BY <2>1
  <2> HIDE DEF j
  <2>3. (Crosses(p, o[i], o[j]) # UpwardRay(p, o[i], o[j])) = (UpAndRight(p, o[i]) # UpAndRight(p, o[j]))
    BY <2>1, <2>2, EdgeRays
  <2>4. i \in Turns <=> g[i] # g[j]
    BY <1>1 DEF j
  <2>5. g[i] = UpAndRight(p, o[i]) /\ g[j] = UpAndRight(p, o[j])
    BY <1>1, <2>1
  <2>6. (i \in Right) = Crosses(p, o[i], o[j]) /\ (i \in Up) = UpwardRay(p, o[i], o[j])
    <3>1. Crosses(p, o[i], o[j]) \in BOOLEAN /\ UpwardRay(p, o[i], o[j]) \in BOOLEAN
      BY DEF Crosses, UpwardRay
    <3>2. /\ i \in Right <=> Crosses(p, o[i], NextPoint(o, i))
          /\ i \in Up <=> UpwardRay(p, o[i], NextPoint(o, i))
      OBVIOUS
    <3> HIDE DEF Right, Up
    <3> QED BY <2>1, <3>1, <3>2
  <2> HIDE DEF Right, Up, Turns, g
  <2> QED BY <2>3, <2>4, <2>5, <2>6, Zenon
<1>5. Turns \subseteq DOMAIN o /\ Right \in SUBSET DOMAIN o /\ Up \in SUBSET DOMAIN o
  BY <1>1
<1>6. PointInPolygon(p, o) <=> Cardinality(Right) % 2 = 1
  BY DEF PointInPolygon
<1>7. InsideUpwards(p, o) <=> Cardinality(Up) % 2 = 1
  BY DEF InsideUpwards
<1>8. IsFiniteSet(1 .. n)
  BY <1>1, FS_Interval
<1> HIDE DEF Turns, Right, Up, n, g
<1>9. IsFiniteSet(Right) /\ IsFiniteSet(Up)
  BY <1>1, <1>5, <1>8, FS_Subset
<1>10. Turns = (Right \ Up) \cup (Up \ Right)
  BY <1>4, <1>5
<1> QED BY <1>3, <1>6, <1>7, <1>9, <1>10, SameParity

RealSetup(setup) ==
    setup.outline \in Outlines /\ setup.length \in Nat \ {0} /\ setup.threshold \in Nat \ {0}

\* Breaches, as a bound on the square of a distance.
LEMMA BreachBound ==
    ASSUME NEW setup, RealSetup(setup)
    PROVE  \E w \in Int, r \in Int :
             /\ w > 0 /\ r >= 0
             /\ w = Unit(setup) * Unit(setup) /\ r = Radius(setup) * Radius(setup)
             /\ \A n, d \in Int : Breaches(<<n, d>>, setup) <=> w * n <= r * d
<1> DEFINE l == setup.length
           t == setup.threshold
           s == MaxSpan(setup.outline)
           w == Unit(setup) * Unit(setup)
           r == Radius(setup) * Radius(setup)
<1>1. l \in Int /\ l > 0 /\ t \in Int /\ s \in Int
  BY SpanIsInt DEF RealSetup
<1>2. w = (10 * l) * (10 * l) /\ r = (t * s) * (t * s)
  BY DEF Unit, Radius
<1>3. ASSUME NEW n \in Int, NEW d \in Int
      PROVE  Breaches(<<n, d>>, setup) <=> 100 * n * l * l <= t * t * d * s * s
  BY DEF Breaches
<1> HIDE DEF l, t, s
<1>4. w \in Int /\ r \in Int /\ w > 0 /\ r >= 0
  <2>1. t * s \in Int /\ 10 * l \in Int /\ 10 * l > 0
    BY <1>1
  <2>2. (t * s) * (t * s) >= 0 /\ (t * s) * (t * s) \in Int
    BY <2>1, Square
  <2>3. (10 * l) * (10 * l) > 0 /\ (10 * l) * (10 * l) \in Int
    BY <2>1
  <2> HIDE DEF w, r
  <2> QED BY <1>2, <2>2, <2>3
<1>5. ASSUME NEW n \in Int, NEW d \in Int
      PROVE  Breaches(<<n, d>>, setup) <=> w * n <= r * d
  <2>1. 100 * n * l * l = ((10 * l) * (10 * l)) * n /\ t * t * d * s * s = ((t * s) * (t * s)) * d
    BY <1>1
  <2> HIDE DEF w, r
  <2> QED BY <1>2, <1>3, <2>1
<1> HIDE DEF w
<1> QED BY <1>4, <1>5 DEF w

\* The measured distance (distance_to_polygon, estimate_proximity) meets the
\* threshold just when the point is near, as NearIsBreach has it.
THEOREM BreachIsNear ==
    ASSUME NEW setup, RealSetup(setup), NEW p \in Points
    PROVE  LET d == DistanceToPolygon(p, setup.outline)
           IN  /\ d[1] \in Int /\ d[2] \in Int /\ d[2] > 0
               /\ Breaches(d, setup) <=> Near(p, setup)
<1> DEFINE o == setup.outline
           d == DistanceToPolygon(p, o)
<1>1. o \in Outlines
  BY DEF RealSetup
<1>2. PICK w \in Int, r \in Int :
        /\ w > 0 /\ r >= 0
        /\ w = Unit(setup) * Unit(setup) /\ r = Radius(setup) * Radius(setup)
        /\ \A n, e \in Int : Breaches(<<n, e>>, setup) <=> w * n <= r * e
  BY BreachBound
<1> DEFINE InReach(a, b) ==
             \/ w * Dot(a, p, p) <= r
             \/ /\ Dot(a, b, p) > 0 /\ Dot(b, a, p) > 0
                /\ w * (Cross(a, b, p) * Cross(a, b, p)) <= r * Dot(a, b, b)
<1> HIDE DEF o
<1>3. /\ d[1] \in Int /\ d[2] \in Int /\ d[2] > 0
      /\ w * d[1] <= r * d[2] <=>
           PointInPolygon(p, o) \/ \E i \in DOMAIN o : InReach(o[i], NextPoint(o, i))
  BY <1>1, <1>2, DistanceWithin
<1>4. ASSUME NEW a \in Points, NEW b \in Points
      PROVE  InReach(a, b) <=> OnDisc(p, a, setup) \/ InBand(p, a, b, setup)
  <2>1. Cross(a, b, p) \in Int /\ Dot(a, b, b) \in Int /\ Dot(a, p, p) \in Int
    BY Squares
  <2>2. w * (Cross(a, b, p) * Cross(a, b, p)) = w * Cross(a, b, p) * Cross(a, b, p)
    BY <2>1
  <2>3. OnDisc(p, a, setup) <=> w * Dot(a, p, p) <= r
    BY <1>2 DEF OnDisc
  <2>4. InBand(p, a, b, setup) <=>
          /\ Dot(a, b, p) > 0 /\ Dot(b, a, p) > 0
          /\ w * Cross(a, b, p) * Cross(a, b, p) <= r * Dot(a, b, b)
    BY <1>2 DEF InBand
  <2> QED BY <2>2, <2>3, <2>4
<1> HIDE DEF InReach
<1>5. NearAnEdge(p, setup) <=> \E i \in DOMAIN o : InReach(o[i], NextPoint(o, i))
  <2>1. \A i \in DOMAIN o :
          InReach(o[i], NextPoint(o, i))
            <=> OnDisc(p, o[i], setup) \/ InBand(p, o[i], NextPoint(o, i), setup)
    BY <1>1, <1>4, Corners
  <2> QED BY <2>1 DEF NearAnEdge, o
<1>6. ~NearAnEdge(p, setup) => (PointInPolygon(p, o) <=> InsideUpwards(p, o))
  <2> SUFFICES ASSUME ~NearAnEdge(p, setup)
               PROVE  PointInPolygon(p, o) <=> InsideUpwards(p, o)
    OBVIOUS
  <2>1. ASSUME NEW i \in DOMAIN o
        PROVE  p # o[i] /\ ~Through(p, o[i], NextPoint(o, i))
    <3>1. o[i] \in Points /\ NextPoint(o, i) \in Points /\ ~InReach(o[i], NextPoint(o, i))
      BY <1>1, <1>5, Corners
    <3>2. PICK a \in Points, b \in Points : a = o[i] /\ b = NextPoint(o, i)
      BY <3>1
    <3>3. p # a
      <4> SUFFICES ASSUME p = a PROVE FALSE
        OBVIOUS
      <4>1. Dot(a, p, p) = 0
        <5>1. p[1] \in Int /\ p[2] \in Int
          BY DEF Points
        <5> QED BY <5>1 DEF Dot
      <4>2. w * 0 <= r
        BY <1>2
      <4> QED BY <3>1, <3>2, <4>1, <4>2 DEF InReach
    <3>4. ~Through(p, a, b)
      <4> SUFFICES ASSUME Through(p, a, b) PROVE FALSE
        OBVIOUS
      <4>1. Dot(a, b, b) \in Int /\ Dot(a, b, b) >= 0
        BY Squares
      <4>2. w * (0 * 0) <= r * Dot(a, b, b)
        BY <1>2, <4>1
      <4> QED BY <3>1, <3>2, <4>2 DEF InReach, Through
    <3> QED BY <3>2, <3>3, <3>4
  <2> QED BY <1>1, <2>1, RaysAgree
<1>7. Breaches(d, setup) <=> w * d[1] <= r * d[2]
  <2>1. PICK n \in Int, e \in Int : n = d[1] /\ e = d[2]
    BY <1>3
  <2>2. Breaches(d, setup) <=> Breaches(<<n, e>>, setup)
    BY <2>1 DEF Breaches
  <2> QED BY <1>2, <2>1, <2>2
<1>8. Near(p, setup) <=> InsideUpwards(p, o) \/ NearAnEdge(p, setup)
  BY DEF Near, o
<1> QED BY <1>3, <1>5, <1>6, <1>7, <1>8 DEF o

IsFraction(f) == f[1] \in Int /\ f[2] \in Int /\ f[2] > 0

\* What can be rounded to: the numbers of tenths up to the end of the range.
Roundings(square) ==
    {0} \cup {n \in 1 .. (square[1] \div square[2]) \div 200 + 51 : Reaches(square, n)}

\* The number of tenths is the greatest of them.
LEMMA RoundedIsOne ==
    ASSUME NEW x, IsFraction(x)
    PROVE  /\ Rounded(x) \in Roundings(x) /\ Rounded(x) \in Int
           /\ \A n \in Roundings(x) : n <= Rounded(x)
<1>1. PICK m \in Int : m = (x[1] \div x[2]) \div 200 + 51
  BY DEF IsFraction
<1>2. Roundings(x) \in SUBSET (0 .. m) \/ Roundings(x) = {0}
  BY <1>1 DEF Roundings
<1>3. Roundings(x) \in SUBSET Int /\ 0 \in Roundings(x)
  BY <1>1 DEF Roundings
<1>4. IsFiniteSet(Roundings(x))
  <2>1. 0 \in Int /\ m \in Int
    OBVIOUS
  <2>2. IsFiniteSet(0 .. m)
    BY <2>1, FS_Interval, Zenon
  <2>3. IsFiniteSet({0})
    BY FS_Singleton, Zenon
  <2> QED BY <1>2, <2>2, <2>3, FS_Subset
<1>5. Rounded(x) = Max(Roundings(x))
  BY DEF Rounded, Roundings
<1>6. Max(Roundings(x)) \in Roundings(x) /\ \A y \in Roundings(x) : Max(Roundings(x)) >= y
  BY <1>3, <1>4, MaxMin
<1> QED BY <1>3, <1>5, <1>6

\* The range of Rounded has no end that matters: every number of tenths that
\* a distance reaches is in it.
LEMMA RoundedIsExact ==
    ASSUME NEW x, IsFraction(x), NEW n \in Nat \ {0}, Reaches(x, n)
    PROVE  n <= Rounded(x)
<1>1. PICK p \in Int, q \in Int : p = x[1] /\ q = x[2] /\ q > 0
  BY DEF IsFraction
<1>2. PICK h \in Int : h = 2 * n - 1
  OBVIOUS
<1>3. PICK v \in Int : v = p \div q
  BY <1>1
<1>4. p < (v + 1) * q
  BY <1>1, <1>3
<1>5. h * h * q <= 4 * p
  BY <1>1, <1>2 DEF Reaches
<1>6. h * h < 4 * v + 4
  <2> SUFFICES ASSUME h * h >= 4 * v + 4 PROVE FALSE
    BY <1>2, <1>3
  <2>1. PICK d \in Int : d = h * h - (4 * v + 4) /\ d >= 0
    OBVIOUS
  <2>2. h * h * q = d * q + 4 * ((v + 1) * q)
    BY <1>1, <1>3, <2>1
  <2>3. d * q >= 0
    BY <1>1, <2>1
  <2> QED BY <1>1, <1>3, <1>4, <1>5, <2>1, <2>2, <2>3
<1>7. h * h >= 400 * h - 40000
  <2>1. (h - 200) * (h - 200) >= 0
    BY <1>2, Square
  <2> QED BY <1>2, <2>1
<1>8. n <= v \div 200 + 51
  <2>1. PICK k \in Int : k = v \div 200 /\ v < 200 * k + 200
    BY <1>3
  <2>2. 400 * h < 4 * v + 40004
    BY <1>2, <1>3, <1>6, <1>7
  <2> QED BY <1>2, <1>3, <2>1, <2>2
<1>9. n \in Roundings(x)
  BY <1>1, <1>3, <1>8 DEF Roundings
<1> QED BY <1>9, RoundedIsOne

\* What is farther away is not reported as nearer.
LEMMA RoundedGrows ==
    ASSUME NEW x, NEW y, IsFraction(x), IsFraction(y), x[1] * y[2] <= y[1] * x[2]
    PROVE  Rounded(x) <= Rounded(y)
<1>1. PICK m \in Int, d \in Int, n \in Int, e \in Int :
        m = x[1] /\ d = x[2] /\ n = y[1] /\ e = y[2] /\ d > 0 /\ e > 0 /\ m * e <= n * d
  BY DEF IsFraction
<1>2. PICK k \in Int : k = Rounded(x) /\ k \in Roundings(x)
  BY RoundedIsOne
<1>3. CASE k = 0
  <2>1. 0 \in Roundings(y)
    BY DEF Roundings
  <2> QED BY <1>2, <1>3, <2>1, RoundedIsOne
<1>4. CASE k # 0
  <2>1. k \in Nat \ {0} /\ Reaches(x, k)
    BY <1>1, <1>2, <1>4 DEF Roundings
  <2>2. PICK q \in Int : q = (2 * k - 1) * (2 * k - 1)
    OBVIOUS
  <2>3. IF k % 2 = 0 THEN q * d <= 4 * m ELSE q * d < 4 * m
    BY <1>1, <2>1, <2>2 DEF Reaches
  <2>4. (q * e - 4 * n) * d + (4 * m - q * d) * e <= 0
    <3>1. PICK z \in Int : z = q * (d * e)
      BY <2>2
    <3>2. (q * e - 4 * n) * d = z - 4 * (n * d)
      <4>1. (q * e) * d = q * (d * e)
        BY <2>2
      <4> QED BY <2>2, <3>1, <4>1
    <3>3. (4 * m - q * d) * e = 4 * (m * e) - z
      <4>1. (q * d) * e = q * (d * e)
        BY <2>2
      <4> QED BY <2>2, <3>1, <4>1
    <3>4. m * e \in Int /\ n * d \in Int
      OBVIOUS
    <3> QED BY <1>1, <3>1, <3>2, <3>3, <3>4
  <2>5. IF k % 2 = 0 THEN q * e <= 4 * n ELSE q * e < 4 * n
    <3>1. CASE k % 2 = 0
      <4> SUFFICES ASSUME q * e > 4 * n PROVE FALSE
        BY <1>1, <2>2, <3>1
      <4>1. (q * e - 4 * n) * d > 0
        BY <1>1, <2>2
      <4>2. (4 * m - q * d) * e >= 0
        BY <1>1, <2>2, <2>3, <3>1
      <4>3. PICK u \in Int, v \in Int : u = (q * e - 4 * n) * d /\ v = (4 * m - q * d) * e
        BY <1>1, <2>2
      <4> QED BY <2>4, <4>1, <4>2, <4>3
    <3>2. CASE k % 2 # 0
      <4> SUFFICES ASSUME q * e >= 4 * n PROVE FALSE
        BY <1>1, <2>2, <3>2
      <4>1. (q * e - 4 * n) * d >= 0
        BY <1>1, <2>2
      <4>2. (4 * m - q * d) * e > 0
        BY <1>1, <2>2, <2>3, <3>2
      <4>3. PICK u \in Int, v \in Int : u = (q * e - 4 * n) * d /\ v = (4 * m - q * d) * e
        BY <1>1, <2>2
      <4> QED BY <2>4, <4>1, <4>2, <4>3
    <3> QED BY <3>1, <3>2
  <2>6. Reaches(y, k)
    BY <1>1, <2>2, <2>5 DEF Reaches
  <2> QED BY <1>2, <2>1, <2>6, RoundedIsExact
<1> QED BY <1>3, <1>4

LEMMA TenthsGrow ==
    ASSUME NEW setup, RealSetup(setup), MaxSpan(setup.outline) > 0,
           NEW f, NEW g, IsFraction(f), IsFraction(g), f[1] * g[2] <= g[1] * f[2]
    PROVE  Tenths(f, setup) \in Int /\ Tenths(g, setup) \in Int /\ Tenths(f, setup) <= Tenths(g, setup)
<1>1. PICK s \in Int, l \in Int : s = MaxSpan(setup.outline) /\ l = setup.length /\ s > 0
  BY SpanIsInt DEF RealSetup
<1>2. PICK m \in Int, d \in Int, n \in Int, e \in Int :
        m = f[1] /\ d = f[2] /\ n = g[1] /\ e = g[2] /\ d > 0 /\ e > 0 /\ m * e <= n * d
  BY DEF IsFraction
<1>3. PICK w \in Int, t \in Int : w = 100 * (l * l) /\ t = s * s /\ w >= 0 /\ t > 0
  <2>1. l * l >= 0
    BY <1>1, Square
  <2>2. s * s > 0
    BY <1>1
  <2> QED BY <1>1, <2>1, <2>2
<1>4. 100 * m * l * l = w * m /\ 100 * n * l * l = w * n /\ d * s * s = d * t /\ e * s * s = e * t
  <2>1. 100 * m * l * l = (100 * (l * l)) * m /\ 100 * n * l * l = (100 * (l * l)) * n
    BY <1>1, <1>2
  <2>2. d * s * s = d * (s * s) /\ e * s * s = e * (s * s)
    BY <1>1, <1>2
  <2> QED BY <1>3, <2>1, <2>2
<1>5. Tenths(f, setup) = Rounded(<<w * m, d * t>>) /\ Tenths(g, setup) = Rounded(<<w * n, e * t>>)
  BY <1>1, <1>2, <1>4 DEF Tenths
<1>6. d * t > 0 /\ e * t > 0
  BY <1>2, <1>3
<1>7. (w * m) * (e * t) <= (w * n) * (d * t)
  <2>1. (w * t) * (n * d - m * e) >= 0
    <3>1. w * t >= 0 /\ w * t \in Int /\ n * d - m * e >= 0 /\ n * d - m * e \in Int
      BY <1>2, <1>3
    <3> HIDE <1>2
    <3> QED BY <3>1
  <2> QED BY <1>2, <1>3, <2>1
<1>8. IsFraction(<<w * m, d * t>>) /\ IsFraction(<<w * n, e * t>>)
  BY <1>2, <1>3, <1>6 DEF IsFraction
<1> QED BY <1>5, <1>7, <1>8, RoundedIsOne, RoundedGrows

RealPeople(people) ==
    /\ DOMAIN people = 1 .. Len(people) /\ Len(people) \in Nat
    /\ \A i \in DOMAIN people : people[i].foot \in Points

\* Of the people that were found, as NearIsBreach says it.
Someone(setup, people) ==
    \E p \in ToSet(people) : AtItsDepth(p, setup) /\ Near(p.foot, setup)

LEMMA ClosestIsBreach ==
    ASSUME NEW setup, RealSetup(setup), NEW people, RealPeople(people)
    PROVE  /\ ClosestBreached(setup, people) => Someone(setup, people)
           /\ Someone(setup, people) /\ ~TieInTenths(setup, people) => ClosestBreached(setup, people)
<1> DEFINE o == setup.outline
           Far(i) == DistanceToPolygon(people[i].foot, o)
           atDepth == {i \in DOMAIN people : AtItsDepth(people[i], setup)}
           estimate == [i \in atDepth |-> EstimateProximity(setup, people[i])]
           nearest == {i \in atDepth : \A j \in atDepth : estimate[i].tenths <= estimate[j].tenths}
<1>1. ClosestBreached(setup, people) <=> atDepth # {} /\ estimate[Min(nearest)].breached
  BY DEF ClosestBreached
<1>10. atDepth # {} => MaxSpan(o) > 0
  <2>1. MaxSpan(o) \in Int
    BY SpanIsInt DEF RealSetup
  <2> QED BY <2>1 DEF AtItsDepth
<1>2. ASSUME NEW i \in atDepth
      PROVE  /\ IsFraction(Far(i)) /\ (Breaches(Far(i), setup) <=> Near(people[i].foot, setup))
             /\ estimate[i].tenths = Tenths(Far(i), setup)
             /\ estimate[i].breached = Breaches(Far(i), setup)
             /\ EstimateProximity(setup, people[i]).tenths = estimate[i].tenths
             /\ Tenths(Far(i), setup) \in Int
  <2>1. people[i].foot \in Points
    BY DEF RealPeople
  <2>2. IsFraction(Far(i)) /\ (Breaches(Far(i), setup) <=> Near(people[i].foot, setup))
    BY <2>1, BreachIsNear DEF IsFraction
  <2>3. EstimateProximity(setup, people[i])
          = [tenths |-> Tenths(Far(i), setup), breached |-> Breaches(Far(i), setup)]
    BY DEF EstimateProximity
  <2>4. estimate[i] = EstimateProximity(setup, people[i])
    OBVIOUS
  <2> HIDE DEF Far, estimate, atDepth
  <2>5. Far(i)[1] * Far(i)[2] <= Far(i)[1] * Far(i)[2]
    BY <2>2 DEF IsFraction
  <2>6. Tenths(Far(i), setup) \in Int
    BY <1>10, <2>2, <2>5, TenthsGrow
  <2> QED BY <2>2, <2>3, <2>4, <2>6
<1>3. atDepth \in SUBSET Nat /\ atDepth \in SUBSET (1 .. Len(people)) /\ Len(people) \in Nat
  BY DEF RealPeople
<1>4. ToSet(people) = {people[i] : i \in DOMAIN people}
  BY DEF ToSet
<1>5. \A p \in ToSet(people) : AtItsDepth(p, setup) => \E i \in atDepth : p = people[i]
  BY <1>4
<1>6. \A i \in atDepth : people[i] \in ToSet(people) /\ AtItsDepth(people[i], setup)
  BY <1>4
<1> HIDE DEF Far, estimate, atDepth
<1>7. ASSUME atDepth # {} PROVE Min(nearest) \in nearest
  <2> DEFINE num == [i \in atDepth |-> estimate[i].tenths]
             one == [i \in atDepth |-> 1]
  <2>1. IsFiniteSet(atDepth)
    <3>1. IsFiniteSet(1 .. Len(people))
      BY <1>3, FS_Interval
    <3> QED BY <1>3, <3>1, FS_Subset
  <2>2. num \in [atDepth -> Int] /\ one \in [atDepth -> Int] /\ \A i \in atDepth : one[i] > 0
    BY <1>2
  <2>3. PICK k \in atDepth : \A i \in atDepth : num[k] * one[i] <= num[i] * one[k]
    <3> HIDE DEF num, one
    <3> QED BY <2>1, <2>2, <1>7, LeastFraction
  <2>4. \A i \in atDepth : estimate[k].tenths * 1 <= estimate[i].tenths * 1
    BY <2>3
  <2>5. k \in nearest
    BY <2>4, <1>2
  <2>6. nearest \in SUBSET Int /\ nearest \in SUBSET atDepth
    <3>1. nearest \in SUBSET atDepth
      BY Zenon
    <3>2. atDepth \in SUBSET Int
      BY <1>3
    <3> HIDE DEF nearest
    <3> QED BY <3>1, <3>2
  <2> HIDE DEF nearest
  <2>7. IsFiniteSet(nearest)
    BY <2>1, <2>6, FS_Subset
  <2> QED BY <2>5, <2>6, <2>7, MaxMin
<1>8. ASSUME ClosestBreached(setup, people) PROVE Someone(setup, people)
  <2>1. atDepth # {} /\ estimate[Min(nearest)].breached
    BY <1>1, <1>8
  <2>2. PICK i \in atDepth : i = Min(nearest)
    BY <1>7, <2>1
  <2>3. Near(people[i].foot, setup)
    BY <1>2, <2>1, <2>2
  <2> QED BY <1>6, <2>3 DEF Someone
<1>9. ASSUME Someone(setup, people), ~TieInTenths(setup, people)
      PROVE  ClosestBreached(setup, people)
  <2>1. PICK q \in atDepth : Near(people[q].foot, setup)
    BY <1>5, <1>9 DEF Someone
  <2>2. Min(nearest) \in nearest
    BY <1>7, <2>1
  <2>3. PICK i \in atDepth : i = Min(nearest) /\ estimate[i].tenths <= estimate[q].tenths
    BY <2>1, <2>2
  <2> HIDE DEF nearest
  <2>4. CASE Near(people[i].foot, setup)
    <3>1. estimate[i].breached
      BY <1>2, <2>4
    <3> QED BY <1>1, <2>3, <3>1
  <2>5. CASE ~Near(people[i].foot, setup)
    <3>1. ~Breaches(Far(i), setup) /\ Breaches(Far(q), setup)
      BY <1>2, <2>1, <2>5
    <3>2. Far(q)[1] * Far(i)[2] <= Far(i)[1] * Far(q)[2]
      <4> SUFFICES ASSUME ~(Far(q)[1] * Far(i)[2] <= Far(i)[1] * Far(q)[2]) PROVE FALSE
        OBVIOUS
      <4>1. PICK w \in Int, r \in Int :
              w > 0 /\ \A n, d \in Int : Breaches(<<n, d>>, setup) <=> w * n <= r * d
        BY BreachBound
      <4>2. PICK m \in Int, d \in Int, n \in Int, e \in Int :
              m = Far(i)[1] /\ d = Far(i)[2] /\ n = Far(q)[1] /\ e = Far(q)[2] /\ d > 0 /\ e > 0
        BY <1>2 DEF IsFraction
      <4>3. Breaches(<<n, e>>, setup) /\ ~Breaches(<<m, d>>, setup)
        BY <3>1, <4>2 DEF Breaches
      <4>4. w * n <= r * e /\ ~(w * m <= r * d) /\ w >= 0
        BY <4>1, <4>3
      <4>5. d > 0 /\ e > 0 /\ w >= 0 /\ m * e <= n * d /\ w * n <= r * e
        BY <4>2, <4>4
      <4>6. w * m <= r * d
        BY <4>5, WithinToo, Zenon
      <4> QED BY <4>4, <4>6
    <3>3. Tenths(Far(q), setup) <= Tenths(Far(i), setup)
      BY <1>2, <1>10, <3>2, TenthsGrow
    <3>4. EstimateProximity(setup, people[i]).tenths = EstimateProximity(setup, people[q]).tenths
      BY <1>2, <2>3, <3>3
    <3>5. TieInTenths(setup, people)
      BY <1>6, <2>1, <2>5, <3>4 DEF TieInTenths
    <3> QED BY <1>9, <3>5
  <2> QED BY <2>4, <2>5
<1> QED BY <1>8, <1>9

-----------------------------------------------------------------------------
(* The protected vehicle: its row, its history and the clip's event        *)

VehicleRows == {NoVehicle} \cup [id : 1 .. made, setup : Setups]

LEMMA VehicleFacts ==
    ASSUME VehicleIInv
    PROVE  /\ made \in Nat /\ made <= MaxVehicles /\ MaxVehicles \in Nat
           /\ vehicle \in VehicleRows /\ verdict.car \in VehicleRows
           /\ vehicle.id \in {0, made} /\ verdict.car.id \in 0 .. made
           /\ history \subseteq {vehicle.id} /\ history \subseteq 1 .. made
           /\ breachEvent \in 0 .. made
           /\ vehicle.id > 0 => (breachEvent = vehicle.id <=> vehicle.id \in history)
           /\ WatchedHasOutline /\ NearIsBreach
<1>1. verdict.car \in VehicleRows
  BY DEF VehicleIInv, RowIsLast, VehicleTypeOK, VehicleRows
<1>2. \A v \in VehicleRows : v.id \in 0 .. made
  BY VehicleAssumption DEF NoVehicle, VehicleRows, VehicleIInv, RowIsLast, VehicleTypeOK
<1> QED
  BY <1>1, <1>2, VehicleAssumption DEF VehicleIInv, RowIsLast, VehicleTypeOK, EventHasHistory, VehicleRows

\* What is said of a verdict stays true while the verdict stays as it is.
LEMMA VerdictKept ==
    ASSUME VehicleIInv, verdict' = verdict
    PROVE  WatchedHasOutline' /\ NearIsBreach'
BY DEF VehicleIInv, WatchedHasOutline, NearIsBreach

\* Nothing is said of one that is not there yet.
LEMMA VerdictOpen ==
    ASSUME verdict'.pc # "done", verdict'.car.id > 0 => Len(verdict'.car.setup.outline) >= 3
    PROVE  WatchedHasOutline' /\ NearIsBreach'
BY DEF WatchedHasOutline, NearIsBreach

LEMMA SetupsAreReal ==
    ASSUME NEW setup \in Setups, Len(setup.outline) >= 3
    PROVE  RealSetup(setup)
<1>1. setup.outline \in Seq(Int \X Int) /\ setup.outline # <<>>
  BY VehicleAssumption
<1> QED BY <1>1, VehicleAssumption DEF RealSetup, Outlines

LEMMA SightingsAreReal == \A people \in Sightings : RealPeople(people)
BY VehicleAssumption DEF RealPeople, Points

LEMMA VehicleBegins == VehicleInit => VehicleIInv
BY VehicleAssumption
   DEF VehicleInit, VehicleIInv, RowIsLast, WatchedHasOutline, VehicleTypeOK, EventHasHistory,
       NearIsBreach, NoVehicle, NoVerdict

\* A row is made with an id that nothing names yet, or it keeps its own.
LEMMA VehiclePut ==
    ASSUME VehicleIInv, NEW setup \in Setups, PutVehicle(setup)
    PROVE  VehicleIInv'
<1>1. /\ made' \in 1 .. MaxVehicles /\ made <= made'
      /\ vehicle' = [id |-> made', setup |-> setup]
      /\ history' = history /\ breachEvent' = breachEvent /\ verdict' = verdict
      /\ \/ vehicle.id = 0 /\ made' = made + 1
         \/ vehicle.id = made /\ made' = made /\ made > 0
  BY VehicleFacts DEF PutVehicle
<1>2. vehicle'.id = made'
  BY <1>1
<1>3. VehicleTypeOK'
  BY <1>1, VehicleFacts DEF VehicleTypeOK, VehicleIInv, RowIsLast
<1>4. EventHasHistory'
  BY <1>1, <1>2, VehicleFacts DEF EventHasHistory
<1> QED BY <1>1, <1>2, <1>3, <1>4, VerdictKept DEF VehicleIInv, RowIsLast

\* The history goes with the row; the event names a vehicle that no row will be.
LEMMA VehicleRemoved ==
    ASSUME VehicleIInv, RemoveVehicle
    PROVE  VehicleIInv'
<1>1. /\ vehicle' = NoVehicle /\ vehicle'.id = 0 /\ history' = {}
      /\ made' = made /\ breachEvent' = breachEvent /\ verdict' = verdict
  BY VehicleFacts DEF RemoveVehicle, NoVehicle
<1>2. VehicleTypeOK'
  BY <1>1 DEF VehicleTypeOK, VehicleIInv, RowIsLast
<1>3. EventHasHistory'
  BY <1>1 DEF EventHasHistory
<1> QED BY <1>1, <1>2, <1>3, VerdictKept DEF VehicleIInv, RowIsLast

LEMMA VehicleLoaded ==
    ASSUME VehicleIInv, LoadVehicle
    PROVE  VehicleIInv'
<1>1. UNCHANGED <<vehicle, made, history, breachEvent>>
  BY DEF LoadVehicle
<1>2. /\ verdict'.pc = "loaded" /\ verdict'.breached = FALSE
      /\ verdict'.car = vehicle \/ verdict'.car = NoVehicle
  BY DEF LoadVehicle, NoVerdict
<1>3. VehicleTypeOK'
  BY <1>1, <1>2, VehicleFacts DEF VehicleTypeOK, VehicleIInv, VehicleRows
<1>4. WatchedHasOutline' /\ NearIsBreach'
  <2>1. verdict'.car.id > 0 => Len(verdict'.car.setup.outline) >= 3
    BY DEF LoadVehicle, NoVerdict, NoVehicle
  <2> QED BY <1>2, <2>1, VerdictOpen
<1> QED BY <1>1, <1>3, <1>4 DEF VehicleIInv, RowIsLast, EventHasHistory

\* A breach is committed of the vehicle that is still there, into both.
LEMMA VerdictCommitted ==
    ASSUME VehicleIInv, NEW people \in Sightings, CommitVerdict(people)
    PROVE  VehicleIInv'
<1> DEFINE car == verdict.car
           breached == car.id > 0 /\ ClosestBreached(car.setup, people)
<1>1. /\ breached => vehicle.id = car.id
      /\ history' = IF breached THEN history \cup {car.id} ELSE history
      /\ breachEvent' = IF breached THEN car.id ELSE breachEvent
      /\ verdict'.pc = "done" /\ verdict'.car = car /\ verdict'.breached = breached
      /\ verdict'.people = people
      /\ vehicle' = vehicle /\ made' = made
  BY DEF CommitVerdict
<1>2. breached \in BOOLEAN /\ (breached => car.id > 0)
  OBVIOUS
<1>5. WatchedHasOutline' /\ NearIsBreach'
  <2>1. WatchedHasOutline'
    BY <1>1, VehicleFacts DEF WatchedHasOutline
  <2>2. ASSUME car.id > 0
        PROVE  /\ verdict'.breached => Someone(car.setup, people)
               /\ Someone(car.setup, people) /\ ~TieInTenths(car.setup, people) => verdict'.breached
    <3>1. car.setup \in Setups
      BY <2>2, VehicleFacts DEF VehicleRows, NoVehicle
    <3>2. RealSetup(car.setup) /\ RealPeople(people)
      BY <2>2, <3>1, VehicleFacts, SetupsAreReal, SightingsAreReal DEF WatchedHasOutline
    <3>3. /\ ClosestBreached(car.setup, people) => Someone(car.setup, people)
          /\ Someone(car.setup, people) /\ ~TieInTenths(car.setup, people)
               => ClosestBreached(car.setup, people)
      BY <3>2, ClosestIsBreach
    <3>4. verdict'.breached = ClosestBreached(car.setup, people)
      BY <1>1, <2>2 DEF ClosestBreached
    <3> QED BY <3>3, <3>4
  <2>3. NearIsBreach'
    BY <1>1, <2>2 DEF NearIsBreach, Someone
  <2> QED BY <2>1, <2>3
<1> HIDE DEF breached
<1>3. CASE breached
  <2>1. /\ history' = {vehicle.id} /\ breachEvent' = vehicle.id
        /\ vehicle.id \in 1 .. made
    BY <1>1, <1>2, <1>3, VehicleFacts
  <2>2. VehicleTypeOK'
    BY <2>1, <1>1, <1>2 DEF VehicleTypeOK, VehicleIInv, RowIsLast
  <2> QED BY <2>1, <2>2, <1>1, <1>5 DEF VehicleIInv, RowIsLast, EventHasHistory
<1>4. CASE ~breached
  <2>1. history' = history /\ breachEvent' = breachEvent
    BY <1>1, <1>4
  <2>2. VehicleTypeOK'
    BY <2>1, <1>1, <1>2 DEF VehicleTypeOK, VehicleIInv, RowIsLast
  <2> QED BY <2>1, <2>2, <1>1, <1>5 DEF VehicleIInv, RowIsLast, EventHasHistory
<1> QED BY <1>3, <1>4

LEMMA VerdictsLost ==
    ASSUME VehicleIInv, VerdictLost
    PROVE  VehicleIInv'
<1>1. UNCHANGED <<vehicle, made, history, breachEvent>> /\ verdict' = NoVerdict
  BY DEF VerdictLost
<1>2. WatchedHasOutline' /\ NearIsBreach'
  BY <1>1, VerdictOpen DEF NoVerdict, NoVehicle
<1>3. VehicleTypeOK'
  BY <1>1 DEF VehicleIInv, VehicleTypeOK, NoVerdict, NoVehicle
<1> QED BY <1>1, <1>2, <1>3 DEF VehicleIInv, RowIsLast, EventHasHistory

\* An analysis (ai/pipeline.py) tells of a breach just when somebody at the
\* vehicle's depth is near its outline, whatever outline was drawn and wherever
\* people stand, but for a tie of the rounded distances; and the line of
\* history and the event of a breach agree at any moment, also when the vehicle
\* was changed or removed while the providers were busy.
THEOREM BreachesAreTrue == VehicleSpec => []VehicleInv
<1>1. VehicleInit => VehicleIInv
  BY VehicleBegins
<1>2. VehicleIInv /\ [VehicleNext]_vehicleVars => VehicleIInv'
  <2> SUFFICES ASSUME VehicleIInv, [VehicleNext]_vehicleVars PROVE VehicleIInv'
    OBVIOUS
  <2>1. ASSUME NEW setup \in Setups, PutVehicle(setup) PROVE VehicleIInv'
    BY <2>1, VehiclePut
  <2>2. CASE RemoveVehicle
    BY <2>2, VehicleRemoved
  <2>3. CASE LoadVehicle
    BY <2>3, VehicleLoaded
  <2>4. ASSUME NEW people \in Sightings, CommitVerdict(people) PROVE VehicleIInv'
    BY <2>4, VerdictCommitted
  <2>5. CASE VerdictLost
    BY <2>5, VerdictsLost
  <2>6. CASE UNCHANGED vehicleVars
    BY <2>6, VerdictKept DEF vehicleVars, VehicleIInv, RowIsLast, VehicleTypeOK, EventHasHistory
  <2> QED BY <2>1, <2>2, <2>3, <2>4, <2>5, <2>6 DEF VehicleNext
<1>3. VehicleIInv => VehicleInv
  BY DEF VehicleIInv, VehicleInv
<1> QED BY <1>1, <1>2, <1>3, PTL DEF VehicleSpec
===============================================================================
