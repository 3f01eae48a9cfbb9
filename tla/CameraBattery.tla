---------------------------- MODULE CameraBattery ----------------------------
(***************************************************************************)
(* Battery levels.  A sync fetches them from Blink, compares them with the *)
(* rows, writes rows and BatteryEvents in one transaction and then queues  *)
(* an alert for every battery that got low.  Two syncs may overlap: a      *)
(* requested one and the one that is due (blink_sync.py:65-71).            *)
(***************************************************************************)
EXTENDS Integers, FiniteSets

CONSTANTS
    Cams,
    Syncs,         \* slots for syncs under way
    Levels         \* battery levels, normalised; "" is one not known

ASSUME CameraBatteryAssumption == {"", "low"} \subseteq Levels /\ IsFiniteSet(Syncs)

VARIABLES
    level,     \* batteries at Blink
    battery,   \* Camera.battery
    recorded,  \* the level that the camera's last BatteryEvent row has
    owed,      \* history: drops to low in the camera's row, less the alerts
               \*   queued, while it has no trouble
    trouble,   \* history: per camera, what has come between its row and what is
               \*   told of it: "overlap", "cut_off"
    sync       \* per slot, the sync under way

batteryVars == <<level, battery, recorded, owed, trouble, sync>>

NoSync == [pc |-> "off", levels |-> [c \in Cams |-> ""], previous |-> [c \in Cams |-> ""], due |-> {}]

BatteryInit ==
    /\ level \in [Cams -> Levels]
    /\ battery = [c \in Cams |-> ""] /\ recorded = battery
    /\ owed = [c \in Cams |-> 0]
    /\ trouble = [c \in Cams |-> {}]
    /\ sync = [s \in Syncs |-> NoSync]

LevelChanges(c, l) ==
    /\ l # level[c]
    /\ level' = [level EXCEPT ![c] = l]
    /\ UNCHANGED <<battery, recorded, owed, trouble, sync>>

\* get_cameras: what Blink says now.
FetchLevels(s) ==
    /\ sync[s].pc = "off"
    /\ sync' = [sync EXCEPT ![s] = [NoSync EXCEPT !.pc = "fetched", !.levels = level]]
    /\ UNCHANGED <<level, battery, recorded, owed, trouble>>

\* _upsert_cameras reads the batteries of the rows before it writes any.
ReadPrevious(s) ==
    /\ sync[s].pc = "fetched"
    /\ sync' = [sync EXCEPT ![s].pc = "compare", ![s].previous = battery]
    /\ UNCHANGED <<level, battery, recorded, owed, trouble>>

Changed(s) == {c \in Cams : sync[s].levels[c] # sync[s].previous[c]}

\* Mutant: every low battery is told of.
NewlyLowAlways(s) == {c \in Cams : sync[s].levels[c] = "low"}

NewlyLow(s) == {c \in Changed(s) : sync[s].levels[c] = "low"}

\* Another sync has committed a level between this one's read and its commit.
Overtaken(s) == {c \in Cams : sync[s].previous[c] # battery[c]}

\* A change that is compared with the row ends the camera's troubles, when no
\* alert on it is still on its way.
Settled(s) == {c \in Changed(s) \ Overtaken(s) : \A t \in Syncs : c \notin sync[t].due}

\* The upserts hold their rows until the commit, which writes rows and events
\* together.  Alerts on low batteries may be switched off.
CommitLevels(s) ==
    /\ sync[s].pc = "compare"
    /\ battery' = sync[s].levels
    /\ recorded' = [c \in Cams |-> IF c \in Changed(s) THEN sync[s].levels[c] ELSE recorded[c]]
    /\ trouble' = [c \in Cams |-> IF c \in Overtaken(s) THEN trouble[c] \cup {"overlap"}
                                  ELSE IF c \in Settled(s) THEN {} ELSE trouble[c]]
    /\ \E on \in BOOLEAN :
         /\ sync' = [sync EXCEPT ![s] = [NoSync EXCEPT !.pc = "alerts", !.due = IF on THEN NewlyLow(s) ELSE {}]]
         /\ owed' = [c \in Cams |-> IF trouble'[c] # {} THEN 0
                        ELSE owed[c] + IF on /\ battery[c] # "low" /\ battery'[c] = "low" THEN 1 ELSE 0]
    /\ UNCHANGED level

\* One job per camera.
QueueAlert(s, c) ==
    /\ sync[s].pc = "alerts" /\ c \in sync[s].due
    /\ owed' = [owed EXCEPT ![c] = IF trouble[c] # {} THEN 0 ELSE @ - 1]
    /\ sync' = [sync EXCEPT ![s].due = @ \ {c}]
    /\ UNCHANGED <<level, battery, recorded, trouble>>

\* The sync ends, cut off by a crash, a timeout or Redis if it comes to that:
\* nobody will tell then of the batteries that are left.
SyncEnds(s) ==
    /\ sync[s].pc # "off"
    /\ sync' = [sync EXCEPT ![s] = NoSync]
    /\ trouble' = [c \in Cams |-> IF c \in sync[s].due THEN trouble[c] \cup {"cut_off"} ELSE trouble[c]]
    /\ owed' = [c \in Cams |-> IF c \in sync[s].due THEN 0 ELSE owed[c]]
    /\ UNCHANGED <<level, battery, recorded>>

BatteryNext ==
    \/ \E c \in Cams, l \in Levels : LevelChanges(c, l)
    \/ \E s \in Syncs :
         \/ FetchLevels(s) \/ ReadPrevious(s) \/ CommitLevels(s) \/ SyncEnds(s)
         \/ \E c \in Cams : QueueAlert(s, c)

BatterySpec == BatteryInit /\ [][BatteryNext]_batteryVars

-----------------------------------------------------------------------------

BatteryTypeOK ==
    /\ level \in [Cams -> Levels] /\ battery \in [Cams -> Levels] /\ recorded \in [Cams -> Levels]
    /\ owed \in [Cams -> Int] /\ trouble \in [Cams -> SUBSET {"overlap", "cut_off"}]
    /\ sync \in [Syncs -> [pc : {"off", "fetched", "compare", "alerts"}, levels : [Cams -> Levels],
                           previous : [Cams -> Levels], due : SUBSET Cams]]

\* The battery history ends with the level that the row shows.  Overlapping
\* syncs come between them, since the previous level is read before, and not
\* under, the lock that the upsert takes (blink_sync.py:192-247), until the next
\* change that is seen from the row: an overlapping run is not "harmless, just a
\* little redundant work" (68-70).  That a sync was cut off does not matter.
BatteryHistory == \A c \in Cams : "overlap" \notin trouble[c] => recorded[c] = battery[c]

\* An alert is on its way for every drop to low that came into the row while
\* alerts were on, and for nothing else (blink_sync.py:143-150), unless syncs
\* overlapped on that camera or one was cut off between the commit and the alert,
\* and no change has been told of since.
LowAlerted ==
    \A c \in Cams : trouble[c] = {} => owed[c] = Cardinality({s \in Syncs : c \in sync[s].due})

\* What holds of batteries: history and alerts follow the rows.
BatteryInv == BatteryTypeOK /\ BatteryHistory /\ LowAlerted

-----------------------------------------------------------------------------
(* An inductive invariant that implies BatteryInv                          *)

\* Alerts are due after the commit only.
DueAfterCommit == \A s \in Syncs : sync[s].pc # "alerts" => sync[s].due = {}

\* Drops are not counted for a camera in trouble.
FrozenWhileTroubled == \A c \in Cams : trouble[c] # {} => owed[c] = 0

BatteryIInv == BatteryInv /\ DueAfterCommit /\ FrozenWhileTroubled
=============================================================================
