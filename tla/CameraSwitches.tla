--------------------------- MODULE CameraSwitches ---------------------------
(***************************************************************************)
(* Whether the Sync Module is armed and whether its cameras detect motion. *)
(* Blink has the truth, rows show it.  A sync fetches it and writes the    *)
(* rows; an administrator's request switches at Blink and then writes the  *)
(* row; the owner has Blink's own app as well.                             *)
(***************************************************************************)
EXTENDS FiniteSets

CONSTANTS
    MotionCams,   \* cameras with a motion switch of their own: all but Minis
    SwitchSyncs,  \* slots for syncs under way
    Admins        \* slots for requests under way

ASSUME CameraSwitchesAssumption == "arm" \notin MotionCams

Switches == MotionCams \cup {"arm"}

VARIABLES
    real,      \* the switches at Blink
    shown,     \* SyncModule.armed, Camera.motion_enabled
    fetch,     \* per slot, the sync under way
    admin,     \* per slot, the request under way
    mishaps    \* history: what went on since a sync had all to itself

switchVars == <<real, shown, fetch, admin, mishaps>>

NoFetch == [pc |-> "off", switches |-> [w \in {} |-> FALSE], alone |-> FALSE]
NoAdmin == [pc |-> "off", todo |-> {}, done |-> {}, value |-> FALSE, bulk |-> FALSE, loaded |-> {}]

Fetched == {s \in SwitchSyncs : fetch[s].pc # "off"}
Working == {a \in Admins : admin[a].pc # "off"}
Disturbed == [s \in SwitchSyncs |-> [fetch[s] EXCEPT !.alone = FALSE]]
Raced == IF Fetched = {} /\ Working = {} THEN mishaps ELSE mishaps \cup {"raced"}

SwitchInit ==
    /\ real = [w \in Switches |-> FALSE] /\ shown = real
    /\ fetch = [s \in SwitchSyncs |-> NoFetch]
    /\ admin = [a \in Admins |-> NoAdmin]
    /\ mishaps = {}

\* Somebody uses a switch in Blink's app.
UsedElsewhere(w) ==
    /\ real' = [real EXCEPT ![w] = ~@]
    /\ fetch' = Disturbed
    /\ mishaps' = mishaps \cup {"elsewhere"}
    /\ UNCHANGED <<shown, admin>>

-----------------------------------------------------------------------------
(* Syncs                                                                   *)

\* get_cameras, get_sync_modules.  If the modules fail, the sync goes on
\* without them.
FetchSwitches(s) ==
    /\ fetch[s].pc = "off"
    /\ \E modules \in BOOLEAN :
         fetch' = [Disturbed EXCEPT ![s] =
           [pc |-> "fetched", alone |-> modules /\ Fetched = {} /\ Working = {},
            switches |-> [w \in IF modules THEN Switches ELSE MotionCams |-> real[w]]]]
    /\ mishaps' = Raced
    /\ UNCHANGED <<real, shown, admin>>

\* _upsert_cameras, _upsert_sync_modules: whatever the rows say by now.
CommitSwitches(s) ==
    /\ fetch[s].pc = "fetched"
    /\ shown' = [w \in Switches |-> IF w \in DOMAIN fetch[s].switches THEN fetch[s].switches[w] ELSE shown[w]]
    /\ fetch' = [fetch EXCEPT ![s] = NoFetch]
    /\ mishaps' = IF fetch[s].alone THEN {} ELSE mishaps
    /\ UNCHANGED <<real, admin>>

FetchLost(s) ==
    /\ fetch[s].pc = "fetched"
    /\ fetch' = [fetch EXCEPT ![s] = NoFetch]
    /\ UNCHANGED <<real, shown, admin, mishaps>>

-----------------------------------------------------------------------------
(* Administrators                                                          *)

\* The rows are loaded; those not switched later are of no interest.
Begin(a, job) ==
    /\ admin[a].pc = "off"
    /\ admin' = [admin EXCEPT ![a] = [job EXCEPT !.pc = "blink", !.loaded = {w \in job.todo : shown[w]}]]
    /\ fetch' = Disturbed
    /\ mishaps' = Raced
    /\ UNCHANGED <<real, shown>>

\* arm_sync_module, set_camera_motion_detection
Switch(a, w, on) == Begin(a, [NoAdmin EXCEPT !.todo = {w}, !.value = on])

\* bulk_set_camera_motion_detection
SwitchAll(a, on) == Begin(a, [NoAdmin EXCEPT !.todo = MotionCams, !.value = on, !.bulk = TRUE])

BlinkSwitches(a, w) ==
    /\ admin[a].pc = "blink" /\ w \in admin[a].todo
    /\ real' = [real EXCEPT ![w] = admin[a].value]
    /\ admin' = [admin EXCEPT ![a].todo = @ \ {w}, ![a].done = @ \cup {w}]
    /\ UNCHANGED <<shown, fetch, mishaps>>

\* BlinkError; BlinkAuthError ends a bulk request's loop.
BlinkRefusesSwitch(a, w) ==
    /\ admin[a].pc = "blink" /\ w \in admin[a].todo
    /\ \E auth \in BOOLEAN :
         admin' = [admin EXCEPT ![a] = IF ~admin[a].bulk THEN NoAdmin
                                       ELSE [admin[a] EXCEPT !.todo = IF auth THEN {} ELSE @ \ {w}]]
    /\ UNCHANGED <<real, shown, fetch, mishaps>>

\* The answer is lost, or the process: an error that nobody handles.  What
\* Blink did until then is in no row.
RequestBreaks(a) ==
    /\ admin[a].pc = "blink"
    /\ \E w \in admin[a].todo : real' \in {real, [real EXCEPT ![w] = admin[a].value]}
    /\ admin' = [admin EXCEPT ![a] = NoAdmin]
    /\ mishaps' = mishaps \cup {"lost"}
    /\ UNCHANGED <<shown, fetch>>

\* Mutant: all rows of a bulk request are written, whatever Blink answered.
SaveAll(a) ==
    /\ admin[a].pc = "blink" /\ admin[a].todo = {}
    /\ shown' = [w \in Switches |-> IF w \in (IF admin[a].bulk THEN MotionCams ELSE admin[a].done)
                                    THEN admin[a].value ELSE shown[w]]
    /\ admin' = [admin EXCEPT ![a] = NoAdmin]
    /\ UNCHANGED <<real, fetch, mishaps>>

\* The session writes the rows whose value is not the one it loaded.
SaveSwitches(a) ==
    /\ admin[a].pc = "blink" /\ admin[a].todo = {}
    /\ shown' = [w \in Switches |->
         IF w \in admin[a].done /\ (w \in admin[a].loaded) # admin[a].value THEN admin[a].value ELSE shown[w]]
    /\ admin' = [admin EXCEPT ![a] = NoAdmin]
    /\ UNCHANGED <<real, fetch, mishaps>>

-----------------------------------------------------------------------------

SwitchNext ==
    \/ \E w \in Switches : UsedElsewhere(w)
    \/ \E s \in SwitchSyncs : FetchSwitches(s) \/ CommitSwitches(s) \/ FetchLost(s)
    \/ \E a \in Admins :
         \/ \E w \in Switches, on \in BOOLEAN : Switch(a, w, on)
         \/ \E on \in BOOLEAN : SwitchAll(a, on)
         \/ \E w \in Switches : BlinkSwitches(a, w) \/ BlinkRefusesSwitch(a, w)
         \/ RequestBreaks(a) \/ SaveSwitches(a)

SwitchSpec == SwitchInit /\ [][SwitchNext]_switchVars

-----------------------------------------------------------------------------

SwitchTypeOK ==
    /\ real \in [Switches -> BOOLEAN] /\ shown \in [Switches -> BOOLEAN]
    /\ fetch \in [SwitchSyncs -> [pc : {"off", "fetched"}, alone : BOOLEAN,
                       switches : [Switches -> BOOLEAN] \cup [MotionCams -> BOOLEAN] \cup [{} -> BOOLEAN]]]
    /\ admin \in [Admins -> [pc : {"off", "blink"}, todo : SUBSET Switches, done : SUBSET Switches,
                             value : BOOLEAN, bulk : BOOLEAN, loaded : SUBSET Switches]]
    /\ mishaps \subseteq {"raced", "lost", "elsewhere"}

\* Nothing under way, the rows show what Blink has, unless Blink's app was
\* used, an answer was lost, or two of them ran at once, since a sync had all
\* to itself: such a sync puts everything right (sync_module/service.py:86-190).
ShownIsReal == mishaps = {} /\ Fetched = {} /\ Working = {} => shown = real

\* What holds of the switches: the rows follow them.
SwitchInv == SwitchTypeOK /\ ShownIsReal

-----------------------------------------------------------------------------
(* An inductive invariant that implies SwitchInv                           *)

\* A sync that has all to itself has fetched everything, as it still is.
AloneIsReal ==
    \A s \in SwitchSyncs : fetch[s].alone =>
      Fetched = {s} /\ Working = {} /\ fetch[s].switches = real

\* Without mishaps one at most is under way.  A sync has fetched what is real;
\* a request's rows and the switches differ in what Blink has done for it, and
\* it knows which of its rows to write.
OneAtATime ==
    mishaps = {} =>
      /\ \A s, t \in Fetched : s = t
      /\ \A a, b \in Working : a = b
      /\ Fetched = {} \/ Working = {}
      /\ Working = {} => shown = real
      /\ \A s \in Fetched, w \in Switches : w \in DOMAIN fetch[s].switches => fetch[s].switches[w] = real[w]
      /\ \A a \in Working, w \in Switches :
           /\ real[w] = IF w \in admin[a].done THEN admin[a].value ELSE shown[w]
           /\ w \in admin[a].todo \cup admin[a].done => (w \in admin[a].loaded <=> shown[w])

\* A request for one switch has nothing done while that is still to do.
SingleIsToDo ==
    \A a \in Admins : ~admin[a].bulk =>
      \A w \in admin[a].todo : admin[a].todo = {w} /\ admin[a].done = {}

SwitchIInv == SwitchTypeOK /\ AloneIsReal /\ OneAtATime /\ SingleIsToDo
=============================================================================
