--------------------------- MODULE Administrators ---------------------------
(***************************************************************************)
(* Users: the first-run setup, what administrators do with each other's    *)
(* accounts, and the recovery command on the host.  Handlers look first    *)
(* and write after an await; nothing is locked in between.                 *)
(***************************************************************************)
EXTENDS Naturals, FiniteSets

CONSTANTS
    People,     \* e-mail addresses
    Requests    \* slots for requests under way

ASSUME AdministratorsAssumption == "nobody" \notin People

VARIABLES
    users,     \* the accounts: a set of people
    admins,    \* those that are superusers
    act,       \* per slot, the request under way
    crossed,   \* history: two requests that set up or change roles at once
    setups     \* history: accounts that the setup wizard made, 2 for more

adminVars == <<users, admins, act, crossed, setups>>

NoAct == [pc |-> "off", by |-> "nobody", who |-> "nobody", was |-> FALSE, role |-> FALSE]
Finish(r) == act' = [act EXCEPT ![r] = NoAct]
UnderWay == {r \in Requests : act[r].pc # "off"}

AdminInit ==
    /\ users = {} /\ admins = {}
    /\ act = [r \in Requests |-> NoAct]
    /\ crossed = FALSE /\ setups = 0

StartAct(r, job) ==
    /\ act[r].pc = "off"
    /\ act' = [act EXCEPT ![r] = job]
    /\ crossed' = (crossed \/ UnderWay # {})
    /\ UNCHANGED <<users, admins, setups>>

\* run_setup: no user yet.
RunSetup(r, p) == users = {} /\ StartAct(r, [NoAct EXCEPT !.pc = "setup", !.who = p])

\* The password is hashed and the address looked up before the row is there.
\* Two with one address: the second is refused.
SetUp(r) ==
    /\ act[r].pc = "setup"
    /\ users' = users \cup {act[r].who}
    /\ admins' = IF act[r].who \in users THEN admins ELSE admins \cup {act[r].who}
    /\ setups' = IF act[r].who \in users \/ setups = 2 THEN setups ELSE setups + 1
    /\ Finish(r)
    /\ UNCHANGED crossed

\* create_user, by an administrator, who may be one no more when it is done.
CreateUser(a, p, role) ==
    /\ a \in admins /\ p \notin users
    /\ users' = users \cup {p}
    /\ admins' = IF role THEN admins \cup {p} ELSE admins
    /\ UNCHANGED <<act, crossed, setups>>

\* Mutant: the count includes the one whose role is taken away.
LastAdminCounted(p) == admins = {}

LastAdmin(p) == admins \ {p} = {}

\* update_user: the role, the name or the password of anybody; "Cannot remove
\* the last administrator."
UpdateUser(r, a, p, role) ==
    /\ a \in admins /\ p \in users
    /\ ~(p \in admins /\ ~role /\ LastAdmin(p))
    /\ StartAct(r, [pc |-> "update", by |-> a, who |-> p, was |-> p \in admins, role |-> role])

\* The row is written if the role is another; a row that is gone is an error.
SaveRole(r) ==
    LET p == act[r].who IN
    /\ act[r].pc = "update"
    /\ admins' = IF p \notin users \/ act[r].role = act[r].was THEN admins
                 ELSE IF act[r].role THEN admins \cup {p} ELSE admins \ {p}
    /\ Finish(r)
    /\ UNCHANGED <<users, crossed, setups>>

\* delete_user: not oneself.
DeleteUser(r, a, p) ==
    /\ a \in admins /\ p \in users /\ p # a
    /\ StartAct(r, [NoAct EXCEPT !.pc = "delete", !.by = a, !.who = p])

RemoveUser(r) ==
    /\ act[r].pc = "delete"
    /\ users' = users \ {act[r].who} /\ admins' = admins \ {act[r].who}
    /\ Finish(r)
    /\ UNCHANGED <<crossed, setups>>

\* A password that the policy rejects, or the request ends in some other way.
Refused(r) ==
    /\ act[r].pc # "off"
    /\ Finish(r)
    /\ UNCHANGED <<users, admins, crossed, setups>>

\* create_admin, on the host.
CreateAdmin(p) ==
    /\ p \notin admins
    /\ users' = users \cup {p} /\ admins' = admins \cup {p}
    /\ UNCHANGED <<act, crossed, setups>>

AdminNext ==
    \/ \E r \in Requests :
         \/ \E p \in People : RunSetup(r, p)
         \/ \E a \in People, p \in People :
              DeleteUser(r, a, p) \/ \E role \in BOOLEAN : UpdateUser(r, a, p, role)
         \/ SetUp(r) \/ SaveRole(r) \/ RemoveUser(r) \/ Refused(r)
    \/ \E a \in People, p \in People, role \in BOOLEAN : CreateUser(a, p, role)
    \/ \E p \in People : CreateAdmin(p)

AdminSpec == AdminInit /\ [][AdminNext]_adminVars

-----------------------------------------------------------------------------

AdminTypeOK ==
    /\ users \in SUBSET People /\ admins \in SUBSET users
    /\ act \in [Requests -> [pc : {"off", "setup", "update", "delete"}, by : People \cup {"nobody"},
                             who : People \cup {"nobody"}, was : BOOLEAN, role : BOOLEAN]]
    /\ crossed \in BOOLEAN /\ setups \in 0..2

\* "a delete can never take the admin count to zero" (users_admin.py:167-171):
\* as long as there are users there is an administrator, if no two changes of
\* roles were under way at once.
AlwaysAnAdmin == ~crossed /\ users # {} => admins # {}

\* "Setup has already been completed.": the wizard makes one account, unless
\* two answers to an empty table were under way at once.
SetUpOnce == ~crossed => setups <= 1

\* What holds of users: one setup, and an administrator ever after.
AdminInv == AdminTypeOK /\ AlwaysAnAdmin /\ SetUpOnce
=============================================================================
