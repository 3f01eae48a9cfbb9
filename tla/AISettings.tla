------------------------------ MODULE AISettings ------------------------------
(***************************************************************************)
(* The one row of AI settings.  It is made when it is first read, inside a *)
(* savepoint; a form sends everything but the keys, which are kept,        *)
(* cleared or replaced; and tier 2 may be linked to tier 1, whose          *)
(* provider, address and key it then copies.                               *)
(***************************************************************************)
EXTENDS FiniteSets

CONSTANTS
    Kinds,     \* a provider with its base URL
    Keys,      \* API keys
    Forms      \* slots for sessions under way

ASSUME AISettingsAssumption ==
    /\ Kinds # {}
    /\ {"none", "keep"} \cap Keys = {} /\ {"no", "yes"} \cap Forms = {}

VARIABLES
    record,    \* the row, as committed
    exists,    \* "no", "yes", or the session that inserted it
    form,      \* per slot, the session under way
    tangled    \* history: the last form saved had not seen the one before it

aiVars == <<record, exists, form, tangled>>

Columns == {"linked", "kind1", "kind2", "key1", "key2"}
Record == [linked : BOOLEAN, kind1 : Kinds, kind2 : Kinds, key1 : Keys \cup {"none"}, key2 : Keys \cup {"none"}]
Payload == [linked : BOOLEAN, kind1 : Kinds, kind2 : Kinds, key1 : Keys \cup {"none", "keep"}, key2 : Keys \cup {"none", "keep"}]

FirstKind == CHOOSE k \in Kinds : TRUE
Default == [linked |-> FALSE, kind1 |-> FirstKind, kind2 |-> FirstKind, key1 |-> "none", key2 |-> "none"]
NoForm == [pc |-> "off", read |-> Default]

AIInit ==
    /\ record = Default /\ exists = "no"
    /\ form = [r \in Forms |-> NoForm]
    /\ tangled = FALSE

Opened(r) == form' = [form EXCEPT ![r] = [pc |-> "open", read |-> record]]

-----------------------------------------------------------------------------
(* get_or_create_singleton.                                                *)

\* A row that another session has not committed is not seen.
LookUp(r) ==
    /\ form[r].pc = "off"
    /\ IF exists = "yes" THEN Opened(r) ELSE form' = [form EXCEPT ![r].pc = "insert"]
    /\ UNCHANGED <<record, exists, tangled>>

\* The INSERT waits for a session that did the same to commit or roll back.
Insert(r) ==
    /\ form[r].pc = "insert" /\ exists = "no"
    /\ exists' = r
    /\ Opened(r)
    /\ UNCHANGED <<record, tangled>>

\* The row is there now: the savepoint is rolled back and the row read.
InsertConflict(r) ==
    /\ form[r].pc = "insert" /\ exists = "yes"
    /\ Opened(r)
    /\ UNCHANGED <<record, exists, tangled>>

-----------------------------------------------------------------------------
(* update_ai_settings.                                                     *)

ApplyKey(old, value) == IF value = "keep" THEN old ELSE value

\* Mutant: a linked tier 2 has its own key.
EditedOwnKey(old, p) ==
    [linked |-> p.linked, kind1 |-> p.kind1, key1 |-> ApplyKey(old.key1, p.key1),
     kind2 |-> IF p.linked THEN p.kind1 ELSE p.kind2, key2 |-> ApplyKey(old.key2, p.key2)]

Edited(old, p) ==
    LET key1 == ApplyKey(old.key1, p.key1) IN
    [linked |-> p.linked, kind1 |-> p.kind1, key1 |-> key1,
     kind2 |-> IF p.linked THEN p.kind1 ELSE p.kind2,
     key2 |-> IF p.linked THEN key1 ELSE ApplyKey(old.key2, p.key2)]

\* The columns of the UPDATE: those that are not as read.  A key that was
\* sent is encrypted anew, and so never as read.
Dirty(old, new, p) ==
    {c \in Columns : new[c] # old[c]}
      \cup {c \in {"key1", "key2"} : p[c] \in Keys}
      \cup IF p.linked /\ p.key1 \in Keys THEN {"key2"} ELSE {}

Save(r, p) ==
    LET new == Edited(form[r].read, p)
        dirty == Dirty(form[r].read, new, p)
    IN
    /\ form[r].pc = "open"
    /\ record' = [c \in Columns |-> IF c \in dirty THEN new[c] ELSE record[c]]
    /\ exists' = "yes"
    /\ form' = [form EXCEPT ![r] = NoForm]
    /\ tangled' = (form[r].read # record)

\* The session ends without a commit: it only read, or the process ended.
Close(r) ==
    /\ form[r].pc \in {"open", "insert"}
    /\ form' = [form EXCEPT ![r] = NoForm]
    /\ exists' = IF exists = r THEN "no" ELSE exists
    /\ UNCHANGED <<record, tangled>>

AINext ==
    \E r \in Forms :
      \/ LookUp(r) \/ Insert(r) \/ InsertConflict(r) \/ Close(r)
      \/ \E p \in Payload : Save(r, p)

AISpec == AIInit /\ [][AINext]_aiVars

-----------------------------------------------------------------------------

AITypeOK ==
    /\ record \in Record /\ exists \in Forms \cup {"no", "yes"}
    /\ form \in [Forms -> [pc : {"off", "insert", "open"}, read : Record]]
    /\ tangled \in BOOLEAN

\* One row is made, and a session that inserted it is under way until it is
\* seen (db.py:66-76).
FirstUseWins == exists \in Forms => form[exists].pc = "open"

\* A linked tier 2 has tier 1's provider, address and key, unless the last
\* form was saved over one it had not seen; the next one puts it right
\* (ai/service.py:42-50).
LinkedTiersAgree ==
    record.linked /\ ~tangled => record.kind2 = record.kind1 /\ record.key2 = record.key1

\* What holds of the AI settings: the row is made once, its tiers stay linked.
AIInv == AITypeOK /\ FirstUseWins /\ LinkedTiersAgree
=============================================================================
