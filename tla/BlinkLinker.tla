----------------------------- MODULE BlinkLinker -----------------------------
(***************************************************************************)
(* Linking the Blink account: requests that link it, with a second factor  *)
(* whose half-open login the API process keeps in memory, and requests     *)
(* that unlink it.  Handlers run on one thread and interleave where they   *)
(* await.                                                                  *)
(***************************************************************************)
EXTENDS Naturals, FiniteSets

CONSTANTS
    LinkRequests,  \* slots for requests that link, verify or unlink
    MaxAccounts,   \* bound: account rows at a time
    MaxSessions    \* bound: pending link sessions that are remembered

ASSUME BlinkLinkerAssumption == MaxAccounts \in Nat /\ MaxSessions \in Nat \ {0}

AccountIds == 1..MaxAccounts
SessionIds == 1..MaxSessions

VARIABLES
    accounts,  \* the account rows
    pending,   \* BlinkLinker._pending
    expired,   \* those of them older than LINK_SESSION_TTL
    used,      \* history: how many accounts a link session has led to
    request,   \* per slot, the request being handled
    together   \* history: a link began while another was under way

linkVars == <<accounts, pending, expired, used, request, together>>

NoRequest == [pc |-> "off", kind |-> "link", sid |-> 0, todo |-> {}, row |-> 0]
Answer(r) == request' = [request EXCEPT ![r] = NoRequest]

LinkInit ==
    /\ accounts = {} /\ pending = {} /\ expired = {}
    /\ used = [s \in SessionIds |-> 0]
    /\ request = [r \in LinkRequests |-> NoRequest]
    /\ together = FALSE

-----------------------------------------------------------------------------
(* Linking                                                                 *)

InFlight(r) == request[r].pc # "off" /\ request[r].kind # "unlink"

\* link_account: no account yet.  Another link under way may add one.
LinkAccount(r) ==
    /\ request[r].pc = "off" /\ accounts = {}
    /\ request' = [request EXCEPT ![r] = [NoRequest EXCEPT !.pc = "sweep", !.todo = expired]]
    /\ together' = (together \/ pending # {} \/ \E q \in LinkRequests : InFlight(q))
    /\ UNCHANGED <<accounts, pending, expired, used>>

\* verify_account: the session is known.
VerifyAccount(r, s) ==
    /\ request[r].pc = "off" /\ s \in pending
    /\ request' = [request EXCEPT ![r] =
                     [NoRequest EXCEPT !.pc = "sweep", !.kind = "verify", !.sid = s, !.todo = expired]]
    /\ UNCHANGED <<accounts, pending, expired, used, together>>

\* _sweep_expired goes by a list and awaits after every entry: an entry that
\* somebody else removed is a KeyError.
SweepOne(r) ==
    /\ request[r].pc = "sweep"
    /\ \E s \in request[r].todo :
         /\ pending' = pending \ {s} /\ expired' = expired \ {s}
         /\ request' = [request EXCEPT ![r] = IF s \in pending THEN [request[r] EXCEPT !.todo = @ \ {s}]
                                              ELSE NoRequest]
    /\ UNCHANGED <<accounts, used, together>>

\* Swept; a session to be verified may be among those removed.
Swept(r) ==
    /\ request[r].pc = "sweep" /\ request[r].todo = {}
    /\ request' = [request EXCEPT ![r] =
         IF request[r].kind = "verify" /\ request[r].sid \notin pending THEN NoRequest
         ELSE [request[r] EXCEPT !.pc = "blink"]]
    /\ UNCHANGED <<accounts, pending, expired, used, together>>

\* Blink asks for a code: the session is kept for it.
CodeRequired(r) ==
    /\ request[r].pc = "blink" /\ request[r].kind = "link"
    /\ \E s \in SessionIds :
         /\ s \notin pending /\ \A q \in LinkRequests : request[q].sid # s
         /\ pending' = pending \cup {s}
         /\ used' = [used EXCEPT ![s] = 0]
    /\ Answer(r)
    /\ UNCHANGED <<accounts, expired, together>>

\* Rejected credentials or code, or no connection.  A session stays pending.
BlinkRefuses(r) ==
    /\ request[r].pc = "blink" /\ request[r].kind \in {"link", "verify"}
    /\ Answer(r)
    /\ UNCHANGED <<accounts, pending, expired, used, together>>

BlinkAccepts(r) ==
    /\ request[r].pc = "blink" /\ request[r].kind \in {"link", "verify"}
    /\ request' = [request EXCEPT ![r].pc = IF request[r].kind = "link" THEN "persist" ELSE "close"]
    /\ UNCHANGED <<accounts, pending, expired, used, together>>

\* Mutant: a session that is gone already is no matter.
ForgetSessionQuietly(r) ==
    /\ request[r].pc = "close"
    /\ pending' = pending \ {request[r].sid} /\ expired' = expired \ {request[r].sid}
    /\ request' = [request EXCEPT ![r].pc = "persist"]
    /\ UNCHANGED <<accounts, used, together>>

\* complete_2fa removes the session after another await; if another
\* verification or a sweep was faster, a KeyError ends the request.
ForgetSession(r) ==
    LET s == request[r].sid IN
    /\ request[r].pc = "close"
    /\ pending' = pending \ {s} /\ expired' = expired \ {s}
    /\ request' = [request EXCEPT ![r] = IF s \in pending THEN [request[r] EXCEPT !.pc = "persist"]
                                         ELSE NoRequest]
    /\ UNCHANGED <<accounts, used, together>>

\* _persist_new_account does not look whether there is one.
Persist(r) ==
    /\ request[r].pc = "persist"
    /\ \E i \in AccountIds \ accounts : accounts' = accounts \cup {i}
    /\ used' = [s \in SessionIds |-> used[s] + IF s = request[r].sid THEN 1 ELSE 0]
    /\ Answer(r)
    /\ UNCHANGED <<pending, expired, together>>

Expire(s) ==
    /\ s \in pending \ expired
    /\ expired' = expired \cup {s}
    /\ UNCHANGED <<accounts, pending, used, request, together>>

-----------------------------------------------------------------------------
(* Unlinking                                                               *)

\* unlink_account: the account that the query lists first, and its clips,
\* whose files are erased one by one.
UnlinkAccount(r, i) ==
    /\ request[r].pc = "off" /\ i \in accounts
    /\ request' = [request EXCEPT ![r] = [NoRequest EXCEPT !.pc = "erase", !.kind = "unlink", !.row = i]]
    /\ UNCHANGED <<accounts, pending, expired, used, together>>

\* The row goes, and takes cameras and clips along; a row that is gone
\* already is a StaleDataError.
DeleteAccount(r) ==
    /\ request[r].pc = "erase"
    /\ accounts' = accounts \ {request[r].row}
    /\ Answer(r)
    /\ UNCHANGED <<pending, expired, used, together>>

-----------------------------------------------------------------------------

\* The API process is started again: what was in memory is gone.
ApiRestart ==
    /\ pending # {} \/ \E r \in LinkRequests : request[r].pc # "off"
    /\ pending' = {} /\ expired' = {}
    /\ request' = [r \in LinkRequests |-> NoRequest]
    /\ UNCHANGED <<accounts, used, together>>

LinkNext ==
    \/ \E r \in LinkRequests :
         \/ LinkAccount(r) \/ SweepOne(r) \/ Swept(r) \/ CodeRequired(r)
         \/ BlinkRefuses(r) \/ BlinkAccepts(r) \/ ForgetSession(r) \/ Persist(r)
         \/ \E s \in SessionIds : VerifyAccount(r, s)
         \/ \E i \in AccountIds : UnlinkAccount(r, i)
         \/ DeleteAccount(r)
    \/ \E s \in SessionIds : Expire(s)
    \/ ApiRestart

LinkSpec == LinkInit /\ [][LinkNext]_linkVars

-----------------------------------------------------------------------------

LinkTypeOK ==
    /\ accounts \subseteq AccountIds
    /\ pending \in SUBSET SessionIds /\ expired \in SUBSET pending
    /\ used \in [SessionIds -> Nat]
    /\ request \in [LinkRequests -> [pc : {"off", "sweep", "blink", "close", "persist", "erase"},
                                     kind : {"link", "verify", "unlink"}, sid : SessionIds \cup {0},
                                     todo : SUBSET SessionIds, row : AccountIds \cup {0}]]
    /\ together \in BOOLEAN

\* A pending session leads to one account, however often its code is sent and
\* whatever the sweep does in between (complete_2fa's `del` decides).
SessionUsedOnce == \A s \in SessionIds : used[s] <= 1

\* One account at most, if every link started with no other under way: "A
\* Blink account is already linked. Unlink it first." is asked before Blink is.
OneAccount == ~together => Cardinality(accounts) <= 1

\* What holds of linking: a pending session is used up by one request, and one
\* account is linked.
LinkInv == LinkTypeOK /\ SessionUsedOnce /\ OneAccount
=============================================================================
