----------------------------- MODULE BlinkToken -----------------------------
(***************************************************************************)
(* The stored token of the linked Blink account.  Previews, live view,     *)
(* recordings, arming, Sync Module jobs and downloads load it and forget   *)
(* what they are given in exchange; a sync writes it back.  "tokens rotate *)
(* on refresh" (blink/service.py:239): a refresh makes every other copy    *)
(* useless.                                                                *)
(***************************************************************************)
EXTENDS Naturals

CONSTANTS
    TokenUsers,    \* slots for what works with the stored token
    MaxLinks       \* bound: how often the account is linked

ASSUME BlinkTokenAssumption == MaxLinks \in Nat

VARIABLES
    links,     \* how often the account was linked: the row's identity
    token,     \* encrypted_token_data of the row, "none" without one
    status,    \* the row's status
    user,      \* per slot, what works with a token
    troubles   \* history: the kinds of trouble so far

tokenVars == <<links, token, status, user, troubles>>

NoUser == [pc |-> "off", sync |-> FALSE, row |-> 0, token |-> "current", status |-> "active"]
Done(u) == user' = [user EXCEPT ![u] = NoUser]

\* The row that a user loaded is still there.
Linked(u) == token # "none" /\ user[u].row = links

\* The session writes what differs from what it loaded.
Write(u, new) == IF user[u].status = new THEN status ELSE new

TokenInit ==
    /\ links = 0 /\ token = "none" /\ status = "active"
    /\ user = [u \in TokenUsers |-> NoUser]
    /\ troubles = {}

\* A link or verification that succeeded (BlinkLinker) adds the row.
AddAccount ==
    /\ token = "none" /\ links < MaxLinks
    /\ links' = links + 1 /\ token' = "current" /\ status' = "active" /\ troubles' = {}
    /\ UNCHANGED user

RemoveAccount ==
    /\ token # "none"
    /\ token' = "none"
    /\ UNCHANGED <<links, status, user, troubles>>

\* _run_sync, get_camera_preview, start_live_view, record_camera_clip,
\* arm_sync_module, download_clip and others load the account and its token.
LoadToken(u, sync) ==
    /\ user[u].pc = "off" /\ token # "none"
    /\ user' = [user EXCEPT ![u] =
         [pc |-> "at work", sync |-> sync, row |-> links, token |-> token, status |-> status]]
    /\ UNCHANGED <<links, token, status, troubles>>

\* The access token has run out: the refresh token is exchanged.  The copies
\* in the row and with others are worth nothing from now on.
Refresh(u) ==
    /\ user[u].pc = "at work" /\ user[u].token = "current"
    /\ token' = IF Linked(u) THEN "stale" ELSE token
    /\ user' = [v \in TokenUsers |-> IF v # u /\ user[v].pc # "off" /\ user[v].row = user[u].row
                                     THEN [user[v] EXCEPT !.token = "stale"] ELSE user[v]]
    /\ troubles' = IF Linked(u) /\ ~user[u].sync THEN troubles \cup {"dropped"} ELSE troubles
    /\ UNCHANGED <<links, status>>

\* Mutant: the sync keeps to itself what it was given.
SyncSucceedsForgetful(u) ==
    /\ user[u].pc = "at work" /\ user[u].sync /\ Linked(u)
    /\ status' = Write(u, "active")
    /\ Done(u)
    /\ UNCHANGED <<links, token, troubles>>

\* A sync writes back its token, whatever is there by now.
SyncSucceeds(u) ==
    /\ user[u].pc = "at work" /\ user[u].sync /\ Linked(u)
    /\ token' = user[u].token /\ status' = Write(u, "active")
    /\ troubles' = IF user[u].token = "stale" THEN troubles \cup {"overwritten"} ELSE troubles
    /\ Done(u)
    /\ UNCHANGED links

\* BlinkAuthError, for a sync any BlinkError: the row says that it must be
\* linked again.  Blink may refuse a good token as well.
AuthFails(u) ==
    /\ user[u].pc = "at work" /\ Linked(u)
    /\ status' = Write(u, "error")
    /\ troubles' = IF user[u].sync THEN troubles \cup {"cut_off"} ELSE troubles
    /\ Done(u)
    /\ UNCHANGED <<links, token>>

\* Any other end.  Only for a sync it is trouble: a timeout, an error nobody
\* expects, the row's removal under its commit.
UserEnds(u) ==
    /\ user[u].pc = "at work"
    /\ troubles' = IF user[u].sync /\ Linked(u) THEN troubles \cup {"cut_off"} ELSE troubles
    /\ Done(u)
    /\ UNCHANGED <<links, token, status>>

TokenNext ==
    \/ AddAccount \/ RemoveAccount
    \/ \E u \in TokenUsers :
         \/ \E sync \in BOOLEAN : LoadToken(u, sync)
         \/ Refresh(u) \/ SyncSucceeds(u) \/ AuthFails(u) \/ UserEnds(u)

TokenSpec == TokenInit /\ [][TokenNext]_tokenVars

-----------------------------------------------------------------------------

TokenTypeOK ==
    /\ links \in 0..MaxLinks
    /\ token \in {"none", "current", "stale"} /\ status \in {"active", "error"}
    /\ user \in [TokenUsers -> [pc : {"off", "at work"}, sync : BOOLEAN, row : 0..MaxLinks,
                                token : {"current", "stale"}, status : {"active", "error"}]]
    /\ troubles \subseteq {"dropped", "overwritten", "cut_off"}

\* A sync that holds the good token and is still to write it.
ToBeWritten(u) == user[u].pc = "at work" /\ user[u].sync /\ user[u].row = links /\ user[u].token = "current"

\* The stored token is the one that Blink accepts, or a sync is about to write
\* it, unless something other than a sync exchanged it, a sync was cut off, or
\* one that was overtaken wrote its old one (blink_sync.py:130-134).
TokenKept == token = "stale" => troubles # {} \/ \E u \in TokenUsers : ToBeWritten(u)

\* What holds of the stored token.
TokenInv == TokenTypeOK /\ TokenKept
=============================================================================
