------------------------------ MODULE OAuthFlow ------------------------------
(***************************************************************************)
(* Connecting a cloud drive.  One row holds the client's settings, the one *)
(* flow that is pending, and the refresh token that a flow ends with.      *)
(* Requests load the row, await, and write the columns they changed:       *)
(* starts of a flow, and callbacks from the provider; the form is saved    *)
(* meanwhile.                                                              *)
(***************************************************************************)
EXTENDS Naturals, FiniteSets

CONSTANTS
    Providers,     \* Google Drive, with a PKCE verifier, and OneDrive, without
    Pkce,          \* those among them with a verifier
    Flows,         \* states: fresh random strings
    Handlers,      \* slots for requests under way
    MaxClients     \* bound: clients that are entered

ASSUME OAuthFlowAssumption == Pkce \subseteq Providers /\ "none" \notin Flows /\ MaxClients \in Nat

Clients == 0..MaxClients     \* the client of a provider, 0 for none

VARIABLES
    client,    \* client id and secret per provider
    flow,      \* pending_oauth_*
    refresh,   \* refresh token per provider: the client it is for, 0 for none
    begun,     \* the flows that were started, with the provider
    handler,   \* per slot, the request under way
    granted,   \* history: how often a flow was accepted
    raced,     \* history: flows accepted while another callback of theirs had loaded them
    astray     \* history: flows that a start or a callback met another one in

oauthVars == <<client, flow, refresh, begun, handler, granted, raced, astray>>

NoFlow == [provider |-> "none", state |-> "none", verifier |-> "none", live |-> FALSE]
NoHandler == [pc |-> "off", provider |-> "none", state |-> "none", seen |-> NoFlow, client |-> 0]

OAuthInit ==
    /\ client = [p \in Providers |-> 0]
    /\ flow = NoFlow
    /\ refresh = [p \in Providers |-> 0]
    /\ begun = [s \in {} |-> "none"]
    /\ handler = [h \in Handlers |-> NoHandler]
    /\ granted = [s \in Flows |-> 0]
    /\ raced = {} /\ astray = {}

Ends(h) == handler' = [handler EXCEPT ![h] = NoHandler]
Others(h) == {handler[g].state : g \in Handlers \ {h}} \ {"none"}

-----------------------------------------------------------------------------

\* What a request makes of the pending flow: it writes the columns that are
\* not as it loaded them.
FlowWritten(seen, new) == [f \in DOMAIN NoFlow |-> IF seen[f] = new[f] THEN flow[f] ELSE new[f]]

\* start_google_drive_oauth, start_onedrive_oauth: there is a client.
StartFlow(h, p) ==
    /\ handler[h].pc = "off" /\ client[p] # 0
    /\ \E s \in Flows \ (DOMAIN begun \cup Others(h)) :
         /\ handler' = [handler EXCEPT ![h] =
              [NoHandler EXCEPT !.pc = "begin", !.provider = p, !.state = s, !.seen = flow]]
         /\ astray' = IF Others(h) = {} THEN astray ELSE astray \cup {s} \cup Others(h)
    /\ UNCHANGED <<client, flow, refresh, begun, granted, raced>>

\* begin_oauth makes the flow the pending one, with a new time to live.  A
\* verifier comes with a second commit.
BeginFlow(h) ==
    LET p == handler[h].provider
        s == handler[h].state
        new == [provider |-> p, state |-> s, verifier |-> "none", live |-> TRUE] IN
    /\ handler[h].pc = "begin"
    /\ flow' = [FlowWritten(handler[h].seen, new) EXCEPT !.live = TRUE]
    /\ begun' = [t \in DOMAIN begun \cup {s} |-> IF t = s THEN p ELSE begun[t]]
    /\ handler' = [handler EXCEPT ![h] = IF p \in Pkce THEN [@ EXCEPT !.pc = "verifier", !.seen = NoFlow] ELSE NoHandler]
    /\ UNCHANGED <<client, refresh, granted, raced, astray>>

\* set_pending_oauth_code_verifier: whatever flow the row has by now.
SetVerifier(h) ==
    /\ handler[h].pc = "verifier"
    /\ flow' = [flow EXCEPT !.verifier = handler[h].state]
    /\ Ends(h)
    /\ UNCHANGED <<client, refresh, begun, granted, raced, astray>>

\* OAUTH_STATE_TTL_MINUTES pass.
FlowExpires ==
    /\ flow.live
    /\ flow' = [flow EXCEPT !.live = FALSE]
    /\ UNCHANGED <<client, refresh, begun, handler, granted, raced, astray>>

\* The provider sends the browser to the callback, with a flow's state, once
\* or again: consume_oauth_state loads the row.
Callback(h, s) ==
    /\ handler[h].pc = "off" /\ s \in DOMAIN begun
    /\ handler' = [handler EXCEPT ![h] = [NoHandler EXCEPT !.pc = "consume", !.provider = begun[s], !.state = s,
                                      !.seen = flow, !.client = client[begun[s]]]]
    /\ astray' = IF Others(h) = {} THEN astray ELSE astray \cup {s} \cup Others(h)
    /\ UNCHANGED <<client, flow, refresh, begun, granted, raced>>

\* matches: the flow that was loaded is this provider's, this state, in time.
Matches(h) ==
    LET seen == handler[h].seen IN
    seen.provider = handler[h].provider /\ seen.state = handler[h].state /\ seen.live

\* Another callback has loaded the flow and will find that it matches.
LoadedTwice(h) ==
    \E g \in Handlers \ {h} :
        handler[g].pc = "consume" /\ handler[g].state = handler[h].state /\ handler[g].seen.state = handler[h].state

\* Mutant: the pending flow is cleared when the token is there.
ConsumeLate(h) ==
    /\ handler[h].pc = "consume"
    /\ granted' = IF Matches(h) THEN [granted EXCEPT ![handler[h].state] = @ + 1] ELSE granted
    /\ handler' = [handler EXCEPT ![h] = IF Matches(h) THEN [handler[h] EXCEPT !.pc = "exchange", !.seen = NoFlow] ELSE NoHandler]
    /\ UNCHANGED <<client, flow, refresh, begun, raced, astray>>

\* The columns that were set when the row was loaded are cleared, matching or
\* not.  A flow that needs a verifier and has none is refused.
Consume(h) ==
    LET s == handler[h].state IN
    /\ handler[h].pc = "consume"
    /\ flow' = [FlowWritten(handler[h].seen, NoFlow) EXCEPT
                     !.live = IF handler[h].seen.state = "none" THEN flow.live ELSE FALSE]
    /\ IF Matches(h) /\ (handler[h].provider \notin Pkce \/ handler[h].seen.verifier # "none") /\ handler[h].client # 0
       THEN /\ granted' = [granted EXCEPT ![s] = @ + 1]
            /\ raced' = IF LoadedTwice(h) THEN raced \cup {s} ELSE raced
            /\ handler' = [handler EXCEPT ![h].pc = "exchange"]
       ELSE Ends(h) /\ UNCHANGED <<granted, raced>>
    /\ UNCHANGED <<client, refresh, begun, astray>>

\* The provider wants the flow's own verifier; it may refuse in any case.
ExchangeFails(h) ==
    /\ handler[h].pc = "exchange"
    /\ Ends(h)
    /\ UNCHANGED <<client, flow, refresh, begun, granted, raced, astray>>

\* set_google_drive_refresh_token, set_onedrive_refresh_token
Connected(h) ==
    LET p == handler[h].provider IN
    /\ handler[h].pc = "exchange"
    /\ p \in Pkce => handler[h].seen.verifier = handler[h].state
    /\ refresh' = [refresh EXCEPT ![p] = handler[h].client]
    /\ Ends(h)
    /\ UNCHANGED <<client, flow, begun, granted, raced, astray>>

-----------------------------------------------------------------------------

\* put_integration_settings: the flow and the tokens are not in the form.
SaveForm(p) ==
    /\ \E c \in Clients \ {client[p]} : client' = [client EXCEPT ![p] = c]
    /\ UNCHANGED <<flow, refresh, begun, handler, granted, raced, astray>>

OAuthNext ==
    \/ \E h \in Handlers :
         \/ \E p \in Providers : StartFlow(h, p)
         \/ \E s \in Flows : Callback(h, s)
         \/ BeginFlow(h) \/ SetVerifier(h) \/ Consume(h) \/ ExchangeFails(h) \/ Connected(h)
    \/ \E p \in Providers : SaveForm(p)
    \/ FlowExpires

OAuthSpec == OAuthInit /\ [][OAuthNext]_oauthVars

-----------------------------------------------------------------------------

FlowRows ==
    [provider : Providers \cup {"none"}, state : Flows \cup {"none"}, verifier : Flows \cup {"none"}, live : BOOLEAN]

OAuthTypeOK ==
    /\ client \in [Providers -> Clients] /\ refresh \in [Providers -> Clients]
    /\ flow \in FlowRows
    /\ begun \in [DOMAIN begun -> Providers] /\ DOMAIN begun \subseteq Flows
    /\ handler \in [Handlers -> [pc : {"off", "begin", "verifier", "consume", "exchange"},
                                 provider : Providers \cup {"none"}, state : Flows \cup {"none"},
                                 seen : FlowRows, client : Clients]]
    /\ granted \in [Flows -> Nat] /\ raced \subseteq Flows /\ astray \subseteq Flows

\* A state is accepted again only by a callback that had loaded it before the
\* first one's commit cleared it (consume_oauth_state, 98-112): one that comes
\* later is refused, whatever starts, callbacks and forms were under way and
\* whatever mixture of them the row has become.  That "a state can never be
\* replayed" (94-95) is more than the code keeps: two callbacks that load the
\* row before either commits are both accepted.
AcceptedOnce == \A s \in Flows \ raced : granted[s] <= 1

\* The verifier next to a pending flow is the flow's own, so that the exchange
\* can succeed, unless two requests met (88-95).
VerifierFits ==
    flow.state \notin astray \cup {"none"} => flow.verifier \in {"none", flow.state}

\* What holds of connections: flows do not disturb each other.
OAuthInv == OAuthTypeOK /\ AcceptedOnce /\ VerifierFits

-----------------------------------------------------------------------------
(* An inductive invariant that implies OAuthInv                            *)

Active(h) == handler[h].pc # "off"

\* Flows are fresh when they start, and everything else is about flows that
\* were started.
FlowsAreFresh ==
    /\ flow.state \in DOMAIN begun \cup {"none"}
    /\ \A s \in Flows : granted[s] > 0 => s \in DOMAIN begun
    /\ \A h \in Handlers : Active(h) =>
         /\ handler[h].provider \in Providers /\ handler[h].state \in Flows
         /\ handler[h].state \in DOMAIN begun <=> handler[h].pc # "begin"
         /\ handler[h].pc = "begin" => handler[h].seen.state \in DOMAIN begun \cup {"none"}
    /\ \A g, h \in Handlers : handler[g].pc = "begin" /\ handler[h].pc = "begin"
                                  /\ handler[g].state = handler[h].state => g = h

\* What a request has loaded is what the row says, but for the time to live,
\* unless another was under way.
LoadedIsThere ==
    /\ \A g, h \in Handlers : Active(g) /\ Active(h) /\ g # h => handler[g].state \in astray
    /\ \A h \in Handlers : handler[h].pc \in {"begin", "consume"} /\ handler[h].state \notin astray =>
         handler[h].seen.state = flow.state /\ handler[h].seen.verifier = flow.verifier

\* A verifier that is to come is for the pending flow.
PendingFits ==
    \A h \in Handlers : handler[h].pc = "verifier" => flow.state \in astray \cup {"none", handler[h].state}

\* A flow that was accepted is pending no more, and no callback holds it as
\* pending except one it raced with.
AcceptedIsGone ==
    \A s \in Flows : granted[s] > 0 =>
        /\ flow.state # s
        /\ s \notin raced =>
             \A h \in Handlers : handler[h].pc = "consume" /\ handler[h].state = s => handler[h].seen.state # s

OAuthIInv == OAuthInv /\ FlowsAreFresh /\ LoadedIsThere /\ PendingFits /\ AcceptedIsGone
=============================================================================
