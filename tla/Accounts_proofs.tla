---------------------------- MODULE Accounts_proofs ----------------------------
(***************************************************************************)
(* Theorems about the accounts and what they are reached with: the Blink   *)
(* account and its pending sessions, its token, the users, and the flows   *)
(* that connect cloud drives; for any number of requests, accounts,        *)
(* sessions, syncs, people and flows.                                      *)
(***************************************************************************)
EXTENDS BlinkLinker, BlinkToken, Administrators, OAuthFlow, FiniteSetTheorems, TLAPS

-----------------------------------------------------------------------------
(* Linking the Blink account                                               *)

RequestRecord == [pc : {"off", "sweep", "blink", "close", "persist", "erase"},
                  kind : {"link", "verify", "unlink"}, sid : SessionIds \cup {0},
                  todo : SUBSET SessionIds, row : AccountIds \cup {0}]

Busy(q) == q.pc # "off" /\ q.kind # "unlink"

\* What a request's record says of itself in each phase.
Shape(q) ==
    /\ q.kind = "link" => q.sid = 0
    /\ q.kind = "unlink" => q.pc = "erase"
    /\ q.pc = "close" => q.kind = "verify"
    /\ q.kind = "verify" => q.sid \in SessionIds

\* A request that may still lead to an account.
Hopeful(q) == Busy(q) /\ (q.kind = "link" \/ q.pc = "persist" \/ q.sid \in pending)

\* A session is somebody's to use up: pending, or of the one request that took
\* it out; it has led to no account yet.
SessionsInv ==
    /\ \A s \in SessionIds : used[s] <= 1
    /\ \A s \in pending : used[s] = 0
    /\ \A r \in LinkRequests : request[r].pc = "persist" /\ request[r].sid # 0 =>
         /\ request[r].sid \notin pending /\ used[request[r].sid] = 0
         /\ \A q \in LinkRequests \ {r} : request[q].pc = "persist" => request[q].sid # request[r].sid

\* While no two links were under way together: an account, a pending session
\* or a request about to add an account, but one of them only.
AloneInv ==
    /\ \A i, j \in accounts : i = j
    /\ \A s, t \in pending : s = t
    /\ pending # {} => accounts = {}
    /\ \A r \in LinkRequests :
         /\ Hopeful(request[r]) => accounts = {}
         /\ Busy(request[r]) /\ request[r].kind = "link" =>
              pending = {} /\ \A q \in LinkRequests \ {r} : ~Busy(request[q])
         /\ request[r].pc = "persist" =>
              pending = {} /\ \A q \in LinkRequests \ {r} : request[q].pc # "persist"

LinkIndInv ==
    /\ LinkTypeOK
    /\ \A r \in LinkRequests : Shape(request[r])
    /\ SessionsInv
    /\ ~together => AloneInv

LEMMA LinkFacts ==
    ASSUME LinkIndInv
    PROVE  /\ request \in [LinkRequests -> RequestRecord]
           /\ used \in [SessionIds -> Nat]
           /\ accounts \subseteq AccountIds /\ pending \subseteq SessionIds
           /\ expired \subseteq pending /\ together \in BOOLEAN
           /\ \A r \in LinkRequests : request[r] \in RequestRecord /\ Shape(request[r])
           /\ 0 \notin SessionIds
BY DEF LinkIndInv, LinkTypeOK, RequestRecord, SessionIds

LEMMA NoRequestType ==
    /\ NoRequest \in RequestRecord /\ NoRequest.pc = "off" /\ NoRequest.kind = "link"
    /\ NoRequest.sid = 0 /\ NoRequest.todo = {} /\ Shape(NoRequest)
BY DEF NoRequest, RequestRecord, Shape

LEMMA LinkStart == LinkInit => LinkIndInv
<1> SUFFICES ASSUME LinkInit PROVE LinkIndInv
  OBVIOUS
<1>1. \A r \in LinkRequests : request[r] = NoRequest
  BY DEF LinkInit
<1>2. LinkTypeOK
  <2>1. request \in [LinkRequests -> RequestRecord]
    BY NoRequestType DEF LinkInit
  <2>2. accounts \subseteq AccountIds /\ pending \in SUBSET SessionIds /\ expired \in SUBSET pending
    BY DEF LinkInit
  <2>3. used \in [SessionIds -> Nat] /\ together \in BOOLEAN
    BY DEF LinkInit
  <2> QED BY <2>1, <2>2, <2>3, Zenon DEF LinkTypeOK, RequestRecord
<1>3. SessionsInv
  BY <1>1, NoRequestType DEF LinkInit, SessionsInv
<1>4. AloneInv
  BY <1>1, NoRequestType DEF LinkInit, AloneInv, Hopeful, Busy
<1> QED BY <1>1, <1>2, <1>3, <1>4, NoRequestType DEF LinkIndInv

\* One request's record changes.
LEMMA OneRequest ==
    ASSUME LinkIndInv, NEW r \in LinkRequests, NEW q \in RequestRecord,
           request' = [request EXCEPT ![r] = q]
    PROVE  /\ request' \in [LinkRequests -> RequestRecord] /\ request'[r] = q
           /\ \A p \in LinkRequests \ {r} : request'[p] = request[p]
BY LinkFacts

\* A request ends or goes on, and may take accounts or pending sessions away.
LEMMA LessToDo ==
    ASSUME LinkIndInv, NEW r \in LinkRequests, NEW q \in RequestRecord, Shape(q),
           request' = [request EXCEPT ![r] = q],
           accounts' \subseteq accounts, pending' \subseteq pending, expired' \subseteq pending',
           UNCHANGED <<used, together>>,
           \/ ~Busy(q)
           \/ /\ Busy(request[r]) /\ q.kind = request[r].kind /\ q.sid = request[r].sid
              /\ q.pc = "persist" => q.kind = "link",
           q.pc = "persist" => Busy(q)
    PROVE  LinkIndInv'
<1>1. /\ request' \in [LinkRequests -> RequestRecord] /\ request'[r] = q
      /\ \A p \in LinkRequests \ {r} : request'[p] = request[p]
  BY OneRequest
<1>2. LinkTypeOK'
  BY <1>1, LinkFacts DEF LinkTypeOK, RequestRecord
<1>3. \A p \in LinkRequests : Shape(request'[p])
  BY <1>1, LinkFacts
<1>4. q.pc = "persist" => q.sid = 0
  BY DEF Shape, Busy
<1>5. SessionsInv'
  BY <1>1, <1>4, LinkFacts DEF LinkIndInv, SessionsInv
<1>6. ASSUME ~together PROVE AloneInv'
  <2>1. /\ \A i, j \in accounts' : i = j
        /\ \A s, t \in pending' : s = t
        /\ pending' # {} => accounts' = {}
    BY <1>6 DEF LinkIndInv, AloneInv
  <2>2. \A p \in LinkRequests : Hopeful(request[p]) => accounts = {}
    BY <1>6 DEF LinkIndInv, AloneInv
  <2>3. \A p \in LinkRequests : Hopeful(request[p])' => accounts' = {}
    <3> SUFFICES ASSUME NEW p \in LinkRequests, Hopeful(request[p])' PROVE accounts' = {}
      OBVIOUS
    <3>1. Hopeful(request[p])
      BY <1>1, <1>4 DEF Hopeful, Busy
    <3> QED BY <2>2, <3>1
  <2>4. \A p \in LinkRequests : Busy(request'[p]) /\ request'[p].kind = "link" =>
            pending' = {} /\ \A t \in LinkRequests \ {p} : ~Busy(request'[t])
    BY <1>1, <1>6 DEF LinkIndInv, AloneInv, Busy
  <2>5. \A p \in LinkRequests : request'[p].pc = "persist" =>
            pending' = {} /\ \A t \in LinkRequests \ {p} : request'[t].pc # "persist"
    <3> SUFFICES ASSUME NEW p \in LinkRequests, request'[p].pc = "persist"
                 PROVE  pending' = {} /\ \A t \in LinkRequests \ {p} : request'[t].pc # "persist"
      OBVIOUS
    <3>1. CASE q.pc # "persist"
      BY <1>1, <1>6, <3>1 DEF LinkIndInv, AloneInv
    <3>2. CASE q.pc = "persist"
      <4>1. Busy(request[r]) /\ request[r].kind = "link"
        BY <3>2
      <4>2. pending = {} /\ \A t \in LinkRequests \ {r} : ~Busy(request[t])
        BY <1>6, <4>1 DEF LinkIndInv, AloneInv
      <4>3. \A t \in LinkRequests \ {r} : request[t].pc # "persist"
        BY <4>2, LinkFacts DEF Busy, Shape
      <4> QED BY <1>1, <4>2, <4>3
    <3> QED BY <3>1, <3>2
  <2> QED BY <2>1, <2>3, <2>4, <2>5 DEF AloneInv
<1> QED BY <1>2, <1>3, <1>5, <1>6 DEF LinkIndInv

\* The steps of that kind.
LEMMA LessToDoSteps ==
    ASSUME LinkIndInv, NEW r \in LinkRequests,
           \/ SweepOne(r) \/ Swept(r) \/ BlinkRefuses(r) \/ BlinkAccepts(r) \/ DeleteAccount(r)
           \/ ForgetSession(r) /\ request[r].sid \notin pending
           \/ \E i \in AccountIds : UnlinkAccount(r, i)
    PROVE  LinkIndInv'
<1>1. request[r] \in RequestRecord /\ Shape(request[r])
  BY LinkFacts
<1>2. ASSUME Answer(r), accounts' \subseteq accounts, pending' = pending, expired' = expired,
             UNCHANGED <<used, together>>
      PROVE  LinkIndInv'
  BY <1>2, NoRequestType, LinkFacts, LessToDo DEF Answer, Busy
<1>3. CASE SweepOne(r)
  <2>1. PICK s \in request[r].todo :
          /\ pending' = pending \ {s} /\ expired' = expired \ {s}
          /\ request' = [request EXCEPT ![r] = IF s \in pending THEN [request[r] EXCEPT !.todo = @ \ {s}]
                                               ELSE NoRequest]
    BY <1>3 DEF SweepOne
  <2> DEFINE q == IF s \in pending THEN [request[r] EXCEPT !.todo = request[r].todo \ {s}] ELSE NoRequest
  <2>2. CASE s \in pending
    <3>1. /\ q \in RequestRecord /\ q.kind = request[r].kind /\ q.sid = request[r].sid
          /\ q.pc = request[r].pc
      BY <1>1, <2>2 DEF RequestRecord
    <3>2. request[r].pc = "sweep" /\ Shape(q) /\ request' = [request EXCEPT ![r] = q]
      BY <1>1, <1>3, <2>1, <3>1 DEF SweepOne, Shape
    <3>3. Busy(request[r])
      BY <1>1, <3>2 DEF Busy, Shape
    <3> HIDE DEF q
    <3> QED BY <1>3, <2>1, <3>1, <3>2, <3>3, LinkFacts, LessToDo DEF SweepOne
  <2>3. CASE s \notin pending
    <3>1. Answer(r) /\ pending' = pending /\ expired' = expired
      BY <2>1, <2>3, LinkFacts DEF Answer
    <3> QED BY <1>2, <1>3, <3>1 DEF SweepOne
  <2> QED BY <2>2, <2>3
<1>4. CASE Swept(r)
  <2> DEFINE q == [request[r] EXCEPT !.pc = "blink"]
  <2>1. /\ q \in RequestRecord /\ q.kind = request[r].kind /\ q.sid = request[r].sid
        /\ q.pc = "blink"
    BY <1>1 DEF RequestRecord
  <2>2. request[r].pc = "sweep" /\ Shape(q) /\ Busy(request[r])
    BY <1>1, <1>4, <2>1 DEF Swept, Shape, Busy
  <2>3. (request' = [request EXCEPT ![r] = q]) \/ Answer(r)
    BY <1>4 DEF Swept, Answer
  <2> HIDE DEF q
  <2> QED BY <1>2, <1>4, <2>1, <2>2, <2>3, LinkFacts, LessToDo DEF Swept
<1>5. CASE BlinkRefuses(r)
  BY <1>2, <1>5 DEF BlinkRefuses
<1>6. CASE BlinkAccepts(r)
  <2> DEFINE q == [request[r] EXCEPT !.pc = IF request[r].kind = "link" THEN "persist" ELSE "close"]
  <2>1. /\ q \in RequestRecord /\ q.kind = request[r].kind /\ q.sid = request[r].sid
        /\ q.pc = IF request[r].kind = "link" THEN "persist" ELSE "close"
    BY <1>1 DEF RequestRecord
  <2>2. /\ request[r].pc = "blink" /\ request[r].kind \in {"link", "verify"} /\ Shape(q)
        /\ Busy(request[r]) /\ Busy(q) /\ (q.pc = "persist" => q.kind = "link")
    BY <1>1, <1>6, <2>1 DEF BlinkAccepts, Shape, Busy
  <2>3. request' = [request EXCEPT ![r] = q]
    BY <1>6 DEF BlinkAccepts
  <2> HIDE DEF q
  <2> QED BY <1>6, <2>1, <2>2, <2>3, LinkFacts, LessToDo DEF BlinkAccepts
<1>7. CASE DeleteAccount(r)
  BY <1>2, <1>7 DEF DeleteAccount
<1>8. CASE ForgetSession(r) /\ request[r].sid \notin pending
  <2>1. Answer(r) /\ pending' = pending /\ expired' = expired
    BY <1>8, LinkFacts DEF ForgetSession, Answer
  <2> QED BY <1>2, <1>8, <2>1 DEF ForgetSession
<1>9. ASSUME NEW i \in AccountIds, UnlinkAccount(r, i) PROVE LinkIndInv'
  <2> DEFINE q == [NoRequest EXCEPT !.pc = "erase", !.kind = "unlink", !.row = i]
  <2>1. q \in RequestRecord /\ ~Busy(q) /\ Shape(q) /\ q.pc = "erase"
    BY DEF NoRequest, RequestRecord, Busy, Shape
  <2>2. request' = [request EXCEPT ![r] = q]
    BY <1>9 DEF UnlinkAccount
  <2> HIDE DEF q
  <2> QED BY <1>9, <2>1, <2>2, LinkFacts, LessToDo DEF UnlinkAccount
<1> QED BY <1>3, <1>4, <1>5, <1>6, <1>7, <1>8, <1>9

-----------------------------------------------------------------------------
(* The steps that begin something, or add to the tables.                   *)

LEMMA LinkAccountStep ==
    ASSUME LinkIndInv, NEW r \in LinkRequests, LinkAccount(r)
    PROVE  LinkIndInv'
<1> DEFINE q == [NoRequest EXCEPT !.pc = "sweep", !.todo = expired]
<1>1. q \in RequestRecord /\ q.pc = "sweep" /\ q.kind = "link" /\ q.sid = 0
  BY LinkFacts DEF NoRequest, RequestRecord
<1>2. /\ request' = [request EXCEPT ![r] = q] /\ accounts = {}
      /\ together' = (together \/ pending # {} \/ \E p \in LinkRequests : Busy(request[p]))
      /\ UNCHANGED <<accounts, pending, expired, used>>
  BY DEF LinkAccount, InFlight, Busy
<1> HIDE DEF q
<1>3. /\ request' \in [LinkRequests -> RequestRecord] /\ request'[r] = q
      /\ \A p \in LinkRequests \ {r} : request'[p] = request[p]
  BY <1>1, <1>2, OneRequest
<1>4. LinkTypeOK'
  BY <1>2, <1>3, LinkFacts DEF LinkTypeOK, RequestRecord
<1>5. \A p \in LinkRequests : Shape(request'[p])
  BY <1>1, <1>3, LinkFacts DEF Shape
<1>6. SessionsInv'
  BY <1>1, <1>2, <1>3 DEF LinkIndInv, SessionsInv
<1>7. ASSUME ~together' PROVE AloneInv'
  <2>1. pending = {} /\ \A p \in LinkRequests : ~Busy(request[p])
    BY <1>2, <1>7
  <2>2. \A p \in LinkRequests : request[p].pc # "persist"
    BY <2>1, LinkFacts DEF Busy, Shape
  <2>3. \A p \in LinkRequests \ {r} : ~Busy(request'[p])
    BY <1>3, <2>1
  <2>4. \A p \in LinkRequests : request'[p].pc # "persist"
    BY <1>1, <1>3, <2>2
  <2>5. \A p \in LinkRequests : Busy(request'[p]) => p = r
    BY <2>3
  <2> QED BY <1>2, <2>1, <2>3, <2>4, <2>5 DEF AloneInv
<1> QED BY <1>4, <1>5, <1>6, <1>7 DEF LinkIndInv

LEMMA VerifyAccountStep ==
    ASSUME LinkIndInv, NEW r \in LinkRequests, NEW s \in SessionIds, VerifyAccount(r, s)
    PROVE  LinkIndInv'
<1> DEFINE q == [NoRequest EXCEPT !.pc = "sweep", !.kind = "verify", !.sid = s, !.todo = expired]
<1>1. q \in RequestRecord /\ q.pc = "sweep" /\ q.kind = "verify" /\ q.sid = s
  BY LinkFacts DEF NoRequest, RequestRecord
<1>2. /\ request' = [request EXCEPT ![r] = q] /\ s \in pending
      /\ UNCHANGED <<accounts, pending, expired, used, together>>
  BY DEF VerifyAccount
<1> HIDE DEF q
<1>3. /\ request' \in [LinkRequests -> RequestRecord] /\ request'[r] = q
      /\ \A p \in LinkRequests \ {r} : request'[p] = request[p]
  BY <1>1, <1>2, OneRequest
<1>4. LinkTypeOK'
  BY <1>2, <1>3, LinkFacts DEF LinkTypeOK, RequestRecord
<1>5. \A p \in LinkRequests : Shape(request'[p])
  BY <1>1, <1>3, LinkFacts DEF Shape
<1>6. SessionsInv'
  BY <1>1, <1>2, <1>3 DEF LinkIndInv, SessionsInv
<1>7. ASSUME ~together' PROVE AloneInv'
  <2>1. AloneInv /\ pending # {} /\ accounts = {}
    BY <1>2, <1>7 DEF LinkIndInv, AloneInv
  <2>2. \A p \in LinkRequests : Busy(request'[p]) => request'[p].kind # "link"
    BY <1>1, <1>3, <2>1 DEF AloneInv
  <2>3. \A p \in LinkRequests : request'[p].pc # "persist"
    BY <1>1, <1>3, <2>1 DEF AloneInv
  <2> QED BY <1>2, <2>1, <2>2, <2>3 DEF AloneInv
<1> QED BY <1>4, <1>5, <1>6, <1>7 DEF LinkIndInv

LEMMA CodeRequiredStep ==
    ASSUME LinkIndInv, NEW r \in LinkRequests, CodeRequired(r)
    PROVE  LinkIndInv'
<1>1. PICK s \in SessionIds :
         /\ s \notin pending /\ \A q \in LinkRequests : request[q].sid # s
         /\ pending' = pending \cup {s}
         /\ used' = [used EXCEPT ![s] = 0]
  BY DEF CodeRequired
<1>2. /\ request[r].pc = "blink" /\ request[r].kind = "link" /\ Busy(request[r]) /\ Hopeful(request[r])
      /\ request' = [request EXCEPT ![r] = NoRequest]
      /\ UNCHANGED <<accounts, expired, together>>
  BY DEF CodeRequired, Answer, Busy, Hopeful
<1>3. /\ request' \in [LinkRequests -> RequestRecord] /\ request'[r] = NoRequest
      /\ \A p \in LinkRequests \ {r} : request'[p] = request[p]
  BY <1>2, OneRequest, NoRequestType
<1>4. used' \in [SessionIds -> Nat] /\ used'[s] = 0 /\ \A t \in SessionIds \ {s} : used'[t] = used[t]
  BY <1>1, LinkFacts
<1>5. LinkTypeOK'
  BY <1>1, <1>2, <1>3, <1>4, LinkFacts DEF LinkTypeOK, RequestRecord
<1>6. \A p \in LinkRequests : Shape(request'[p])
  BY <1>3, LinkFacts, NoRequestType
<1>7. SessionsInv'
  <2>1. \A t \in SessionIds : used'[t] <= 1
    BY <1>4 DEF LinkIndInv, SessionsInv
  <2>2. \A t \in pending' : used'[t] = 0
    BY <1>1, <1>4, LinkFacts DEF LinkIndInv, SessionsInv
  <2>3. ASSUME NEW p \in LinkRequests, request'[p].pc = "persist", request'[p].sid # 0
        PROVE  /\ request'[p].sid \notin pending' /\ used'[request'[p].sid] = 0
               /\ \A q \in LinkRequests \ {p} : request'[q].pc = "persist" => request'[q].sid # request'[p].sid
    <3>1. p # r /\ request'[p] = request[p] /\ request[p].sid # s /\ request[p].sid \in SessionIds
      BY <1>1, <1>3, <2>3, NoRequestType, LinkFacts DEF RequestRecord
    <3>2. used'[request[p].sid] = used[request[p].sid]
      BY <1>4, <3>1
    <3> QED BY <1>1, <1>3, <2>3, <3>1, <3>2, NoRequestType DEF LinkIndInv, SessionsInv
  <2> QED BY <2>1, <2>2, <2>3 DEF SessionsInv
<1>8. ASSUME ~together' PROVE AloneInv'
  <2>1. AloneInv
    BY <1>2, <1>8 DEF LinkIndInv
  <2>2. accounts = {} /\ pending = {} /\ \A q \in LinkRequests \ {r} : ~Busy(request[q])
    BY <1>2, <2>1 DEF AloneInv
  <2>3. \A q \in LinkRequests : ~Busy(request'[q]) /\ request'[q].pc # "persist"
    BY <1>3, <2>2, NoRequestType, LinkFacts DEF Busy, Shape
  <2> QED BY <1>1, <1>2, <2>2, <2>3 DEF AloneInv
<1> QED BY <1>5, <1>6, <1>7, <1>8 DEF LinkIndInv

\* The session was still there: its `del` makes this request the one that
\* uses it up.
LEMMA ForgetSessionStep ==
    ASSUME LinkIndInv, NEW r \in LinkRequests, ForgetSession(r), request[r].sid \in pending
    PROVE  LinkIndInv'
<1> DEFINE q == [request[r] EXCEPT !.pc = "persist"]
           s == request[r].sid
<1>1. request[r] \in RequestRecord /\ Shape(request[r]) /\ request[r].pc = "close" /\ s \in SessionIds
  BY LinkFacts DEF ForgetSession
<1>2. q \in RequestRecord /\ q.pc = "persist" /\ q.kind = "verify" /\ q.sid = s /\ Shape(q)
  BY <1>1 DEF RequestRecord, Shape
<1>3. /\ request' = [request EXCEPT ![r] = q] /\ pending' = pending \ {s} /\ expired' = expired \ {s}
      /\ UNCHANGED <<accounts, used, together>>
  BY DEF ForgetSession
<1> HIDE DEF q
<1>4. /\ request' \in [LinkRequests -> RequestRecord] /\ request'[r] = q
      /\ \A p \in LinkRequests \ {r} : request'[p] = request[p]
  BY <1>2, <1>3, OneRequest
<1>5. LinkTypeOK'
  BY <1>3, <1>4, LinkFacts DEF LinkTypeOK, RequestRecord
<1>6. \A p \in LinkRequests : Shape(request'[p])
  BY <1>2, <1>4, LinkFacts
<1>7. SessionsInv'
  <2>1. used[s] = 0 /\ s # 0
    BY <1>1, LinkFacts DEF LinkIndInv, SessionsInv
  <2>2. \A p \in LinkRequests : request[p].pc = "persist" => request[p].sid # s
    BY <2>1 DEF LinkIndInv, SessionsInv
  <2> QED BY <1>2, <1>3, <1>4, <2>1, <2>2 DEF LinkIndInv, SessionsInv
<1>8. ASSUME ~together' PROVE AloneInv'
  <2>1. AloneInv /\ accounts = {} /\ pending' = {}
    BY <1>3, <1>8 DEF LinkIndInv, AloneInv
  <2>2. \A p \in LinkRequests : request[p].pc # "persist" /\ ~(Busy(request[p]) /\ request[p].kind = "link")
    BY <2>1 DEF AloneInv
  <2>3. \A p \in LinkRequests : ~(Busy(request'[p]) /\ request'[p].kind = "link")
    BY <1>2, <1>4, <2>2
  <2>4. \A p \in LinkRequests \ {r} : request'[p].pc # "persist"
    BY <1>4, <2>2
  <2> QED BY <1>3, <2>1, <2>3, <2>4 DEF AloneInv
<1> QED BY <1>5, <1>6, <1>7, <1>8 DEF LinkIndInv

LEMMA PersistStep ==
    ASSUME LinkIndInv, NEW r \in LinkRequests, Persist(r)
    PROVE  LinkIndInv'
<1> DEFINE s == request[r].sid
<1>1. PICK i \in AccountIds \ accounts : accounts' = accounts \cup {i}
  BY DEF Persist
<1>2. /\ request[r].pc = "persist" /\ request' = [request EXCEPT ![r] = NoRequest]
      /\ used' = [t \in SessionIds |-> used[t] + IF t = s THEN 1 ELSE 0]
      /\ UNCHANGED <<pending, expired, together>>
  BY DEF Persist, Answer
<1>3. /\ request' \in [LinkRequests -> RequestRecord] /\ request'[r] = NoRequest
      /\ \A p \in LinkRequests \ {r} : request'[p] = request[p]
  BY <1>2, OneRequest, NoRequestType
<1>4. /\ used' \in [SessionIds -> Nat]
      /\ \A t \in SessionIds : used'[t] = IF t = s THEN used[t] + 1 ELSE used[t]
  BY <1>2, LinkFacts
<1>5. LinkTypeOK'
  BY <1>1, <1>2, <1>3, <1>4, LinkFacts DEF LinkTypeOK, RequestRecord
<1>6. \A p \in LinkRequests : Shape(request'[p])
  BY <1>3, LinkFacts, NoRequestType
<1>7. SessionsInv'
  <2>1. s \in SessionIds =>
          /\ s \notin pending /\ used[s] = 0
          /\ \A q \in LinkRequests \ {r} : request[q].pc = "persist" => request[q].sid # s
    BY <1>2, LinkFacts DEF LinkIndInv, SessionsInv
  <2>2. \A t \in SessionIds : used'[t] <= 1
    BY <1>4, <2>1, LinkFacts DEF LinkIndInv, SessionsInv
  <2>3. \A t \in pending' : used'[t] = 0
    BY <1>2, <1>4, <2>1, LinkFacts DEF LinkIndInv, SessionsInv
  <2>4. ASSUME NEW p \in LinkRequests, request'[p].pc = "persist", request'[p].sid # 0
        PROVE  /\ request'[p].sid \notin pending' /\ used'[request'[p].sid] = 0
               /\ \A q \in LinkRequests \ {p} : request'[q].pc = "persist" => request'[q].sid # request'[p].sid
    <3>1. p # r /\ request'[p] = request[p] /\ request[p].sid \in SessionIds
      BY <1>3, <2>4, NoRequestType, LinkFacts DEF RequestRecord
    <3>2. used'[request[p].sid] = used[request[p].sid]
      BY <1>4, <2>1, <2>4, <3>1
    <3> QED BY <1>2, <1>3, <2>4, <3>1, <3>2, NoRequestType DEF LinkIndInv, SessionsInv
  <2> QED BY <2>2, <2>3, <2>4 DEF SessionsInv
<1>8. ASSUME ~together' PROVE AloneInv'
  <2>1. AloneInv
    BY <1>2, <1>8 DEF LinkIndInv
  <2>2. Busy(request[r]) /\ Hopeful(request[r])
    BY <1>2, LinkFacts DEF Busy, Shape, Hopeful
  <2>3. accounts = {} /\ pending = {} /\ \A q \in LinkRequests \ {r} : request[q].pc # "persist"
    BY <1>2, <2>1, <2>2 DEF AloneInv
  <2>4. \A q \in LinkRequests : Busy(request'[q]) => request'[q].kind # "link"
    BY <1>3, <2>1, <2>2, NoRequestType DEF AloneInv, Busy
  <2>5. \A q \in LinkRequests : request'[q].pc # "persist"
    BY <1>3, <2>3, NoRequestType
  <2>6. \A q \in LinkRequests : ~Hopeful(request[q])'
    BY <1>2, <2>3, <2>4, <2>5 DEF Hopeful
  <2> QED BY <1>1, <1>2, <2>3, <2>4, <2>5, <2>6 DEF AloneInv
<1> QED BY <1>5, <1>6, <1>7, <1>8 DEF LinkIndInv

LEMMA LinkStep == LinkIndInv /\ [LinkNext]_linkVars => LinkIndInv'
<1> SUFFICES ASSUME LinkIndInv, [LinkNext]_linkVars PROVE LinkIndInv'
  OBVIOUS
<1>1. ASSUME NEW r \in LinkRequests, ForgetSession(r) PROVE LinkIndInv'
  BY <1>1, ForgetSessionStep, LessToDoSteps
<1>2. ASSUME NEW s \in SessionIds, Expire(s) PROVE LinkIndInv'
  <2>1. expired' \subseteq pending /\ UNCHANGED <<accounts, pending, used, request, together>>
    BY <1>2, LinkFacts DEF Expire
  <2> QED BY <2>1 DEF LinkIndInv, LinkTypeOK, SessionsInv, AloneInv, Hopeful
<1>3. CASE ApiRestart
  <2>1. /\ request' \in [LinkRequests -> RequestRecord] /\ \A r \in LinkRequests : request'[r] = NoRequest
        /\ pending' = {} /\ expired' = {} /\ UNCHANGED <<accounts, used, together>>
    BY <1>3, NoRequestType DEF ApiRestart
  <2>2. LinkTypeOK'
    BY <2>1, LinkFacts DEF LinkTypeOK, RequestRecord
  <2>3. SessionsInv'
    BY <2>1, NoRequestType DEF LinkIndInv, SessionsInv
  <2>4. ~together' => AloneInv'
    BY <2>1, NoRequestType DEF LinkIndInv, AloneInv, Hopeful, Busy
  <2> QED BY <2>1, <2>2, <2>3, <2>4, NoRequestType DEF LinkIndInv
<1>4. CASE UNCHANGED linkVars
  BY <1>4 DEF LinkIndInv, LinkTypeOK, SessionsInv, AloneInv, Hopeful, linkVars
<1>5. ASSUME NEW r \in LinkRequests,
             \/ LinkAccount(r) \/ CodeRequired(r) \/ Persist(r)
             \/ \E s \in SessionIds : VerifyAccount(r, s)
      PROVE  LinkIndInv'
  BY <1>5, LinkAccountStep, CodeRequiredStep, PersistStep, VerifyAccountStep
<1>6. ASSUME NEW r \in LinkRequests,
             \/ SweepOne(r) \/ Swept(r) \/ BlinkRefuses(r) \/ BlinkAccepts(r) \/ DeleteAccount(r)
             \/ \E i \in AccountIds : UnlinkAccount(r, i)
      PROVE  LinkIndInv'
  BY <1>6, LessToDoSteps
<1> QED BY <1>1, <1>2, <1>3, <1>4, <1>5, <1>6 DEF LinkNext

\* A pending link session leads to one account at most, however verifications
\* and the expiry sweep interleave, and one account is linked if no two links
\* were under way together (linker.py's complete_2fa and _sweep_expired,
\* api/blink.py's link_account and verify_account).
THEOREM OneAccountIsLinked == LinkSpec => []LinkInv
<1>1. LinkInit => LinkIndInv
  BY LinkStart
<1>2. LinkIndInv /\ [LinkNext]_linkVars => LinkIndInv'
  BY LinkStep
<1>3. LinkIndInv => LinkInv
  <2> SUFFICES ASSUME LinkIndInv PROVE LinkInv
    OBVIOUS
  <2>1. ASSUME ~together PROVE Cardinality(accounts) <= 1
    <3>1. CASE accounts = {}
      BY <3>1, FS_EmptySet
    <3>2. CASE accounts # {}
      <4>1. PICK i \in accounts : TRUE
        BY <3>2
      <4>2. \A j \in accounts : j = i
        BY <2>1, <4>1 DEF LinkIndInv, AloneInv
      <4>3. accounts = {i}
        BY <4>1, <4>2
      <4>4. Cardinality({i}) = 1
        BY FS_Singleton
      <4> QED BY <4>3, <4>4
    <3> QED BY <3>1, <3>2
  <2> QED BY <2>1 DEF LinkIndInv, LinkInv, SessionsInv, SessionUsedOnce, OneAccount
<1> QED BY <1>1, <1>2, <1>3, PTL DEF LinkSpec

-----------------------------------------------------------------------------
(* The stored Blink token                                                  *)

UserRecord == [pc : {"off", "at work"}, sync : BOOLEAN, row : 0..MaxLinks,
               token : {"current", "stale"}, status : {"active", "error"}]

LEMMA TokenTypeInit == TokenInit => TokenTypeOK
BY BlinkTokenAssumption DEF TokenInit, TokenTypeOK, NoUser

\* What one user's step leaves of the others.
LEMMA OneUser ==
    ASSUME user \in [TokenUsers -> UserRecord], NEW u \in TokenUsers, NEW rec \in UserRecord,
           user' = [user EXCEPT ![u] = rec]
    PROVE  /\ user' \in [TokenUsers -> UserRecord] /\ user'[u] = rec
           /\ \A v \in TokenUsers \ {u} : user'[v] = user[v]
OBVIOUS

LEMMA NoUserType == NoUser \in UserRecord /\ NoUser.pc = "off"
BY BlinkTokenAssumption DEF NoUser, UserRecord

LEMMA TokenStep == TokenInv /\ [TokenNext]_tokenVars => TokenInv'
<1> SUFFICES ASSUME TokenInv, [TokenNext]_tokenVars PROVE TokenInv'
  OBVIOUS
<1>1. /\ user \in [TokenUsers -> UserRecord] /\ links \in 0..MaxLinks
      /\ token \in {"none", "current", "stale"} /\ status \in {"active", "error"}
      /\ troubles \subseteq {"dropped", "overwritten", "cut_off"}
      /\ \A u \in TokenUsers : user[u] \in UserRecord
  BY DEF TokenInv, TokenTypeOK, UserRecord
<1>2. token = "stale" => troubles # {} \/ \E u \in TokenUsers : ToBeWritten(u)
  BY DEF TokenInv, TokenKept
\* A user that is not a sync's, or has nothing to write, comes or goes.
<1>3. ASSUME NEW u \in TokenUsers, ~ToBeWritten(u), NEW rec \in UserRecord,
             user' = [user EXCEPT ![u] = rec], UNCHANGED <<links, token>>,
             troubles \subseteq troubles', troubles' \subseteq {"dropped", "overwritten", "cut_off"},
             status' \in {"active", "error"}
      PROVE  TokenInv'
  <2>1. /\ user' \in [TokenUsers -> UserRecord] /\ user'[u] = rec
        /\ \A v \in TokenUsers \ {u} : user'[v] = user[v]
    BY <1>1, <1>3, OneUser
  <2>2. TokenTypeOK'
    BY <1>1, <1>3, <2>1 DEF TokenTypeOK, UserRecord
  <2>3. TokenKept'
    BY <1>2, <1>3, <2>1 DEF TokenKept, ToBeWritten
  <2> QED BY <2>2, <2>3 DEF TokenInv
\* Trouble, or no stale token in the row.
<1>4. ASSUME NEW u \in TokenUsers, NEW rec \in UserRecord, user' = [user EXCEPT ![u] = rec],
             links' = links, token' \in {"none", "current", "stale"}, status' \in {"active", "error"},
             troubles' \subseteq {"dropped", "overwritten", "cut_off"},
             token' # "stale" \/ troubles' # {}
      PROVE  TokenInv'
  <2>1. user' \in [TokenUsers -> UserRecord]
    BY <1>1, <1>4, OneUser
  <2> QED BY <1>1, <1>4, <2>1 DEF TokenInv, TokenTypeOK, TokenKept, UserRecord
<1>5. ASSUME AddAccount \/ RemoveAccount PROVE TokenInv'
  <2>1. /\ user' = user /\ token' \in {"none", "current"} /\ status' \in {"active", "error"}
        /\ links' \in 0..MaxLinks /\ troubles' \subseteq {"dropped", "overwritten", "cut_off"}
    <3>1. CASE AddAccount
      BY <1>1, <3>1, BlinkTokenAssumption DEF AddAccount
    <3>2. CASE RemoveAccount
      BY <1>1, <3>2 DEF RemoveAccount
    <3> QED BY <1>5, <3>1, <3>2
  <2> QED BY <1>1, <2>1 DEF TokenInv, TokenTypeOK, TokenKept, UserRecord
<1>6. ASSUME NEW u \in TokenUsers, NEW sync \in BOOLEAN, LoadToken(u, sync) PROVE TokenInv'
  <2> DEFINE rec == [pc |-> "at work", sync |-> sync, row |-> links, token |-> token, status |-> status]
  <2>1. rec \in UserRecord
    BY <1>1, <1>6 DEF LoadToken, UserRecord
  <2>2. /\ ~ToBeWritten(u) /\ user' = [user EXCEPT ![u] = rec]
        /\ UNCHANGED <<links, token, status, troubles>>
    BY <1>6 DEF LoadToken, ToBeWritten
  <2> HIDE DEF rec
  <2> QED BY <1>1, <1>3, <2>1, <2>2
<1>7. ASSUME NEW u \in TokenUsers, Refresh(u) PROVE TokenInv'
  <2>1. ASSUME NEW v \in TokenUsers
        PROVE  /\ user'[v] \in UserRecord
               /\ v = u => user'[v] = user[v]
               /\ user'[v].row = user[v].row /\ user'[v].sync = user[v].sync /\ user'[v].pc = user[v].pc
               /\ user[v].row # user[u].row => user'[v] = user[v]
    <3>1. /\ [user[v] EXCEPT !.token = "stale"] \in UserRecord
          /\ [user[v] EXCEPT !.token = "stale"].row = user[v].row
          /\ [user[v] EXCEPT !.token = "stale"].sync = user[v].sync
          /\ [user[v] EXCEPT !.token = "stale"].pc = user[v].pc
      <4>1. user[v] \in UserRecord
        BY <1>1
      <4> QED BY <4>1 DEF UserRecord
    <3>2. user'[v] = IF v # u /\ user[v].pc # "off" /\ user[v].row = user[u].row
                     THEN [user[v] EXCEPT !.token = "stale"] ELSE user[v]
      BY <1>7 DEF Refresh
    <3> QED BY <1>1, <3>1, <3>2
  <2>2. /\ user' \in [TokenUsers -> UserRecord] /\ links' = links /\ status' = status
        /\ token' = (IF Linked(u) THEN "stale" ELSE token)
        /\ troubles' \subseteq {"dropped", "overwritten", "cut_off"} /\ troubles \subseteq troubles'
    <3>1. user' = [v \in TokenUsers |-> user'[v]]
      BY <1>7 DEF Refresh
    <3>2. user' \in [TokenUsers -> UserRecord]
      BY <2>1, <3>1
    <3> QED BY <1>1, <1>7, <3>2 DEF Refresh
  <2>3. TokenTypeOK'
    BY <1>1, <2>2 DEF TokenTypeOK, UserRecord
  <2>4. CASE Linked(u) /\ user[u].sync
    <3>1. ToBeWritten(u)'
      BY <1>7, <2>1, <2>2, <2>4 DEF Refresh, ToBeWritten, Linked
    <3> QED BY <2>3, <3>1 DEF TokenInv, TokenKept
  <2>5. CASE Linked(u) /\ ~user[u].sync
    BY <1>7, <2>3, <2>5 DEF Refresh, TokenInv, TokenKept
  <2>6. CASE ~Linked(u)
    <3> SUFFICES ASSUME token = "stale" PROVE troubles' # {} \/ \E v \in TokenUsers : ToBeWritten(v)'
      BY <2>2, <2>3, <2>6 DEF TokenInv, TokenKept
    <3>1. user[u].row # links
      BY <2>6 DEF Linked
    <3>2. \A v \in TokenUsers : ToBeWritten(v) => ToBeWritten(v)'
      BY <2>1, <2>2, <3>1 DEF ToBeWritten
    <3> QED BY <1>2, <2>2, <3>2
  <2> QED BY <2>4, <2>5, <2>6
<1>8. ASSUME NEW u \in TokenUsers, SyncSucceeds(u) PROVE TokenInv'
  <2>1. /\ user' = [user EXCEPT ![u] = NoUser] /\ links' = links
        /\ token' = user[u].token /\ token' \in {"current", "stale"} /\ status' \in {"active", "error"}
        /\ token' = "stale" => troubles' # {}
        /\ troubles' \subseteq {"dropped", "overwritten", "cut_off"}
    <3>1. user[u].token \in {"current", "stale"}
      BY <1>1 DEF UserRecord
    <3> QED BY <1>1, <1>8, <3>1 DEF SyncSucceeds, Done, Write
  <2> QED BY <1>4, <2>1, NoUserType
<1>9. ASSUME NEW u \in TokenUsers, AuthFails(u) \/ UserEnds(u) PROVE TokenInv'
  <2>1. /\ user' = [user EXCEPT ![u] = NoUser] /\ UNCHANGED <<links, token>>
        /\ status' \in {"active", "error"} /\ troubles \subseteq troubles'
        /\ troubles' \subseteq {"dropped", "overwritten", "cut_off"}
    BY <1>1, <1>9 DEF AuthFails, UserEnds, Done, Write
  <2>2. CASE ToBeWritten(u)
    <3>1. token' # "stale" \/ troubles' # {}
      BY <1>1, <1>9, <2>1, <2>2 DEF AuthFails, UserEnds, ToBeWritten, Linked
    <3> QED BY <1>1, <1>4, <2>1, <3>1, NoUserType
  <2>3. CASE ~ToBeWritten(u)
    BY <1>1, <1>3, <2>1, <2>3, NoUserType
  <2> QED BY <2>2, <2>3
<1>10. CASE UNCHANGED tokenVars
  BY <1>1, <1>2, <1>10 DEF TokenInv, TokenTypeOK, TokenKept, ToBeWritten, tokenVars, UserRecord
<1> QED BY <1>5, <1>6, <1>7, <1>8, <1>9, <1>10 DEF TokenNext

\* The token in the account's row is one that Blink takes, or a sync that holds
\* that one will write it, unless someone other than a sync exchanged it, or a
\* sync was cut off or overtaken (blink_sync.py's _run_sync, the token users of
\* livefeed/service.py).
THEOREM StoredTokenIsKept == TokenSpec => []TokenInv
<1>1. TokenInit => TokenInv
  BY TokenTypeInit DEF TokenInit, TokenInv, TokenKept
<1>2. TokenInv /\ [TokenNext]_tokenVars => TokenInv'
  BY TokenStep
<1> QED BY <1>1, <1>2, PTL DEF TokenSpec

-----------------------------------------------------------------------------
(* Users and administrators                                                *)

ActRecord == [pc : {"off", "setup", "update", "delete"}, by : People \cup {"nobody"},
              who : People \cup {"nobody"}, was : BOOLEAN, role : BOOLEAN]

\* What a request that is under way alone may rely on when it writes: nobody
\* but the one it is about need be an administrator for there to be one left.
Safe(a) ==
    /\ a.pc = "setup" => setups = 0
    /\ a.pc = "delete" \/ (a.pc = "update" /\ a.was /\ ~a.role) => admins \ {a.who} # {}

\* The strengthening: while nothing has crossed, one request is under way at
\* most, and what it looked at still holds.
AdminIndInv ==
    /\ AdminInv
    /\ \A r \in Requests : act[r].pc # "off" => act[r].who \in People
    /\ ~crossed =>
         /\ \A q, r \in Requests : act[q].pc # "off" /\ act[r].pc # "off" => q = r
         /\ \A r \in Requests : Safe(act[r])
         /\ setups # 0 => users # {}

LEMMA NoActType == NoAct \in ActRecord /\ NoAct.pc = "off"
BY DEF NoAct, ActRecord

LEMMA AdminStart == AdminInit => AdminIndInv
<1> SUFFICES ASSUME AdminInit PROVE AdminIndInv
  OBVIOUS
<1>1. \A r \in Requests : act[r] = NoAct /\ act[r].pc = "off"
  BY NoActType DEF AdminInit
<1>2. AdminTypeOK
  <2>1. act \in [Requests -> ActRecord]
    BY NoActType DEF AdminInit
  <2>2. users \in SUBSET People /\ admins \in SUBSET users
    BY DEF AdminInit
  <2>3. crossed \in BOOLEAN
    BY DEF AdminInit
  <2>4. setups \in 0..2
    BY DEF AdminInit
  <2> QED BY <2>1, <2>2, <2>3, <2>4, Zenon DEF AdminTypeOK, ActRecord
<1>3. \A r \in Requests : Safe(act[r])
  BY <1>1 DEF Safe
<1> QED BY <1>1, <1>2, <1>3 DEF AdminInit, AdminIndInv, AdminInv, AlwaysAnAdmin, SetUpOnce

\* A request begins: it is alone, or something has crossed.
LEMMA Begins ==
    ASSUME AdminIndInv, NEW r \in Requests, NEW job \in ActRecord, StartAct(r, job), job.who \in People,
           ~crossed => Safe(job)
    PROVE  AdminIndInv'
<1>1. /\ act' \in [Requests -> ActRecord] /\ act'[r] = job
      /\ \A q \in Requests \ {r} : act'[q] = act[q]
      /\ crossed' = (crossed \/ UnderWay # {}) /\ UNCHANGED <<users, admins, setups>>
  BY DEF AdminIndInv, AdminInv, AdminTypeOK, ActRecord, StartAct
<1>2. AdminInv' /\ \A q \in Requests : act'[q].pc # "off" => act'[q].who \in People
  BY <1>1 DEF AdminIndInv, AdminInv, AdminTypeOK, AlwaysAnAdmin, SetUpOnce, ActRecord
<1>3. ASSUME ~crossed' PROVE \A q \in Requests \ {r} : act'[q].pc = "off"
  BY <1>1, <1>3 DEF UnderWay
<1>4. ASSUME ~crossed', NEW q \in Requests PROVE Safe(act[q])' /\ (setups # 0 => users # {})
  <2>1. Safe(act[q]) /\ (setups # 0 => users # {})
    BY <1>1, <1>4 DEF AdminIndInv
  <2>2. CASE q = r
    <3>1. ~crossed
      BY <1>1, <1>4
    <3>2. act'[q] = job /\ Safe(job)
      BY <1>1, <2>2, <3>1
    <3> QED BY <1>1, <2>1, <3>2 DEF Safe
  <2>3. CASE q # r
    BY <1>1, <2>1, <2>3 DEF Safe
  <2> QED BY <2>2, <2>3
<1>5. ASSUME ~crossed'
      PROVE  \A p, q \in Requests : act'[p].pc # "off" /\ act'[q].pc # "off" => p = q
  BY <1>3, <1>5
<1>6. ASSUME ~crossed' PROVE setups' # 0 => users' # {}
  BY <1>1, <1>4, <1>6
<1> QED BY <1>2, <1>4, <1>5, <1>6 DEF AdminIndInv

\* A request ends, having changed users, roles and the count of setups.
LEMMA ChangeEnds ==
    ASSUME AdminIndInv, NEW r \in Requests, act[r].pc # "off", Finish(r), crossed' = crossed,
           users' \in SUBSET People, admins' \in SUBSET users', setups' \in 0..2,
           ~crossed => /\ users' # {} => admins' # {}
                       /\ setups' <= 1
                       /\ setups' # 0 => users' # {}
    PROVE  AdminIndInv'
<1>1. /\ act' \in [Requests -> ActRecord] /\ act'[r] = NoAct
      /\ \A q \in Requests \ {r} : act'[q] = act[q]
  BY NoActType DEF AdminIndInv, AdminInv, AdminTypeOK, ActRecord, Finish
<1>2. AdminTypeOK'
  BY <1>1 DEF AdminIndInv, AdminInv, AdminTypeOK, ActRecord
<1>3. /\ \A q \in Requests : act'[q].pc # "off" => act'[q].who \in People
      /\ ~crossed => \A q \in Requests : act'[q].pc = "off"
  BY <1>1, NoActType DEF AdminIndInv
<1>4. ASSUME ~crossed, NEW q \in Requests PROVE Safe(act[q])'
  BY <1>3, <1>4 DEF Safe
<1> QED BY <1>2, <1>3, <1>4 DEF AdminIndInv, AdminInv, AlwaysAnAdmin, SetUpOnce

\* Users and administrators are added.
LEMMA Grows ==
    ASSUME AdminIndInv, users' \in SUBSET People, admins' \in SUBSET users',
           users \subseteq users', admins \subseteq admins', admins' # {},
           UNCHANGED <<act, crossed, setups>>
    PROVE  AdminIndInv'
<1>1. AdminInv'
  BY DEF AdminIndInv, AdminInv, AdminTypeOK, AlwaysAnAdmin, SetUpOnce
<1>2. ASSUME ~crossed, NEW q \in Requests PROVE Safe(act[q])'
  <2>1. Safe(act[q])
    BY <1>2 DEF AdminIndInv
  <2> QED BY <2>1 DEF Safe
<1> QED BY <1>1, <1>2 DEF AdminIndInv

LEMMA AdminStep == AdminIndInv /\ [AdminNext]_adminVars => AdminIndInv'
<1> SUFFICES ASSUME AdminIndInv, [AdminNext]_adminVars PROVE AdminIndInv'
  OBVIOUS
<1>1. /\ users \in SUBSET People /\ admins \in SUBSET users /\ setups \in 0..2
      /\ act \in [Requests -> ActRecord]
      /\ \A r \in Requests : act[r] \in ActRecord
      /\ ~crossed => /\ users # {} => admins # {}
                     /\ setups <= 1
                     /\ setups # 0 => users # {}
                     /\ \A r \in Requests : Safe(act[r])
      /\ \A r \in Requests : act[r].pc # "off" => act[r].who \in People
  BY DEF AdminIndInv, AdminInv, AdminTypeOK, AlwaysAnAdmin, SetUpOnce, ActRecord
<1>2. ASSUME NEW r \in Requests, NEW p \in People, RunSetup(r, p) PROVE AdminIndInv'
  <2> DEFINE job == [NoAct EXCEPT !.pc = "setup", !.who = p]
  <2>1. job \in ActRecord /\ job.pc = "setup" /\ job.who = p
    BY DEF NoAct, ActRecord
  <2>2. StartAct(r, job) /\ users = {}
    BY <1>2 DEF RunSetup
  <2> HIDE DEF job
  <2>3. ~crossed => Safe(job)
    BY <1>1, <2>1, <2>2 DEF Safe
  <2> QED BY <2>1, <2>2, <2>3, Begins
<1>3. ASSUME NEW r \in Requests, NEW a \in People, NEW p \in People, DeleteUser(r, a, p)
      PROVE  AdminIndInv'
  <2> DEFINE job == [NoAct EXCEPT !.pc = "delete", !.by = a, !.who = p]
  <2>1. job \in ActRecord /\ job.pc = "delete" /\ job.who = p
    BY DEF NoAct, ActRecord
  <2>2. StartAct(r, job) /\ a \in admins /\ p # a
    BY <1>3 DEF DeleteUser
  <2> HIDE DEF job
  <2>3. Safe(job)
    BY <2>1, <2>2 DEF Safe
  <2> QED BY <2>1, <2>2, <2>3, Begins
<1>4. ASSUME NEW r \in Requests, NEW a \in People, NEW p \in People, NEW role \in BOOLEAN,
             UpdateUser(r, a, p, role)
      PROVE  AdminIndInv'
  <2> DEFINE job == [pc |-> "update", by |-> a, who |-> p, was |-> p \in admins, role |-> role]
  <2>1. /\ job \in ActRecord /\ job.pc = "update" /\ job.who = p /\ job.was = (p \in admins)
        /\ job.role = role
    BY DEF ActRecord
  <2>2. StartAct(r, job) /\ ~(p \in admins /\ ~role /\ LastAdmin(p))
    BY <1>4 DEF UpdateUser
  <2> HIDE DEF job
  <2>3. Safe(job)
    BY <2>1, <2>2 DEF Safe, LastAdmin
  <2> QED BY <2>1, <2>2, <2>3, Begins
<1>5. ASSUME NEW r \in Requests, SetUp(r) PROVE AdminIndInv'
  <2>1. /\ act[r].pc # "off" /\ act[r].who \in People \cup {"nobody"}
        /\ Finish(r) /\ crossed' = crossed /\ users' = users \cup {act[r].who}
        /\ admins' = IF act[r].who \in users THEN admins ELSE admins \cup {act[r].who}
        /\ setups' \in 0..2 /\ setups' \in {setups, setups + 1}
    BY <1>1, <1>5 DEF SetUp, ActRecord
  <2>2. act[r].who \in People
    BY <1>1, <2>1
  <2>3. ~crossed => setups = 0
    BY <1>1, <1>5 DEF SetUp, Safe
  <2> QED BY <1>1, <2>1, <2>2, <2>3, ChangeEnds
<1>6. ASSUME NEW r \in Requests, SaveRole(r) PROVE AdminIndInv'
  <2>1. /\ act[r].pc = "update" /\ Finish(r) /\ UNCHANGED <<users, crossed, setups>>
        /\ admins' = IF act[r].who \notin users \/ act[r].role = act[r].was THEN admins
                     ELSE IF act[r].role THEN admins \cup {act[r].who} ELSE admins \ {act[r].who}
        /\ act[r].role \in BOOLEAN /\ act[r].was \in BOOLEAN
    BY <1>1, <1>6 DEF SaveRole, ActRecord
  <2>2. ~crossed /\ users # {} => admins' # {}
    BY <1>1, <2>1 DEF Safe
  <2> QED BY <1>1, <2>1, <2>2, ChangeEnds
<1>7. ASSUME NEW r \in Requests, RemoveUser(r) PROVE AdminIndInv'
  <2>1. /\ act[r].pc = "delete" /\ Finish(r) /\ UNCHANGED <<crossed, setups>>
        /\ users' = users \ {act[r].who} /\ admins' = admins \ {act[r].who}
    BY <1>7 DEF RemoveUser
  <2>2. ~crossed => admins' # {}
    BY <1>1, <2>1 DEF Safe
  <2> QED BY <1>1, <2>1, <2>2, ChangeEnds
<1>8. ASSUME NEW r \in Requests, Refused(r) PROVE AdminIndInv'
  BY <1>1, <1>8, ChangeEnds DEF Refused
<1>9. ASSUME NEW a \in People, NEW p \in People, NEW role \in BOOLEAN, CreateUser(a, p, role)
      PROVE  AdminIndInv'
  BY <1>1, <1>9, Grows DEF CreateUser
<1>10. ASSUME NEW p \in People, CreateAdmin(p) PROVE AdminIndInv'
  BY <1>1, <1>10, Grows DEF CreateAdmin
<1>11. CASE UNCHANGED adminVars
  BY <1>11 DEF AdminIndInv, AdminInv, AdminTypeOK, AlwaysAnAdmin, SetUpOnce, Safe, adminVars
<1> QED BY <1>2, <1>3, <1>4, <1>5, <1>6, <1>7, <1>8, <1>9, <1>10, <1>11 DEF AdminNext

\* As long as there are users one of them is an administrator, and the setup
\* wizard makes one account, unless requests that set up or change roles were
\* under way together (users_admin.py's guards against removing the last one,
\* setup.py's run_setup).
THEOREM AnAdministratorRemains == AdminSpec => []AdminInv
<1>1. AdminInit => AdminIndInv
  BY AdminStart
<1>2. AdminIndInv /\ [AdminNext]_adminVars => AdminIndInv'
  BY AdminStep
<1>3. AdminIndInv => AdminInv
  BY DEF AdminIndInv
<1> QED BY <1>1, <1>2, <1>3, PTL DEF AdminSpec

-----------------------------------------------------------------------------
(* Connecting a cloud drive                                                *)

HandlerSlots ==
    [pc : {"off", "begin", "verifier", "consume", "exchange"}, provider : Providers \cup {"none"},
     state : Flows \cup {"none"}, seen : FlowRows, client : Clients]

LEMMA NoFlowIsARow ==
    /\ NoFlow \in FlowRows /\ NoFlow.state = "none" /\ NoFlow.verifier = "none"
    /\ NoHandler \in HandlerSlots /\ NoHandler.pc = "off" /\ NoHandler.seen = NoFlow
<1>1. NoFlow \in FlowRows
  BY DEF NoFlow, FlowRows
<1>2. 0 \in Clients
  BY OAuthFlowAssumption DEF Clients
<1> QED BY <1>1, <1>2 DEF NoFlow, NoHandler, HandlerSlots

\* The columns that a request writes, one by one.
LEMMA ColumnsWritten ==
    ASSUME NEW seen \in FlowRows, NEW new \in FlowRows, flow \in FlowRows
    PROVE  /\ FlowWritten(seen, new) \in FlowRows
           /\ FlowWritten(seen, new).state = IF seen.state = new.state THEN flow.state ELSE new.state
           /\ FlowWritten(seen, new).verifier = IF seen.verifier = new.verifier THEN flow.verifier ELSE new.verifier
<1>1. DOMAIN NoFlow = {"provider", "state", "verifier", "live"}
  BY DEF NoFlow
<1>2. PICK provider \in Providers \cup {"none"} :
        provider = IF seen.provider = new.provider THEN flow.provider ELSE new.provider
  BY DEF FlowRows
<1>3. PICK state \in Flows \cup {"none"} : state = IF seen.state = new.state THEN flow.state ELSE new.state
  BY DEF FlowRows
<1>4. PICK verifier \in Flows \cup {"none"} :
        verifier = IF seen.verifier = new.verifier THEN flow.verifier ELSE new.verifier
  BY DEF FlowRows
<1>5. flow.live \in BOOLEAN /\ new.live \in BOOLEAN
  BY DEF FlowRows
<1>6. PICK live : live = IF seen["live"] = new["live"] THEN flow["live"] ELSE new["live"]
  OBVIOUS
<1>7. live \in BOOLEAN
  BY <1>5, <1>6
<1>8. FlowWritten(seen, new) = [provider |-> provider, state |-> state, verifier |-> verifier, live |-> live]
  BY <1>1, <1>2, <1>3, <1>4, <1>6 DEF FlowWritten, FlowRows
<1>9. FlowWritten(seen, new) \in FlowRows
  BY <1>7, <1>8 DEF FlowRows
<1> QED BY <1>3, <1>4, <1>8, <1>9

LEMMA OAuthBegins == OAuthInit => OAuthIInv
<1> SUFFICES ASSUME OAuthInit PROVE OAuthIInv
  OBVIOUS
<1> USE DEF OAuthInit
<1>1. OAuthTypeOK
  <2>1. 0 \in Clients
    BY OAuthFlowAssumption DEF Clients
  <2>2. handler \in [Handlers -> HandlerSlots]
    BY NoFlowIsARow
  <2>3. DOMAIN begun = {} /\ begun \in [DOMAIN begun -> Providers]
    OBVIOUS
  <2> QED BY <2>1, <2>2, <2>3, NoFlowIsARow DEF OAuthTypeOK, HandlerSlots
<1>2. AcceptedOnce /\ VerifierFits
  BY NoFlowIsARow DEF AcceptedOnce, VerifierFits
<1>3. FlowsAreFresh /\ LoadedIsThere /\ PendingFits /\ AcceptedIsGone
  BY NoFlowIsARow DEF FlowsAreFresh, LoadedIsThere, PendingFits, AcceptedIsGone, Active
<1> QED BY <1>1, <1>2, <1>3 DEF OAuthIInv, OAuthInv

\* The states of the other requests under way.
LEMMA OthersAreActive ==
    ASSUME OAuthIInv, NEW h \in Handlers
    PROVE  /\ Others(h) \subseteq Flows
           /\ \A g \in Handlers \ {h} : Active(g) => handler[g].state \in Others(h)
BY OAuthFlowAssumption DEF OAuthIInv, OAuthInv, OAuthTypeOK, FlowsAreFresh, Active, Others

\* A request begins, with a fresh flow or one that was started: if it meets
\* others, their flows and its own are astray.
LEMMA HandlerBegins ==
    ASSUME OAuthIInv, NEW h \in Handlers, NEW r \in HandlerSlots,
           ~Active(h), handler' = [handler EXCEPT ![h] = r],
           astray' = IF Others(h) = {} THEN astray ELSE astray \cup {r.state} \cup Others(h),
           UNCHANGED <<client, flow, refresh, begun, granted, raced>>,
           r.provider \in Providers, r.state \in Flows, r.seen = flow,
           \/ r.pc = "begin" /\ r.state \notin DOMAIN begun \cup Others(h)
           \/ r.pc = "consume" /\ r.state \in DOMAIN begun
    PROVE  OAuthIInv'
<1> USE DEF OAuthIInv, OAuthInv
<1>1. handler' \in [Handlers -> HandlerSlots] /\ \A g \in Handlers : handler'[g] = IF g = h THEN r ELSE handler[g]
  BY DEF OAuthTypeOK, HandlerSlots
<1>2. astray \subseteq astray' /\ astray' \subseteq Flows
  BY OthersAreActive DEF OAuthTypeOK
<1>3. OAuthTypeOK'
  BY <1>1, <1>2 DEF OAuthTypeOK, HandlerSlots
<1>4. AcceptedOnce' /\ VerifierFits' /\ PendingFits' /\ AcceptedIsGone'
  <2>1. AcceptedOnce' /\ VerifierFits'
    BY <1>2 DEF AcceptedOnce, VerifierFits
  <2>2. PendingFits'
    BY <1>1, <1>2 DEF PendingFits
  <2>3. AcceptedIsGone'
    BY <1>1 DEF AcceptedIsGone
  <2> QED BY <2>1, <2>2, <2>3
<1>5. FlowsAreFresh'
  <2>1. \A g \in Handlers \ {h} : handler[g].pc = "begin" => handler[g].state \in Others(h)
    BY OthersAreActive DEF Active
  <2> QED BY <1>1, <2>1 DEF FlowsAreFresh, Active
<1>6. LoadedIsThere'
  <2>1. \A f, g \in Handlers : Active(f)' /\ Active(g)' /\ f # g => handler'[f].state \in astray'
    BY <1>1, OthersAreActive, <1>2 DEF LoadedIsThere, Active
  <2>2. \A g \in Handlers : handler'[g].pc \in {"begin", "consume"} /\ handler'[g].state \notin astray' =>
          handler'[g].seen.state = flow.state /\ handler'[g].seen.verifier = flow.verifier
    BY <1>1, <1>2 DEF LoadedIsThere
  <2> QED BY <2>1, <2>2 DEF LoadedIsThere
<1> QED BY <1>3, <1>4, <1>5, <1>6

\* start_google_drive_oauth, start_onedrive_oauth and the loads of a callback
LEMMA OAuthRequests ==
    ASSUME OAuthIInv, NEW h \in Handlers,
           (\E p \in Providers : StartFlow(h, p)) \/ (\E s \in Flows : Callback(h, s))
    PROVE  OAuthIInv'
<1> USE DEF OAuthIInv, OAuthInv
<1>1. ASSUME NEW p \in Providers, StartFlow(h, p) PROVE OAuthIInv'
  <2>1. PICK s \in Flows \ (DOMAIN begun \cup Others(h)) :
          /\ handler' = [handler EXCEPT ![h] =
               [NoHandler EXCEPT !.pc = "begin", !.provider = p, !.state = s, !.seen = flow]]
          /\ astray' = IF Others(h) = {} THEN astray ELSE astray \cup {s} \cup Others(h)
    BY <1>1 DEF StartFlow
  <2>2. PICK r : r = [NoHandler EXCEPT !.pc = "begin", !.provider = p, !.state = s, !.seen = flow]
    OBVIOUS
  <2>3. r \in HandlerSlots /\ r.pc = "begin" /\ r.provider = p /\ r.state = s /\ r.seen = flow
    BY <2>2, NoFlowIsARow DEF HandlerSlots, OAuthTypeOK
  <2>4. ~Active(h) /\ UNCHANGED <<client, flow, refresh, begun, granted, raced>>
    BY <1>1 DEF StartFlow, Active
  <2>5. handler' = [handler EXCEPT ![h] = r]
    BY <2>1, <2>2
  <2> QED BY <2>1, <2>3, <2>4, <2>5, HandlerBegins
<1>2. ASSUME NEW s \in Flows, Callback(h, s) PROVE OAuthIInv'
  <2>1. PICK r : r = [NoHandler EXCEPT !.pc = "consume", !.provider = begun[s], !.state = s,
                                       !.seen = flow, !.client = client[begun[s]]]
    OBVIOUS
  <2>2. handler' = [handler EXCEPT ![h] = r]
    BY <1>2, <2>1 DEF Callback
  <2>3. s \in DOMAIN begun /\ begun[s] \in Providers /\ client[begun[s]] \in Clients
    BY <1>2 DEF Callback, OAuthTypeOK
  <2>4. r \in HandlerSlots /\ r.pc = "consume" /\ r.provider = begun[s] /\ r.state = s /\ r.seen = flow
    BY <2>1, <2>3, NoFlowIsARow DEF HandlerSlots, OAuthTypeOK
  <2>5. ~Active(h) /\ UNCHANGED <<client, flow, refresh, begun, granted, raced>>
          /\ astray' = IF Others(h) = {} THEN astray ELSE astray \cup {s} \cup Others(h)
    BY <1>2 DEF Callback, Active
  <2> QED BY <2>2, <2>3, <2>4, <2>5, HandlerBegins
<1> QED BY <1>1, <1>2

\* begin_oauth: alone, the flow is pending as it is written; with others under
\* way the row may be a mixture, of a flow that is astray.
LEMMA OAuthStarts ==
    ASSUME OAuthIInv, NEW h \in Handlers, BeginFlow(h)
    PROVE  OAuthIInv'
<1> DEFINE p == handler[h].provider
           s == handler[h].state
           seen == handler[h].seen
<1> USE DEF OAuthIInv, OAuthInv
<1>1. /\ handler[h].pc = "begin" /\ p \in Providers /\ s \in Flows /\ s \notin DOMAIN begun
      /\ seen \in FlowRows /\ seen.state \in DOMAIN begun \cup {"none"} /\ s # "none"
  BY OAuthFlowAssumption DEF BeginFlow, FlowsAreFresh, Active, OAuthTypeOK
<1>2. PICK new : new = [provider |-> p, state |-> s, verifier |-> "none", live |-> TRUE]
  OBVIOUS
<1>3. new \in FlowRows
  BY <1>1, <1>2 DEF FlowRows
<1>4. flow' = [FlowWritten(seen, new) EXCEPT !.live = TRUE]
  BY <1>2 DEF BeginFlow
<1>5. /\ FlowWritten(seen, new) \in FlowRows
      /\ FlowWritten(seen, new).state = IF seen.state = new.state THEN flow.state ELSE new.state
      /\ FlowWritten(seen, new).verifier = IF seen.verifier = new.verifier THEN flow.verifier ELSE new.verifier
  BY <1>1, <1>3, ColumnsWritten DEF OAuthTypeOK
<1>6. /\ flow' \in FlowRows /\ flow'.state = s
      /\ flow'.verifier = IF seen.verifier = "none" THEN flow.verifier ELSE "none"
  <2>1. /\ new.provider = p /\ new.state = s /\ new.verifier = "none" /\ new.live = TRUE
        /\ seen.state # s
    BY <1>1, <1>2
  <2> HIDE DEF p, s, seen
  <2>2. PICK w : w = FlowWritten(seen, new)
    OBVIOUS
  <2>3. /\ w \in FlowRows /\ w.state = s
        /\ w.verifier = IF seen.verifier = "none" THEN flow.verifier ELSE "none"
    BY <1>5, <2>1, <2>2
  <2>4. flow' = [w EXCEPT !.live = TRUE]
    BY <1>4, <2>2
  <2> QED BY <2>3, <2>4 DEF FlowRows
<1>7. /\ begun' = [t \in DOMAIN begun \cup {s} |-> IF t = s THEN p ELSE begun[t]]
      /\ UNCHANGED <<client, refresh, granted, raced, astray>>
  BY DEF BeginFlow
<1>8. PICK r : r = IF p \in Pkce THEN [handler[h] EXCEPT !.pc = "verifier", !.seen = NoFlow] ELSE NoHandler
  OBVIOUS
<1>9. r \in HandlerSlots /\ ((r.pc = "verifier" /\ r.provider = p /\ r.state = s) \/ r.pc = "off")
  BY <1>8, NoFlowIsARow DEF HandlerSlots, OAuthTypeOK
<1>10. handler' = [handler EXCEPT ![h] = r]
  BY <1>8 DEF BeginFlow
<1>11. handler' \in [Handlers -> HandlerSlots] /\ \A g \in Handlers : handler'[g] = IF g = h THEN r ELSE handler[g]
  BY <1>9, <1>10 DEF OAuthTypeOK, HandlerSlots
<1>12. \A g \in Handlers : g # h /\ Active(g) => s \in astray /\ handler[g].state \in astray
  BY <1>1 DEF LoadedIsThere, Active
<1>13. s \notin astray => seen.verifier = flow.verifier
  BY <1>1 DEF LoadedIsThere
<1>14. \A g \in Handlers : g # h /\ handler[g].pc = "begin" => handler[g].state # s
  BY <1>1 DEF FlowsAreFresh
<1>15. granted[s] = 0
  BY <1>1 DEF FlowsAreFresh, OAuthTypeOK
<1>16. DOMAIN begun' = DOMAIN begun \cup {s} /\ begun' \in [DOMAIN begun' -> Providers]
  BY <1>1, <1>7 DEF OAuthTypeOK
<1> HIDE DEF p, s, seen
<1>17. OAuthTypeOK'
  BY <1>1, <1>6, <1>7, <1>11, <1>16 DEF OAuthTypeOK, HandlerSlots
<1>18. AcceptedOnce' /\ VerifierFits'
  BY <1>6, <1>7, <1>13 DEF AcceptedOnce, VerifierFits
<1>19. FlowsAreFresh'
  <2>1. \A g \in Handlers : Active(g)' =>
          /\ handler'[g].provider \in Providers /\ handler'[g].state \in Flows
          /\ handler'[g].state \in DOMAIN begun' <=> handler'[g].pc # "begin"
          /\ handler'[g].pc = "begin" => handler'[g].seen.state \in DOMAIN begun' \cup {"none"}
    BY <1>1, <1>9, <1>11, <1>14, <1>16 DEF FlowsAreFresh, Active
  <2>2. \A f, g \in Handlers : handler'[f].pc = "begin" /\ handler'[g].pc = "begin"
                                 /\ handler'[f].state = handler'[g].state => f = g
    BY <1>9, <1>11 DEF FlowsAreFresh
  <2>3. flow'.state \in DOMAIN begun' \cup {"none"} /\ \A t \in Flows : granted'[t] > 0 => t \in DOMAIN begun'
    BY <1>6, <1>7, <1>16 DEF FlowsAreFresh
  <2> QED BY <2>1, <2>2, <2>3 DEF FlowsAreFresh
<1>20. LoadedIsThere'
  <2>1. \A f, g \in Handlers : Active(f)' /\ Active(g)' /\ f # g => handler'[f].state \in astray'
    BY <1>7, <1>9, <1>11, <1>12 DEF LoadedIsThere, Active
  <2>2. \A g \in Handlers : handler'[g].pc \in {"begin", "consume"} => handler'[g].state \in astray'
    BY <1>7, <1>9, <1>11, <1>12 DEF Active
  <2> QED BY <2>1, <2>2 DEF LoadedIsThere
<1>21. PendingFits'
  <2>1. \A g \in Handlers : handler'[g].pc = "verifier" => flow'.state \in astray' \cup {"none", handler'[g].state}
    BY <1>6, <1>7, <1>9, <1>11, <1>12 DEF Active
  <2> QED BY <2>1 DEF PendingFits
<1>22. AcceptedIsGone'
  <2>1. \A t \in Flows : granted'[t] > 0 => flow'.state # t
    BY <1>6, <1>7, <1>15
  <2>2. \A g \in Handlers : handler'[g].pc = "consume" => handler'[g] = handler[g]
    BY <1>9, <1>11
  <2> QED BY <1>7, <2>1, <2>2 DEF AcceptedIsGone
<1> QED BY <1>17, <1>18, <1>19, <1>20, <1>21, <1>22

\* A slot that ends, or goes on to the exchange with the same flow.
LEMMA HandlerGoesOn ==
    ASSUME OAuthIInv, NEW h \in Handlers, NEW r \in HandlerSlots,
           handler' = [handler EXCEPT ![h] = r],
           r.pc = "off" \/ (r.pc = "exchange" /\ handler[h].pc = "consume"
                              /\ r.provider = handler[h].provider /\ r.state = handler[h].state),
           UNCHANGED <<begun, astray>>, flow'.state \in {flow.state, "none"},
           \A g \in Handlers : g # h /\ handler[g].pc \in {"begin", "consume"} /\ handler[g].state \notin astray =>
              flow'.state = flow.state /\ flow'.verifier = flow.verifier,
           \A s \in Flows : granted'[s] > 0 => s \in DOMAIN begun
    PROVE  FlowsAreFresh' /\ LoadedIsThere' /\ PendingFits'
<1> USE DEF OAuthIInv, OAuthInv
<1>1. \A g \in Handlers : handler'[g] = IF g = h THEN r ELSE handler[g]
  BY DEF OAuthTypeOK
<1>2. FlowsAreFresh'
  <2>1. \A g \in Handlers : Active(g)' =>
          /\ handler'[g].provider \in Providers /\ handler'[g].state \in Flows
          /\ handler'[g].state \in DOMAIN begun' <=> handler'[g].pc # "begin"
          /\ handler'[g].pc = "begin" => handler'[g].seen.state \in DOMAIN begun' \cup {"none"}
    BY <1>1 DEF FlowsAreFresh, Active
  <2>2. \A f, g \in Handlers : handler'[f].pc = "begin" /\ handler'[g].pc = "begin"
                                 /\ handler'[f].state = handler'[g].state => f = g
    BY <1>1 DEF FlowsAreFresh
  <2>3. flow'.state \in DOMAIN begun' \cup {"none"} /\ \A s \in Flows : granted'[s] > 0 => s \in DOMAIN begun'
    BY DEF FlowsAreFresh
  <2> QED BY <2>1, <2>2, <2>3 DEF FlowsAreFresh
<1>3. LoadedIsThere'
  <2>1. \A f, g \in Handlers : Active(f)' /\ Active(g)' /\ f # g => handler'[f].state \in astray'
    BY <1>1 DEF LoadedIsThere, Active
  <2>2. \A g \in Handlers : handler'[g].pc \in {"begin", "consume"} /\ handler'[g].state \notin astray' =>
          handler'[g].seen.state = flow'.state /\ handler'[g].seen.verifier = flow'.verifier
    BY <1>1 DEF LoadedIsThere
  <2> QED BY <2>1, <2>2 DEF LoadedIsThere
<1>4. PendingFits'
  BY <1>1 DEF PendingFits
<1> QED BY <1>2, <1>3, <1>4

\* consume_oauth_state: a flow that has not met another is pending when it is
\* accepted, and not afterwards.
LEMMA OAuthConsumes ==
    ASSUME OAuthIInv, NEW h \in Handlers, Consume(h)
    PROVE  OAuthIInv'
<1> DEFINE s == handler[h].state
           seen == handler[h].seen
           accepted == Matches(h) /\ (handler[h].provider \notin Pkce \/ seen.verifier # "none") /\ handler[h].client # 0
<1> USE DEF OAuthIInv, OAuthInv
<1>1. /\ handler[h].pc = "consume" /\ s \in Flows /\ s \in DOMAIN begun /\ seen \in FlowRows /\ s # "none"
      /\ handler[h] \in HandlerSlots
  BY OAuthFlowAssumption DEF Consume, FlowsAreFresh, Active, OAuthTypeOK, HandlerSlots
<1>2. flow' = [FlowWritten(seen, NoFlow) EXCEPT !.live = IF seen.state = "none" THEN flow.live ELSE FALSE]
        /\ UNCHANGED <<client, refresh, begun, astray>>
  BY DEF Consume
<1>3. /\ FlowWritten(seen, NoFlow) \in FlowRows
      /\ FlowWritten(seen, NoFlow).state = IF seen.state = "none" THEN flow.state ELSE "none"
      /\ FlowWritten(seen, NoFlow).verifier = IF seen.verifier = "none" THEN flow.verifier ELSE "none"
  BY <1>1, NoFlowIsARow, ColumnsWritten DEF OAuthTypeOK
<1>4. /\ flow' \in FlowRows
      /\ flow'.state = IF seen.state = "none" THEN flow.state ELSE "none"
      /\ flow'.verifier = IF seen.verifier = "none" THEN flow.verifier ELSE "none"
  <2> HIDE DEF s, seen, accepted
  <2>1. PICK w : w = FlowWritten(seen, NoFlow)
    OBVIOUS
  <2>2. /\ w \in FlowRows
        /\ w.state = IF seen.state = "none" THEN flow.state ELSE "none"
        /\ w.verifier = IF seen.verifier = "none" THEN flow.verifier ELSE "none"
    BY <1>3, <2>1
  <2>3. PICK live \in BOOLEAN : live = IF seen.state = "none" THEN flow.live ELSE FALSE
    BY DEF FlowRows, OAuthTypeOK
  <2>4. flow' = [w EXCEPT !.live = live]
    BY <1>2, <2>1, <2>3
  <2> QED BY <2>2, <2>4 DEF FlowRows
<1>5. PICK r : r = IF accepted THEN [handler[h] EXCEPT !.pc = "exchange"] ELSE NoHandler
  OBVIOUS
<1>6. /\ r \in HandlerSlots
      /\ r.pc = "off" \/ (r.pc = "exchange" /\ r.provider = handler[h].provider /\ r.state = s)
  BY <1>1, <1>5, NoFlowIsARow DEF HandlerSlots
<1>7. handler' = [handler EXCEPT ![h] = r]
  BY <1>5 DEF Consume, Ends
<1>8. /\ granted' = IF accepted THEN [granted EXCEPT ![s] = @ + 1] ELSE granted
      /\ raced' = IF accepted /\ LoadedTwice(h) THEN raced \cup {s} ELSE raced
  BY DEF Consume
<1>9. \A g \in Handlers : g # h /\ Active(g) => handler[g].state \in astray
  BY <1>1 DEF LoadedIsThere, Active
<1>10. s \notin astray => seen.state = flow.state
  BY <1>1 DEF LoadedIsThere
<1>11. accepted => seen.state = s
  BY DEF Matches
<1> HIDE DEF s, seen, accepted
<1>12. granted' \in [Flows -> Nat] /\ \A t \in Flows : granted'[t] = IF accepted /\ t = s THEN granted[t] + 1 ELSE granted[t]
  BY <1>1, <1>8 DEF OAuthTypeOK
<1>13. OAuthTypeOK'
  <2>1. handler' \in [Handlers -> HandlerSlots] /\ raced' \subseteq Flows
    BY <1>1, <1>6, <1>7, <1>8 DEF OAuthTypeOK, HandlerSlots
  <2> QED BY <1>2, <1>4, <1>12, <2>1 DEF OAuthTypeOK, HandlerSlots
<1>14. accepted /\ s \notin raced => granted[s] = 0
  BY <1>1, <1>11 DEF s, seen, AcceptedIsGone, OAuthTypeOK
<1>15. AcceptedOnce'
  BY <1>1, <1>8, <1>12, <1>14 DEF AcceptedOnce
<1>16. VerifierFits'
  BY <1>2, <1>4 DEF VerifierFits
<1>17. \A t \in Flows : granted'[t] > 0 => t \in DOMAIN begun
  BY <1>1, <1>12 DEF FlowsAreFresh
<1>18. AcceptedIsGone'
  <2>1. \A g \in Handlers : handler'[g].pc = "consume" => g # h /\ handler'[g] = handler[g]
    BY <1>6, <1>7 DEF OAuthTypeOK
  <2>2. ASSUME NEW t \in Flows, granted'[t] > 0
        PROVE  /\ flow'.state # t
               /\ t \notin raced' =>
                    \A g \in Handlers : handler'[g].pc = "consume" /\ handler'[g].state = t => handler'[g].seen.state # t
    <3>1. CASE accepted /\ t = s
      <4>1. flow'.state # t
        BY <3>1, <1>1, <1>4, <1>11
      <4>2. t \notin raced' =>
              \A g \in Handlers \ {h} : ~(handler[g].pc = "consume" /\ handler[g].state = t /\ handler[g].seen.state = t)
        BY <3>1, <1>8 DEF LoadedTwice, s
      <4> QED BY <2>1, <4>1, <4>2
    <3>2. CASE ~(accepted /\ t = s)
      <4>1. granted[t] > 0 /\ (t \notin raced' => t \notin raced)
        BY <2>2, <3>2, <1>8, <1>12
      <4> QED BY <2>1, <4>1, <1>4, OAuthFlowAssumption DEF AcceptedIsGone
    <3> QED BY <3>1, <3>2
  <2> QED BY <2>2 DEF AcceptedIsGone
<1>19. FlowsAreFresh' /\ LoadedIsThere' /\ PendingFits'
  BY <1>1, <1>2, <1>4, <1>6, <1>7, <1>9, <1>17, HandlerGoesOn DEF s, Active
<1> QED BY <1>13, <1>15, <1>16, <1>18, <1>19

\* set_pending_oauth_code_verifier, and the ends of the exchange
LEMMA OAuthFinishes ==
    ASSUME OAuthIInv, NEW h \in Handlers, SetVerifier(h) \/ ExchangeFails(h) \/ Connected(h)
    PROVE  OAuthIInv'
<1> USE DEF OAuthIInv, OAuthInv
<1>1. /\ Active(h) /\ handler[h] \in HandlerSlots /\ handler[h].provider \in Providers /\ handler[h].state \in Flows
      /\ handler' = [handler EXCEPT ![h] = NoHandler]
      /\ UNCHANGED <<client, begun, granted, raced, astray>>
  BY DEF SetVerifier, ExchangeFails, Connected, Ends, Active, FlowsAreFresh, OAuthTypeOK, HandlerSlots
<1>2. refresh' \in [Providers -> Clients]
  BY <1>1 DEF SetVerifier, ExchangeFails, Connected, OAuthTypeOK, HandlerSlots
<1>3. \A g \in Handlers : g # h /\ Active(g) => handler[g].state \in astray
  BY <1>1 DEF LoadedIsThere
<1>4. handler' \in [Handlers -> HandlerSlots]
  BY <1>1, NoFlowIsARow DEF OAuthTypeOK, HandlerSlots
<1>5. flow' \in FlowRows /\ flow'.state = flow.state /\ VerifierFits'
  <2>1. CASE SetVerifier(h)
    <3>1. flow' = [flow EXCEPT !.verifier = handler[h].state] /\ handler[h].pc = "verifier"
      BY <2>1 DEF SetVerifier
    <3>2. flow' \in FlowRows /\ flow'.state = flow.state /\ flow'.verifier = handler[h].state
      BY <1>1, <3>1 DEF FlowRows, OAuthTypeOK
    <3> QED BY <1>1, <3>1, <3>2 DEF VerifierFits, PendingFits
  <2>2. CASE ExchangeFails(h) \/ Connected(h)
    BY <1>1, <2>2 DEF ExchangeFails, Connected, OAuthTypeOK, VerifierFits
  <2> QED BY <2>1, <2>2
<1>6. OAuthTypeOK' /\ AcceptedOnce'
  <2>1. OAuthTypeOK'
    BY <1>1, <1>2, <1>4, <1>5 DEF OAuthTypeOK, HandlerSlots
  <2>2. AcceptedOnce'
    BY <1>1 DEF AcceptedOnce
  <2> QED BY <2>1, <2>2
<1>7. FlowsAreFresh' /\ LoadedIsThere' /\ PendingFits'
  <2>1. \A s \in Flows : granted'[s] > 0 => s \in DOMAIN begun
    BY <1>1 DEF FlowsAreFresh
  <2>2. \A g \in Handlers : g # h /\ handler[g].pc \in {"begin", "consume"} => handler[g].state \in astray
    BY <1>3 DEF Active
  <2> QED BY <1>1, <1>5, <2>1, <2>2, NoFlowIsARow, HandlerGoesOn
<1>8. AcceptedIsGone'
  <2>1. \A g \in Handlers : handler'[g].pc = "consume" => handler'[g] = handler[g]
    BY <1>1, NoFlowIsARow DEF OAuthTypeOK
  <2> QED BY <1>1, <1>5, <2>1 DEF AcceptedIsGone
<1> QED BY <1>5, <1>6, <1>7, <1>8

\* Time passes, or the form is saved.
LEMMA OAuthWaits ==
    ASSUME OAuthIInv, FlowExpires \/ (\E p \in Providers : SaveForm(p)) \/ UNCHANGED oauthVars
    PROVE  OAuthIInv'
<1> USE DEF OAuthIInv, OAuthInv
<1>1. UNCHANGED <<refresh, begun, handler, granted, raced, astray>>
  BY DEF FlowExpires, SaveForm, oauthVars
<1>2. client' \in [Providers -> Clients]
  BY DEF FlowExpires, SaveForm, oauthVars, OAuthTypeOK
<1>3. flow' \in FlowRows /\ flow'.state = flow.state /\ flow'.verifier = flow.verifier
  BY DEF FlowExpires, SaveForm, oauthVars, OAuthTypeOK, FlowRows
<1>4. OAuthTypeOK'
  BY <1>1, <1>2, <1>3 DEF OAuthTypeOK
<1>5. AcceptedOnce' /\ VerifierFits'
  BY <1>1, <1>3 DEF AcceptedOnce, VerifierFits
<1>6. FlowsAreFresh' /\ LoadedIsThere' /\ PendingFits' /\ AcceptedIsGone'
  BY <1>1, <1>3 DEF FlowsAreFresh, LoadedIsThere, PendingFits, AcceptedIsGone, Active
<1> QED BY <1>4, <1>5, <1>6

\* However starts of flows, callbacks and forms come between each other's loads
\* and commits, a state is accepted again only by a callback that had loaded it
\* when the first was accepted (integrations/service.py: consume_oauth_state),
\* and a state that met no other request has its own verifier or none
\* (begin_oauth, set_pending_oauth_code_verifier).
THEOREM FlowsDoNotMix == OAuthSpec => []OAuthInv
<1>1. OAuthInit => OAuthIInv
  BY OAuthBegins
<1>2. OAuthIInv /\ [OAuthNext]_oauthVars => OAuthIInv'
  <2> SUFFICES ASSUME OAuthIInv, [OAuthNext]_oauthVars PROVE OAuthIInv'
    OBVIOUS
  <2>1. CASE \E h \in Handlers : (\E p \in Providers : StartFlow(h, p)) \/ (\E s \in Flows : Callback(h, s))
    BY <2>1, OAuthRequests
  <2>2. CASE \E h \in Handlers : BeginFlow(h)
    BY <2>2, OAuthStarts
  <2>3. CASE \E h \in Handlers : Consume(h)
    BY <2>3, OAuthConsumes
  <2>4. CASE \E h \in Handlers : SetVerifier(h) \/ ExchangeFails(h) \/ Connected(h)
    BY <2>4, OAuthFinishes
  <2>5. CASE FlowExpires \/ (\E p \in Providers : SaveForm(p)) \/ UNCHANGED oauthVars
    BY <2>5, OAuthWaits
  <2> QED BY <2>1, <2>2, <2>3, <2>4, <2>5 DEF OAuthNext
<1>3. OAuthIInv => OAuthInv
  BY DEF OAuthIInv
<1> QED BY <1>1, <1>2, <1>3, PTL DEF OAuthSpec
===============================================================================
