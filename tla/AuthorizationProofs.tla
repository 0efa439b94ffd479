------------------------- MODULE AuthorizationProofs -------------------------
(***************************************************************************)
(* Proofs about AuthorizationFlow, for any number of requests, users,      *)
(* clients and scopes, any prompts, lifetimes and limits.  What holds for  *)
(* every interleaving, both kinds of store and any failure comes first;    *)
(* what the code promises only for in-memory stores, or when requests are  *)
(* served one at a time, has that as its hypothesis.                       *)
(***************************************************************************)
EXTENDS AuthorizationProperties, TLAPS, FiniteSetTheorems

-----------------------------------------------------------------------------
(* Types, and what a request knows at each label.                          *)

\* The kinds of request that pass each label.
KindAt(label, kind) ==
  /\ label \in {"consented", "handoff"} => kind = "authorize"
  /\ label \in {"session", "drop", "complete", "issue", "recordGrant", "putGrant"} =>
       kind \in {"authorize", "consent"}
  /\ label \in {"recordConsent", "putConsent", "clear"} => kind = "consent"
  /\ label = "find" => kind \in {"login", "consent"}
  /\ label \in {"authenticate", "clearHandoff", "clearSession", "setHandoff", "setSession",
                "respond"} => kind = "login"
  /\ label \in {"withdraw", "detach", "cascade"} => kind = "withdraw"

\* From the decision to issue a code to its record in the consent store.
Late == {"recordConsent", "putConsent", "recordGrant", "putGrant"}
Answering == {"complete", "issue"} \cup Late

Knows(label, q) ==
  /\ KindAt(label, q.kind)
  /\ q.kind = "withdraw" => q.user \in Users /\ q.client \in Clients
  /\ label \in {"consented", "handoff", "setSession"} \cup Answering => q.session \in Session
  /\ label \in {"clearHandoff", "clearSession", "setHandoff"} => q.user \in Users
  /\ label = "clearSession" => q.cookie \in Requests

Control(r) ==
  /\ pc[r] = "idle" <=> req[r] = Absent
  /\ pc[r] = "idle" => asked[r] = Absent
  /\ req[r] # Absent =>
       /\ Knows(pc[r], req[r])
       /\ req[r].kind # "withdraw" => asked[req[r].txn] # Absent
       /\ req[r].kind = "authorize" => req[r].txn = r

Typed == TypeOK /\ \A r \in Requests : Control(r)

\* Nothing is stored or under way at first.
LEMMA InitTyped == Init => Typed
  BY FlowAssumption DEF Init, Typed, TypeOK, Control, NoConsent, Consent

\* A request whose one field changes is a request of the same kind.
LEMMA RequestUpdates ==
  ASSUME NEW q \in Request
  PROVE  /\ \A s \in Session \cup {Absent} :
              /\ [q EXCEPT !.session = s] \in Request
              /\ [q EXCEPT !.session = s].kind = q.kind
              /\ [q EXCEPT !.session = s].txn = q.txn
              /\ [q EXCEPT !.session = s].user = q.user
              /\ [q EXCEPT !.session = s].client = q.client
              /\ [q EXCEPT !.session = s].session = s
         /\ \A n \in Nat :
              /\ [q EXCEPT !.attempts = n] \in Request
              /\ [q EXCEPT !.attempts = n].kind = q.kind
              /\ [q EXCEPT !.attempts = n].txn = q.txn
              /\ [q EXCEPT !.attempts = n].user = q.user
              /\ [q EXCEPT !.attempts = n].client = q.client
              /\ [q EXCEPT !.attempts = n].session = q.session
         /\ \A u \in Users :
              /\ [q EXCEPT !.user = u] \in Request
              /\ [q EXCEPT !.user = u].kind = q.kind
              /\ [q EXCEPT !.user = u].txn = q.txn
              /\ [q EXCEPT !.user = u].user = u
              /\ [q EXCEPT !.user = u].client = q.client
              /\ [q EXCEPT !.user = u].session = q.session
         /\ \A e \in Consent :
              /\ [q EXCEPT !.entry = e] \in Request
              /\ [q EXCEPT !.entry = e].kind = q.kind
              /\ [q EXCEPT !.entry = e].txn = q.txn
              /\ [q EXCEPT !.entry = e].user = q.user
              /\ [q EXCEPT !.entry = e].client = q.client
              /\ [q EXCEPT !.entry = e].session = q.session
              /\ [q EXCEPT !.entry = e].entry = e
         /\ \A d \in SUBSET Requests :
              /\ [q EXCEPT !.doomed = d] \in Request
              /\ [q EXCEPT !.doomed = d].kind = q.kind
              /\ [q EXCEPT !.doomed = d].txn = q.txn
              /\ [q EXCEPT !.doomed = d].user = q.user
              /\ [q EXCEPT !.doomed = d].client = q.client
              /\ [q EXCEPT !.doomed = d].session = q.session
              /\ [q EXCEPT !.doomed = d].doomed = d
<1>1. \A s \in Session \cup {Absent} : [q EXCEPT !.session = s] \in Request
  BY DEF Request
<1>2. \A n \in Nat : [q EXCEPT !.attempts = n] \in Request
  BY DEF Request
<1>3. \A u \in Users : [q EXCEPT !.user = u] \in Request
  BY DEF Request
<1>4. \A e \in Consent : [q EXCEPT !.entry = e] \in Request
  BY DEF Request
<1>5. \A d \in SUBSET Requests : [q EXCEPT !.doomed = d] \in Request
  BY DEF Request
<1> QED BY <1>1, <1>2, <1>3, <1>4, <1>5 DEF Request

\* What every step of a request in flight has in common: it moves that request
\* only, and leaves it its kind, its transaction and whom it is about.
Steps(r) ==
  /\ pc[r] \in Running
  /\ pc' = [pc EXCEPT ![r] = pc'[r]] /\ pc'[r] \in Running \cup Ended
  /\ req' = [req EXCEPT ![r] = req'[r]] /\ req'[r] \in Request
  /\ req'[r].kind = req[r].kind /\ req'[r].txn = req[r].txn
  /\ req'[r].client = req[r].client
  /\ Knows(pc'[r], req'[r])
  /\ UNCHANGED asked

\* A step that leaves the request its data.
LEMMA RelabelSteps ==
  ASSUME Typed, NEW r \in Requests, pc[r] \in Running,
         NEW label \in Running \cup Ended, Goto(r, label), UNCHANGED <<req, asked>>,
         Knows(label, req[r])
  PROVE  Steps(r)
BY DEF Typed, TypeOK, Control, Goto, Steps, Running

\* A step that changes it.
LEMMA UpdateSteps ==
  ASSUME Typed, NEW r \in Requests, pc[r] \in Running,
         NEW label \in Running \cup Ended, Goto(r, label),
         NEW q \in Request, req' = [req EXCEPT ![r] = q], UNCHANGED asked,
         q.kind = req[r].kind, q.txn = req[r].txn, q.client = req[r].client,
         Knows(label, q)
  PROVE  Steps(r)
BY DEF Typed, TypeOK, Control, Goto, Steps, Running

\* What the fields that change from step to step let a request know.
LEMMA StandsAt ==
  ASSUME Typed, NEW r \in Requests, pc[r] \in Running
  PROVE  /\ req[r] \in Request /\ Knows(pc[r], req[r])
         /\ req[r].txn \in Requests
         /\ req[r].kind # "withdraw" => Asked(r) \in Params
BY FlowAssumption DEF Typed, TypeOK, Control, Request, Asked, Running

\* What /authorize does keeps a request typed.
LEMMA AuthorizeSteps ==
  ASSUME Typed, NEW r \in Requests, AuthorizeStep(r)
  PROVE  Steps(r)
<1>t. /\ pc \in [Requests -> Running \cup Ended \cup {"idle"}]
      /\ req \in [Requests -> Request \cup {Absent}]
      /\ authSessions \in [Requests -> Session \cup {Absent}]
      /\ sessions \in [Requests -> Session \cup {Absent}]
      /\ pc[r] \in Running => req[r] \in Request /\ Knows(pc[r], req[r])
  BY StandsAt DEF Typed, TypeOK
<1>1. CASE NoSession(r) /\ UNCHANGED asked
  <2>1. /\ Goto(r, pc'[r]) /\ pc'[r] \in {"drop", "page"} /\ UNCHANGED <<req, asked>>
        /\ pc[r] \in Running /\ req[r].kind = "authorize"
    BY <1>1, <1>t DEF NoSession, At, Goto, Running
  <2>2. Knows(pc'[r], req[r]) /\ pc'[r] \in Running \cup Ended
    BY <1>1, <2>1, <1>t
    DEF NoSession, At, Knows, KindAt, Answering, Late, Running, Ended
  <2> QED BY <2>1, <2>2, RelabelSteps
<1>2. CASE HintRejected(r) /\ UNCHANGED asked
  <2>1. /\ Goto(r, pc'[r]) /\ pc'[r] \in {"drop"} /\ UNCHANGED <<req, asked>>
        /\ pc[r] \in Running /\ req[r].kind = "authorize"
    BY <1>2, <1>t DEF HintRejected, At, Goto, Running
  <2>2. Knows(pc'[r], req[r]) /\ pc'[r] \in Running \cup Ended
    BY <1>2, <2>1, <1>t
    DEF HintRejected, At, Knows, KindAt, Answering, Late, Running, Ended
  <2> QED BY <2>1, <2>2, RelabelSteps
<1>3. CASE SilentSession(r) /\ UNCHANGED asked
  <2> DEFINE q == [req[r] EXCEPT !.session = BrowserSession(r)]
  <2>1. /\ Goto(r, pc'[r]) /\ pc'[r] \in {"consented", "drop"} /\ UNCHANGED asked
        /\ pc[r] \in Running /\ req[r].kind = "authorize" /\ req' = [req EXCEPT ![r] = q]
    BY <1>3, <1>t DEF SilentSession, At, Goto, Running
  <2>2. req[r] \in Request /\ Knows(pc[r], req[r])
    BY <2>1, StandsAt
  <2>3. BrowserSession(r) \in Session
    BY <1>3, <1>t, <2>2 DEF BrowserSession, SilentSession, Request
  <2>4. /\ q \in Request /\ q.kind = req[r].kind /\ q.txn = req[r].txn
        /\ q.client = req[r].client /\ q.user = req[r].user
    BY <2>2, <2>3, RequestUpdates
  <2>5. Knows(pc'[r], q) /\ pc'[r] \in Running \cup Ended
    BY <1>3, <2>1, <2>2, <2>3, <2>4, RequestUpdates
    DEF SilentSession, At, Goto, Knows, KindAt, Answering, Late, Running, Ended
  <2> HIDE DEF q
  <2> QED BY <2>1, <2>4, <2>5, UpdateSteps
<1>4. CASE SignOnSession(r) /\ UNCHANGED asked
  <2> DEFINE q == [req[r] EXCEPT !.session = BrowserSession(r)]
  <2>1. /\ Goto(r, pc'[r]) /\ pc'[r] \in {"page", "handoff", "consented"} /\ UNCHANGED asked
        /\ pc[r] \in Running /\ req[r].kind = "authorize" /\ req' = [req EXCEPT ![r] = q]
    BY <1>4, <1>t DEF SignOnSession, At, Goto, Running
  <2>2. req[r] \in Request /\ Knows(pc[r], req[r])
    BY <2>1, StandsAt
  <2>3. BrowserSession(r) \in Session
    BY <1>4, <1>t, <2>2 DEF BrowserSession, SignOnSession, Request
  <2>4. /\ q \in Request /\ q.kind = req[r].kind /\ q.txn = req[r].txn
        /\ q.client = req[r].client /\ q.user = req[r].user
    BY <2>2, <2>3, RequestUpdates
  <2>5. Knows(pc'[r], q) /\ pc'[r] \in Running \cup Ended
    BY <1>4, <2>1, <2>2, <2>3, <2>4, RequestUpdates
    DEF SignOnSession, At, Goto, Knows, KindAt, Answering, Late, Running, Ended
  <2> HIDE DEF q
  <2> QED BY <2>1, <2>4, <2>5, UpdateSteps
<1>5. CASE CheckConsent(r)
  <2>1. /\ Goto(r, pc'[r]) /\ pc'[r] \in {"complete", "drop", "handoff"} /\ UNCHANGED <<req, asked>>
        /\ pc[r] \in Running /\ req[r].kind = "authorize"
    BY <1>5, <1>t DEF CheckConsent, At, Goto, Running
  <2>2. Knows(pc'[r], req[r]) /\ pc'[r] \in Running \cup Ended
    BY <1>5, <2>1, <1>t
    DEF CheckConsent, At, Knows, KindAt, Answering, Late, Running, Ended
  <2> QED BY <2>1, <2>2, RelabelSteps
<1>6. CASE HandOff(r)
  <2>1. /\ Goto(r, pc'[r]) /\ pc'[r] \in {"page"} /\ UNCHANGED <<req, asked>>
        /\ pc[r] \in Running /\ req[r].kind = "authorize"
    BY <1>6, <1>t DEF HandOff, At, Goto, Running
  <2>2. Knows(pc'[r], req[r]) /\ pc'[r] \in Running \cup Ended
    BY <1>6, <2>1, <1>t
    DEF HandOff, At, Knows, KindAt, Answering, Late, Running, Ended
  <2> QED BY <2>1, <2>2, RelabelSteps
<1> QED BY <1>1, <1>2, <1>3, <1>4, <1>5, <1>6 DEF AuthorizeStep, ResolveSession

\* What the login form does keeps a request typed.
LEMMA LoginSteps ==
  ASSUME Typed, NEW r \in Requests, LoginStep(r)
  PROVE  Steps(r)
<1>t. /\ pc \in [Requests -> Running \cup Ended \cup {"idle"}]
      /\ req \in [Requests -> Request \cup {Absent}]
      /\ authSessions \in [Requests -> Session \cup {Absent}]
      /\ sessions \in [Requests -> Session \cup {Absent}]
      /\ pc[r] \in Running => req[r] \in Request /\ Knows(pc[r], req[r])
  BY StandsAt DEF Typed, TypeOK
<1>1. CASE LoginFails(r)
  <2>1. /\ Goto(r, pc'[r]) /\ pc'[r] \in {"denied"} /\ UNCHANGED <<req, asked>>
        /\ pc[r] \in Running /\ req[r].kind = "login"
    BY <1>1, <1>t DEF LoginFails, At, Goto, Running
  <2>2. Knows(pc'[r], req[r]) /\ pc'[r] \in Running \cup Ended
    BY <1>1, <2>1, <1>t
    DEF LoginFails, At, Knows, KindAt, Answering, Late, Running, Ended
  <2> QED BY <2>1, <2>2, RelabelSteps
<1>2. CASE ClearHandoff(r)
  <2>1. /\ Goto(r, pc'[r]) /\ pc'[r] \in {"setHandoff", "clearSession"} /\ UNCHANGED <<req, asked>>
        /\ pc[r] \in Running /\ req[r].kind = "login"
    BY <1>2, <1>t DEF ClearHandoff, Request, At, Goto, Running
  <2>3. pc'[r] = "clearSession" => req[r].cookie \in Requests
    BY <1>2, <1>t DEF ClearHandoff, Request, Running, At, Goto
  <2>4. Knows(pc[r], req[r]) /\ pc[r] = "clearHandoff"
    BY <1>2, <2>1, <1>t DEF ClearHandoff, Request, Running, At, At
  <2>5. Knows(pc'[r], req[r]) /\ pc'[r] \in Running \cup Ended
    BY <2>1, <2>3, <2>4 DEF Knows, KindAt, Answering, Late, Running, Ended
  <2> QED BY <2>1, <2>5, RelabelSteps
<1>3. CASE ClearSession(r)
  <2>1. /\ Goto(r, pc'[r]) /\ pc'[r] \in {"setHandoff"} /\ UNCHANGED <<req, asked>>
        /\ pc[r] \in Running /\ req[r].kind = "login"
    BY <1>3, <1>t DEF ClearSession, At, Goto, Running
  <2>2. Knows(pc'[r], req[r]) /\ pc'[r] \in Running \cup Ended
    BY <1>3, <2>1, <1>t
    DEF ClearSession, At, Knows, KindAt, Answering, Late, Running, Ended
  <2> QED BY <2>1, <2>2, RelabelSteps
<1>4. CASE SetSession(r)
  <2>1. /\ Goto(r, pc'[r]) /\ pc'[r] \in {"respond"} /\ UNCHANGED <<req, asked>>
        /\ pc[r] \in Running /\ req[r].kind = "login"
    BY <1>4, <1>t DEF SetSession, At, Goto, Running
  <2>2. Knows(pc'[r], req[r]) /\ pc'[r] \in Running \cup Ended
    BY <1>4, <2>1, <1>t
    DEF SetSession, At, Knows, KindAt, Answering, Late, Running, Ended
  <2> QED BY <2>1, <2>2, RelabelSteps
<1>5. CASE LoginResponds(r)
  <2>1. /\ Goto(r, pc'[r]) /\ pc'[r] \in {"page"} /\ UNCHANGED <<req, asked>>
        /\ pc[r] \in Running /\ req[r].kind = "login"
    BY <1>5, <1>t DEF LoginResponds, At, Goto, Running
  <2>2. Knows(pc'[r], req[r]) /\ pc'[r] \in Running \cup Ended
    BY <1>5, <2>1, <1>t
    DEF LoginResponds, At, Knows, KindAt, Answering, Late, Running, Ended
  <2> QED BY <2>1, <2>2, RelabelSteps
<1>6. ASSUME NEW user \in Users, LoginSucceeds(r, user) PROVE Steps(r)
  <2> DEFINE q == [req[r] EXCEPT !.user = user]
  <2>1. /\ Goto(r, pc'[r]) /\ pc'[r] \in {"clearHandoff", "setHandoff"} /\ UNCHANGED asked
        /\ pc[r] \in Running /\ req[r].kind = "login" /\ req' = [req EXCEPT ![r] = q]
    BY <1>6, <1>t DEF LoginSucceeds, At, Goto, Running
  <2>2. req[r] \in Request
    BY <2>1, StandsAt
  <2>4. /\ q \in Request /\ q.kind = req[r].kind /\ q.txn = req[r].txn
        /\ q.client = req[r].client /\ q.user = user
    BY <2>2, RequestUpdates
  <2>5. Knows(pc'[r], q) /\ pc'[r] \in Running \cup Ended
    BY <2>1, <2>4 DEF Knows, KindAt, Answering, Late, Running
  <2> HIDE DEF q
  <2> QED BY <2>1, <2>4, <2>5, UpdateSteps
<1>7. CASE SetHandoff(r)
  <2> DEFINE q == [req[r] EXCEPT !.session = [subject |-> req[r].user, authTime |-> now]]
  <2>1. /\ Goto(r, pc'[r]) /\ pc'[r] \in {"setSession"} /\ UNCHANGED asked
        /\ pc[r] \in Running /\ req[r].kind = "login" /\ req' = [req EXCEPT ![r] = q]
    BY <1>7, <1>t DEF SetHandoff, At, Goto, Running
  <2>2. req[r] \in Request /\ Knows(pc[r], req[r])
    BY <2>1, StandsAt
  <2>3. [subject |-> req[r].user, authTime |-> now] \in Session
    BY <1>7, <2>2 DEF SetHandoff, At, Knows, Session, Typed, TypeOK
  <2>4. /\ q \in Request /\ q.kind = req[r].kind /\ q.txn = req[r].txn
        /\ q.client = req[r].client /\ q.user = req[r].user
    BY <2>2, <2>3, RequestUpdates
  <2>5. Knows(pc'[r], q) /\ pc'[r] \in Running \cup Ended
    BY <1>7, <2>1, <2>2, <2>3, <2>4, RequestUpdates
    DEF SetHandoff, At, Goto, Knows, KindAt, Answering, Late, Running, Ended
  <2> HIDE DEF q
  <2> QED BY <2>1, <2>4, <2>5, UpdateSteps
<1> QED BY <1>1, <1>2, <1>3, <1>4, <1>5, <1>6, <1>7 DEF LoginStep

\* What both forms check first keeps a request typed.
LEMMA FormSteps ==
  ASSUME Typed, NEW r \in Requests, FormStep(r)
  PROVE  Steps(r)
<1>t. /\ pc \in [Requests -> Running \cup Ended \cup {"idle"}]
      /\ req \in [Requests -> Request \cup {Absent}]
      /\ authSessions \in [Requests -> Session \cup {Absent}]
      /\ sessions \in [Requests -> Session \cup {Absent}]
      /\ pc[r] \in Running => req[r] \in Request /\ Knows(pc[r], req[r])
  BY StandsAt DEF Typed, TypeOK
<1>1. CASE FormAccepted(r)
  <2> DEFINE q == [req[r] EXCEPT !.attempts = txns[req[r].txn]]
  <2>1. /\ Goto(r, pc'[r]) /\ pc'[r] \in {"authenticate", "session", "drop"} /\ UNCHANGED asked
        /\ pc[r] \in Running /\ req[r].kind \in {"login", "consent"} /\ req' = [req EXCEPT ![r] = q]
    BY <1>1, <1>t DEF FormAccepted, Knows, KindAt, At, Goto, Running
  <2>2. req[r] \in Request /\ Knows(pc[r], req[r])
    BY <2>1, StandsAt
  <2>3. txns[req[r].txn] \in Nat
    BY <1>1, <2>2 DEF FormAccepted, TxnFound, Typed, TypeOK, Request
  <2>4. /\ q \in Request /\ q.kind = req[r].kind /\ q.txn = req[r].txn
        /\ q.client = req[r].client /\ q.user = req[r].user
    BY <2>2, <2>3, RequestUpdates
  <2>5. Knows(pc'[r], q) /\ pc'[r] \in Running \cup Ended
    BY <1>1, <2>1, <2>2, <2>3, <2>4, RequestUpdates
    DEF FormAccepted, Knows, KindAt, At, Goto, Knows, KindAt, Answering, Late, Running, Ended
  <2> HIDE DEF q
  <2> QED BY <2>1, <2>4, <2>5, UpdateSteps
<1>2. CASE FormRejected(r)
  <2>1. /\ Goto(r, pc'[r]) /\ pc'[r] \in {"denied"} /\ UNCHANGED <<req, asked>>
        /\ pc[r] \in Running /\ req[r].kind \in {"login", "consent"}
    BY <1>2, <1>t DEF FormRejected, Knows, KindAt, At, Goto, Running
  <2>2. Knows(pc'[r], req[r]) /\ pc'[r] \in Running \cup Ended
    BY <1>2, <2>1, <1>t
    DEF FormRejected, At, Knows, KindAt, Answering, Late, Running, Ended
  <2> QED BY <2>1, <2>2, RelabelSteps
<1>3. CASE ConsentSession(r)
  <2> DEFINE q == [req[r] EXCEPT !.session = authSessions[req[r].txn]]
  <2>1. /\ Goto(r, pc'[r]) /\ pc'[r] \in {"denied", "complete"} /\ UNCHANGED asked
        /\ pc[r] \in Running /\ req[r].kind = "consent" /\ req' = [req EXCEPT ![r] = q]
    BY <1>3, <1>t DEF ConsentSession, At, Goto, Running
  <2>2. req[r] \in Request /\ Knows(pc[r], req[r])
    BY <2>1, StandsAt
  <2>3. authSessions[req[r].txn] \in Session \cup {Absent}
    BY <2>2, <1>t DEF Request
  <2>4. /\ q \in Request /\ q.kind = req[r].kind /\ q.txn = req[r].txn
        /\ q.client = req[r].client /\ q.user = req[r].user
    BY <2>2, <2>3, RequestUpdates
  <2>5. Knows(pc'[r], q) /\ pc'[r] \in Running \cup Ended
    BY <1>3, <2>1, <2>2, <2>3, <2>4, RequestUpdates
    DEF ConsentSession, At, Goto, Knows, KindAt, Answering, Late, Running, Ended
  <2> HIDE DEF q
  <2> QED BY <2>1, <2>4, <2>5, UpdateSteps
<1>4. CASE Drop(r)
  <2>1. /\ Goto(r, pc'[r]) /\ pc'[r] \in {"clear", "denied"} /\ UNCHANGED <<req, asked>>
        /\ pc[r] \in Running /\ req[r].kind \in {"authorize", "consent"}
    BY <1>4, <1>t DEF Drop, Knows, KindAt, At, Goto, Running
  <2>3. pc'[r] = "clear" => req[r].kind = "consent"
    BY <1>4, <1>t DEF Drop, Goto
  <2>4. Knows(pc[r], req[r]) /\ pc[r] = "drop"
    BY <1>4, <2>1, <1>t DEF Drop, At
  <2>5. Knows(pc'[r], req[r]) /\ pc'[r] \in Running \cup Ended
    BY <2>1, <2>3, <2>4 DEF Knows, KindAt, Answering, Late, Running, Ended
  <2> QED BY <2>1, <2>5, RelabelSteps
<1> QED BY <1>1, <1>2, <1>3, <1>4 DEF FormStep

\* The consent a request is about is in the store's domain.
LEMMA ConsentHas ==
  ASSUME Typed, NEW r \in Requests, pc[r] \in Late \cup {"withdraw", "detach"}
  PROVE  /\ ConsentKey(r) \in Users \X Clients
         /\ consents[ConsentKey(r)] \in Consent
         /\ pc[r] \in Late => ConsentKey(r) = <<req[r].session.subject, Asked(r).client>>
<1>1. pc[r] \in Running
  BY DEF Late, Running
<1>2. req[r] \in Request /\ Knows(pc[r], req[r])
  BY <1>1, StandsAt
<1>3. CASE pc[r] \in Late
  <2>1. req[r].kind # "withdraw" /\ req[r].session \in Session
    BY <1>2, <1>3 DEF Knows, KindAt, Late, Answering
  <2>2. Asked(r) \in Params
    BY <1>1, <2>1, StandsAt
  <2> QED BY <2>1, <2>2 DEF ConsentKey, Session, Params, Typed, TypeOK
<1>4. CASE pc[r] \in {"withdraw", "detach"}
  BY <1>2, <1>4 DEF ConsentKey, Knows, KindAt, Late, Typed, TypeOK
<1> QED BY <1>3, <1>4

\* Issuing a code and recording it keeps a request typed.
LEMMA CodeSteps ==
  ASSUME Typed, NEW r \in Requests, CodeStep(r)
  PROVE  Steps(r)
<1>t. /\ pc \in [Requests -> Running \cup Ended \cup {"idle"}]
      /\ req \in [Requests -> Request \cup {Absent}]
      /\ authSessions \in [Requests -> Session \cup {Absent}]
      /\ sessions \in [Requests -> Session \cup {Absent}]
      /\ pc[r] \in Running => req[r] \in Request /\ Knows(pc[r], req[r])
  BY StandsAt DEF Typed, TypeOK
<1>1. CASE Complete(r)
  <2>1. /\ Goto(r, pc'[r]) /\ pc'[r] \in {"issue"} /\ UNCHANGED <<req, asked>>
        /\ pc[r] \in Running /\ req[r].kind \in {"authorize", "consent"}
    BY <1>1, <1>t DEF Complete, Knows, KindAt, At, Goto, Running
  <2>2. Knows(pc'[r], req[r]) /\ pc'[r] \in Running \cup Ended
    BY <1>1, <2>1, <1>t
    DEF Complete, At, Knows, KindAt, Answering, Late, Running, Ended
  <2> QED BY <2>1, <2>2, RelabelSteps
<1>2. CASE Issue(r)
  <2>1. /\ Goto(r, pc'[r]) /\ pc'[r] \in {"recordConsent", "recordGrant"} /\ UNCHANGED <<req, asked>>
        /\ pc[r] \in Running /\ req[r].kind \in {"authorize", "consent"}
    BY <1>2, <1>t DEF Issue, AfterIssue, Knows, KindAt, At, Goto, Running
  <2>3. pc'[r] = "recordConsent" => req[r].kind = "consent"
    BY <1>2, <1>t DEF Issue, AfterIssue, Goto
  <2>4. Knows(pc[r], req[r]) /\ pc[r] = "issue"
    BY <1>2, <2>1, <1>t DEF Issue, AfterIssue, At
  <2>5. Knows(pc'[r], req[r]) /\ pc'[r] \in Running \cup Ended
    BY <2>1, <2>3, <2>4 DEF Knows, KindAt, Answering, Late, Running, Ended
  <2> QED BY <2>1, <2>5, RelabelSteps
<1>3. CASE RecordConsent(r)
  <2>1. /\ Goto(r, pc'[r]) /\ pc'[r] \in {"recordGrant"} /\ UNCHANGED <<req, asked>>
        /\ pc[r] \in Running /\ req[r].kind = "consent"
    BY <1>3, <1>t DEF RecordConsent, Knows, KindAt, At, Goto, Running
  <2>2. Knows(pc'[r], req[r]) /\ pc'[r] \in Running \cup Ended
    BY <1>3, <2>1, <1>t
    DEF RecordConsent, At, Knows, KindAt, Answering, Late, Running, Ended
  <2> QED BY <2>1, <2>2, RelabelSteps
<1>4. CASE RecordGrant(r) \/ PutGrant(r)
  <2>1. /\ Goto(r, pc'[r]) /\ pc'[r] \in {"clear", "done"} /\ UNCHANGED <<req, asked>>
        /\ pc[r] \in Running /\ req[r].kind \in {"authorize", "consent"}
    BY <1>4, <1>t DEF RecordGrant, PutGrant, AfterRecord, Knows, KindAt, At, Goto, Running
  <2>3. pc'[r] = "clear" => req[r].kind = "consent"
    BY <1>4, <1>t DEF RecordGrant, PutGrant, AfterRecord, Goto
  <2>4. Knows(pc[r], req[r]) /\ pc[r] \in {"recordGrant", "putGrant"}
    BY <1>4, <2>1, <1>t DEF RecordGrant, PutGrant, AfterRecord, At
  <2>5. Knows(pc'[r], req[r]) /\ pc'[r] \in Running \cup Ended
    BY <2>1, <2>3, <2>4 DEF Knows, KindAt, Answering, Late, Running, Ended
  <2> QED BY <2>1, <2>5, RelabelSteps
<1>5. CASE PutConsent(r)
  <2>1. /\ Goto(r, pc'[r]) /\ pc'[r] \in {"recordGrant"} /\ UNCHANGED <<req, asked>>
        /\ pc[r] \in Running /\ req[r].kind = "consent"
    BY <1>5, <1>t DEF PutConsent, Knows, KindAt, At, Goto, Running
  <2>2. Knows(pc'[r], req[r]) /\ pc'[r] \in Running \cup Ended
    BY <1>5, <2>1, <1>t
    DEF PutConsent, At, Knows, KindAt, Answering, Late, Running, Ended
  <2> QED BY <2>1, <2>2, RelabelSteps
<1>6. CASE Clear(r)
  <2>1. /\ Goto(r, pc'[r]) /\ pc'[r] \in {"done", "denied"} /\ UNCHANGED <<req, asked>>
        /\ pc[r] \in Running /\ req[r].kind = "consent"
    BY <1>6, <1>t DEF Clear, At, Goto, Running
  <2>2. Knows(pc'[r], req[r]) /\ pc'[r] \in Running \cup Ended
    BY <1>6, <2>1, <1>t
    DEF Clear, At, Knows, KindAt, Answering, Late, Running, Ended
  <2> QED BY <2>1, <2>2, RelabelSteps
<1>7. CASE ReadConsent(r)
  <2> DEFINE q == [req[r] EXCEPT !.entry = consents[ConsentKey(r)]]
  <2>1. /\ Goto(r, pc'[r]) /\ pc'[r] \in {"putConsent", "putGrant", "detach"} /\ UNCHANGED asked
        /\ pc[r] \in Running /\ req[r].kind \in Kinds /\ req' = [req EXCEPT ![r] = q]
    BY <1>7, <1>t DEF ReadConsent, Request, At, Goto, Running
  <2>2. req[r] \in Request /\ Knows(pc[r], req[r])
    BY <2>1, StandsAt
  <2>3. consents[ConsentKey(r)] \in Consent
    BY <1>7, ConsentHas DEF ReadConsent, Late
  <2>4. /\ q \in Request /\ q.kind = req[r].kind /\ q.txn = req[r].txn
        /\ q.client = req[r].client /\ q.user = req[r].user
    BY <2>2, <2>3, RequestUpdates
  <2>5. Knows(pc'[r], q) /\ pc'[r] \in Running \cup Ended
    BY <1>7, <2>1, <2>2, <2>3, <2>4, RequestUpdates
    DEF ReadConsent, Request, At, Goto, Knows, KindAt, Answering, Late, Running, Ended
  <2> HIDE DEF q
  <2> QED BY <2>1, <2>4, <2>5, UpdateSteps
<1> QED BY <1>1, <1>2, <1>3, <1>4, <1>5, <1>6, <1>7 DEF CodeStep

\* A withdrawal keeps its request typed.
LEMMA WithdrawSteps ==
  ASSUME Typed, NEW r \in Requests, WithdrawStep(r)
  PROVE  Steps(r)
<1>t. /\ pc \in [Requests -> Running \cup Ended \cup {"idle"}]
      /\ req \in [Requests -> Request \cup {Absent}]
      /\ authSessions \in [Requests -> Session \cup {Absent}]
      /\ sessions \in [Requests -> Session \cup {Absent}]
      /\ pc[r] \in Running => req[r] \in Request /\ Knows(pc[r], req[r])
  BY StandsAt DEF Typed, TypeOK
<1>1. CASE Withdraw(r)
  <2> DEFINE q == [req[r] EXCEPT !.doomed = consents[ConsentKey(r)].grants]
  <2>1. /\ Goto(r, pc'[r]) /\ pc'[r] \in {"cascade"} /\ UNCHANGED asked
        /\ pc[r] \in Running /\ req[r].kind = "withdraw" /\ req' = [req EXCEPT ![r] = q]
    BY <1>1, <1>t DEF Withdraw, At, Goto, Running
  <2>2. req[r] \in Request /\ Knows(pc[r], req[r])
    BY <2>1, StandsAt
  <2>3. consents[ConsentKey(r)].grants \in SUBSET Requests
    BY <1>1, ConsentHas DEF Withdraw, At, Consent
  <2>4. /\ q \in Request /\ q.kind = req[r].kind /\ q.txn = req[r].txn
        /\ q.client = req[r].client /\ q.user = req[r].user
    BY <2>2, <2>3, RequestUpdates
  <2>5. Knows(pc'[r], q) /\ pc'[r] \in Running \cup Ended
    BY <1>1, <2>1, <2>2, <2>3, <2>4, RequestUpdates
    DEF Withdraw, At, Goto, Knows, KindAt, Answering, Late, Running, Ended
  <2> HIDE DEF q
  <2> QED BY <2>1, <2>4, <2>5, UpdateSteps
<1>2. CASE Detach(r)
  <2> DEFINE q == [req[r] EXCEPT !.doomed = req[r].entry.grants]
  <2>1. /\ Goto(r, pc'[r]) /\ pc'[r] \in {"cascade"} /\ UNCHANGED asked
        /\ pc[r] \in Running /\ req[r].kind = "withdraw" /\ req' = [req EXCEPT ![r] = q]
    BY <1>2, <1>t DEF Detach, At, Goto, Running
  <2>2. req[r] \in Request /\ Knows(pc[r], req[r])
    BY <2>1, StandsAt
  <2>3. req[r].entry.grants \in SUBSET Requests
    BY <2>2 DEF Request, Consent
  <2>4. /\ q \in Request /\ q.kind = req[r].kind /\ q.txn = req[r].txn
        /\ q.client = req[r].client /\ q.user = req[r].user
    BY <2>2, <2>3, RequestUpdates
  <2>5. Knows(pc'[r], q) /\ pc'[r] \in Running \cup Ended
    BY <1>2, <2>1, <2>2, <2>3, <2>4, RequestUpdates
    DEF Detach, At, Goto, Knows, KindAt, Answering, Late, Running, Ended
  <2> HIDE DEF q
  <2> QED BY <2>1, <2>4, <2>5, UpdateSteps
<1>3. CASE Withdrawn(r)
  <2>1. /\ Goto(r, pc'[r]) /\ pc'[r] \in {"done"} /\ UNCHANGED <<req, asked>>
        /\ pc[r] \in Running /\ req[r].kind = "withdraw"
    BY <1>3, <1>t DEF Withdrawn, Knows, KindAt, At, Goto, Running
  <2>2. Knows(pc'[r], req[r]) /\ pc'[r] \in Running \cup Ended
    BY <1>3, <2>1, <1>t
    DEF Withdrawn, At, Knows, KindAt, Answering, Late, Running, Ended
  <2> QED BY <2>1, <2>2, RelabelSteps
<1>4. ASSUME NEW g \in Requests, RevokeGrant(r, g) PROVE Steps(r)
  <2> DEFINE q == [req[r] EXCEPT !.doomed = req[r].doomed \ {g}]
  <2>1. /\ Goto(r, pc'[r]) /\ pc'[r] = "cascade" /\ UNCHANGED asked
        /\ pc[r] \in Running /\ pc[r] = "cascade" /\ req' = [req EXCEPT ![r] = q]
    BY <1>4, <1>t DEF RevokeGrant, Goto, Running
  <2>2. req[r] \in Request /\ Knows("cascade", req[r])
    BY <2>1, StandsAt
  <2>3. req[r].doomed \ {g} \in SUBSET Requests
    BY <2>2 DEF Request
  <2>4. /\ q \in Request /\ q.kind = req[r].kind /\ q.txn = req[r].txn
        /\ q.client = req[r].client /\ q.user = req[r].user
    BY <2>2, <2>3, RequestUpdates
  <2>5. Knows(pc'[r], q) /\ pc'[r] \in Running \cup Ended
    BY <2>1, <2>2, <2>4 DEF Knows, KindAt, Answering, Late, Running
  <2> HIDE DEF q
  <2> QED BY <2>1, <2>4, <2>5, UpdateSteps
<1> QED BY <1>1, <1>2, <1>3, <1>4 DEF WithdrawStep

\* A failure keeps the request typed.
LEMMA FailSteps ==
  ASSUME Typed, NEW r \in Requests, Fail(r)
  PROVE  Steps(r)
<1>t. /\ pc \in [Requests -> Running \cup Ended \cup {"idle"}]
      /\ req \in [Requests -> Request \cup {Absent}]
      /\ authSessions \in [Requests -> Session \cup {Absent}]
      /\ sessions \in [Requests -> Session \cup {Absent}]
      /\ pc[r] \in Running => req[r] \in Request /\ Knows(pc[r], req[r])
  BY StandsAt DEF Typed, TypeOK
<1>1. CASE Fail(r)
  <2>1. /\ Goto(r, pc'[r]) /\ pc'[r] \in {"drop", "lost"} /\ UNCHANGED <<req, asked>>
        /\ pc[r] \in Running /\ req[r].kind \in Kinds
    BY <1>1, <1>t DEF Fail, StoreFails, CookieLost, Request, At, Goto, Running
  <2>3. pc'[r] = "drop" => req[r].kind = "authorize"
    BY <1>1, <1>t DEF Fail, StoreFails, CookieLost, Goto
  <2>4. Knows(pc[r], req[r]) /\ pc[r] \in Running
    BY <1>1, <2>1, <1>t DEF Fail, StoreFails, CookieLost, At
  <2>5. Knows(pc'[r], req[r]) /\ pc'[r] \in Running \cup Ended
    BY <2>1, <2>3, <2>4 DEF Knows, KindAt, Answering, Late, Running, Ended
  <2> QED BY <2>1, <2>5, RelabelSteps
<1> QED BY <1>1

\* Every step of a request in flight is such a step.
LEMMA ServeSteps ==
  ASSUME Typed, NEW r \in Requests, Serve(r) \/ Fail(r)
  PROVE  Steps(r)
BY AuthorizeSteps, LoginSteps, FormSteps, CodeSteps, WithdrawSteps, FailSteps DEF Serve

-----------------------------------------------------------------------------
(* Requests that arrive.                                                   *)

\* offline_access comes with prompt=consent only, which is not said together
\* with prompt=none; and a hint is read for prompt=none only.
Sound(params) ==
  /\ OfflineAccess \in params.scope => "consent" \in params.prompt
  /\ IF Silent(params) THEN "consent" \notin params.prompt ELSE params.hint = Absent

\* An authorization request opens a transaction of its own name.
Opens(r) ==
  \E client \in Clients, scope \in SUBSET Scopes, prompt \in Prompts, maxAge \in MaxAges :
    \E hint \in (IF prompt = {"none"} THEN Hints ELSE {Absent}) :
      Authorize(r, client, scope, prompt, maxAge, hint)

\* What opening a transaction leaves behind.
LEMMA Opened ==
  ASSUME Typed, NEW r \in Requests, Opens(r)
  PROVE  /\ pc[r] = "idle"
         /\ pc' = [pc EXCEPT ![r] = pc'[r]]
         /\ req' = [req EXCEPT ![r] = req'[r]] /\ req'[r] \in Request
         /\ req'[r].kind = "authorize" /\ req'[r].txn = r
         /\ asked' = [asked EXCEPT ![r] = asked'[r]]
         /\ asked'[r] \in Params /\ asked'[r].createdAt = now /\ Sound(asked'[r])
         /\ pc'[r] = IF ForcesLogin(asked'[r]) THEN "page" ELSE "session"
         /\ txns' = [txns EXCEPT ![r] = 0]
         /\ UNCHANGED <<now, authSessions, sessions, cookie, consents, codes, revoked, failures>>
<1>a. PICK client \in Clients, scope \in SUBSET Scopes, prompt \in Prompts,
           maxAge \in MaxAges :
             \E hint \in (IF prompt = {"none"} THEN Hints ELSE {Absent}) :
               Authorize(r, client, scope, prompt, maxAge, hint)
  BY DEF Opens
<1>b. PICK hint \in (IF prompt = {"none"} THEN Hints ELSE {Absent}) :
             Authorize(r, client, scope, prompt, maxAge, hint)
  BY <1>a
<1> DEFINE params == [client |-> client, scope |-> scope, prompt |-> prompt,
                      maxAge |-> maxAge, hint |-> hint, createdAt |-> now]
           q == [kind |-> "authorize", txn |-> r, cookie |-> cookie, allow |-> FALSE,
                 user |-> Absent, client |-> Absent, session |-> Absent, attempts |-> 0,
                 entry |-> NoConsent, doomed |-> {}]
<1>t. /\ now \in Nat /\ cookie \in Requests \cup {Absent}
      /\ pc \in [Requests -> Running \cup Ended \cup {"idle"}]
      /\ req \in [Requests -> Request \cup {Absent}]
      /\ asked \in [Requests -> Params \cup {Absent}]
  BY DEF Typed, TypeOK
<1>1. /\ pc[r] = "idle" /\ pc' = [pc EXCEPT ![r] = pc'[r]]
      /\ pc'[r] = IF ForcesLogin(params) THEN "page" ELSE "session"
      /\ req' = [req EXCEPT ![r] = q] /\ asked' = [asked EXCEPT ![r] = params]
      /\ txns' = [txns EXCEPT ![r] = 0] /\ ValidScope(scope, prompt)
      /\ UNCHANGED <<now, authSessions, sessions, cookie, consents, codes, revoked, failures>>
  BY <1>b, <1>t DEF Authorize, Start, Goto
<1>2. params \in Params
  BY <1>t, FlowAssumption DEF Params
<1>3. q \in Request
  BY <1>t DEF Request, Kinds, NoConsent, Consent
<1>4. Sound(params)
  BY <1>1, FlowAssumption DEF Sound, ValidScope, Silent
<1>5. req'[r] = q /\ asked'[r] = params
  BY <1>1, <1>t
<1>6. q.kind = "authorize" /\ q.txn = r /\ params.createdAt = now
  OBVIOUS
<1> HIDE DEF q, params
<1> QED BY <1>1, <1>2, <1>3, <1>4, <1>5, <1>6

\* Every other request arrives with what it carries, and opens nothing.
Joins(r) ==
  /\ pc[r] = "idle"
  /\ pc' = [pc EXCEPT ![r] = pc'[r]] /\ pc'[r] \in {"find", "withdraw"}
  /\ req' = [req EXCEPT ![r] = req'[r]] /\ req'[r] \in Request
  /\ req'[r].kind \in {"login", "consent", "withdraw"}
  /\ req'[r].kind # "withdraw" => asked[req'[r].txn] # Absent
  /\ req'[r].session = Absent
  /\ Knows(pc'[r], req'[r])
  /\ UNCHANGED <<now, txns, authSessions, sessions, cookie, consents, codes, revoked, asked,
                 failures>>

\* A request either opens a transaction or is about one that is open.
LEMMA Arrived ==
  ASSUME Typed, NEW r \in Requests, Arrive(r)
  PROVE  Opens(r) \/ Joins(r)
<1>t. /\ cookie \in Requests \cup {Absent}
      /\ pc \in [Requests -> Running \cup Ended \cup {"idle"}]
      /\ req \in [Requests -> Request \cup {Absent}]
  BY DEF Typed, TypeOK
<1>1. ASSUME NEW kind \in {"login", "consent", "withdraw"}, NEW txn \in Requests,
             NEW allow \in BOOLEAN, NEW user \in Users \cup {Absent},
             NEW client \in Clients \cup {Absent}, NEW label \in {"find", "withdraw"},
             Start(r, kind, txn, allow, user, client, label),
             kind # "withdraw" => asked[txn] # Absent /\ label = "find",
             kind = "withdraw" => user \in Users /\ client \in Clients /\ label = "withdraw",
             UNCHANGED <<now, txns, authSessions, sessions, cookie, consents, codes, revoked,
                         asked, failures>>
      PROVE  Joins(r)
  <2> DEFINE q == [kind |-> kind, txn |-> txn, cookie |-> cookie, allow |-> allow,
                   user |-> user, client |-> client, session |-> Absent, attempts |-> 0,
                   entry |-> NoConsent, doomed |-> {}]
  <2>1. q \in Request
    BY <1>t DEF Request, Kinds, NoConsent, Consent
  <2>2. req' = [req EXCEPT ![r] = q] /\ pc[r] = "idle" /\ pc' = [pc EXCEPT ![r] = label]
    BY <1>1 DEF Start, Goto
  <2>3. req'[r] = q /\ pc'[r] = label
    BY <2>2, <1>t
  <2>4. Knows(label, q)
    BY <1>1 DEF Knows, KindAt, Answering, Late
  <2>5. q.kind = kind /\ q.txn = txn /\ q.session = Absent
    OBVIOUS
  <2> HIDE DEF q
  <2> QED BY <1>1, <2>1, <2>2, <2>3, <2>4, <2>5 DEF Joins
<1>2. ASSUME NEW t \in Requests, StartLogin(r, t) PROVE Joins(r)
  <2>1. Start(r, "login", t, FALSE, Absent, Absent, "find") /\ asked[t] # Absent
    BY <1>2 DEF StartLogin, Known
  <2> QED BY <1>1, <1>2, <2>1 DEF StartLogin
<1>3. ASSUME NEW t \in Requests, NEW allow \in BOOLEAN, StartConsent(r, t, allow)
      PROVE  Joins(r)
  <2>1. Start(r, "consent", t, allow, Absent, Absent, "find") /\ asked[t] # Absent
    BY <1>3 DEF StartConsent, Known
  <2> QED BY <1>1, <1>3, <2>1 DEF StartConsent
<1>4. ASSUME NEW user \in Users, NEW client \in Clients, StartWithdraw(r, user, client)
      PROVE  Joins(r)
  <2>1. Start(r, "withdraw", r, FALSE, user, client, "withdraw")
    BY <1>4 DEF StartWithdraw
  <2> QED BY <1>1, <1>4, <2>1 DEF StartWithdraw
<1> QED BY <1>2, <1>3, <1>4 DEF Arrive, Opens

-----------------------------------------------------------------------------
(* What one step does to the stores.                                       *)

\* Which steps write which variable.
Writes ==
  /\ UNCHANGED now \/ Tick
  /\ UNCHANGED asked \/ (\E r \in Requests : Opens(r))
  /\ UNCHANGED cookie \/ (\E r \in Requests : LoginResponds(r))
  /\ UNCHANGED codes \/ (\E r \in Requests : Issue(r))
  /\ UNCHANGED failures \/ (\E r \in Requests : LoginFails(r))
  /\ UNCHANGED revoked \/ (\E r, g \in Requests : RevokeGrant(r, g))
  /\ UNCHANGED sessions \/ (\E r \in Requests : ClearSession(r) \/ SetSession(r))
  /\ \/ UNCHANGED authSessions
     \/ \E r \in Requests : HandOff(r) \/ SetHandoff(r) \/ ClearHandoff(r) \/ Clear(r)
  /\ \/ UNCHANGED txns
     \/ \E r \in Requests : Opens(r) \/ Drop(r) \/ Complete(r) \/ LoginFails(r)
  /\ \/ UNCHANGED consents
     \/ \E r \in Requests : \/ RecordConsent(r) \/ RecordGrant(r) \/ PutConsent(r)
                            \/ PutGrant(r) \/ Withdraw(r) \/ Detach(r)

\* No step writes a store or a piece of history but as Writes says.
LEMMA WritesByStep == Typed /\ [Next]_vars => Writes
<1> SUFFICES ASSUME Typed, [Next]_vars PROVE Writes
  OBVIOUS
<1>1. CASE UNCHANGED vars
  BY <1>1 DEF vars, Writes
<1>2. CASE Tick
  BY <1>2 DEF Tick, Writes
<1>3. ASSUME NEW r \in Requests, Arrive(r) PROVE Writes
  <2>1. CASE Opens(r)
    BY <2>1, Opened DEF Writes
  <2>2. CASE Joins(r)
    BY <2>2 DEF Joins, Writes
  <2> QED BY <1>3, <2>1, <2>2, Arrived
<1>4. ASSUME NEW r \in Requests, Serve(r) \/ Fail(r) PROVE Writes
  <2> DEFINE Quiet == UNCHANGED <<now, asked, cookie, codes, failures, revoked, sessions,
                                  authSessions, txns, consents>>
  <2>0. Quiet => Writes
    BY DEF Writes
  <2>1. CASE AuthorizeStep(r)
    <3>1. Quiet \/ HandOff(r)
      BY <2>1 DEF AuthorizeStep, ResolveSession, CheckConsent
    <3> QED BY <2>0, <3>1 DEF HandOff, Writes
  <2>2. CASE LoginStep(r)
    <3>1. \/ Quiet \/ LoginFails(r) \/ ClearHandoff(r) \/ ClearSession(r) \/ SetHandoff(r)
          \/ SetSession(r) \/ LoginResponds(r)
      BY <2>2 DEF LoginStep, LoginSucceeds
    <3>2. CASE LoginFails(r)
      BY <3>2 DEF LoginFails, Writes
    <3>3. CASE ClearHandoff(r)
      BY <3>3 DEF ClearHandoff, Writes
    <3>4. CASE SetHandoff(r)
      BY <3>4 DEF SetHandoff, Writes
    <3>5. CASE ClearSession(r)
      BY <3>5 DEF ClearSession, Writes
    <3>6. CASE SetSession(r)
      BY <3>6 DEF SetSession, Writes
    <3>7. CASE LoginResponds(r)
      BY <3>7 DEF LoginResponds, Writes
    <3> QED BY <2>0, <3>1, <3>2, <3>3, <3>4, <3>5, <3>6, <3>7
  <2>3. CASE FormStep(r)
    <3>1. Quiet \/ Drop(r)
      BY <2>3 DEF FormStep, FormAccepted, FormRejected, ConsentSession
    <3> QED BY <2>0, <3>1 DEF Drop, Writes
  <2>4. CASE CodeStep(r)
    <3>1. CASE ReadConsent(r)
      BY <2>0, <3>1 DEF ReadConsent
    <3>2. CASE Complete(r)
      BY <3>2 DEF Complete, Writes
    <3>3. CASE Issue(r)
      BY <3>3 DEF Issue, Writes
    <3>4. CASE RecordConsent(r) \/ RecordGrant(r) \/ PutConsent(r) \/ PutGrant(r)
      <4>1. UNCHANGED <<now, asked, cookie, codes, failures, revoked, sessions, authSessions,
                        txns>>
        BY <3>4 DEF RecordConsent, RecordGrant, PutConsent, PutGrant
      <4> QED BY <3>4, <4>1 DEF Writes
    <3>5. CASE Clear(r)
      BY <3>5 DEF Clear, Writes
    <3> QED BY <2>4, <3>1, <3>2, <3>3, <3>4, <3>5 DEF CodeStep
  <2>5. CASE WithdrawStep(r)
    <3>1. CASE Withdrawn(r)
      BY <2>0, <3>1 DEF Withdrawn
    <3>2. CASE Withdraw(r) \/ Detach(r)
      <4>1. UNCHANGED <<now, asked, cookie, codes, failures, revoked, sessions, authSessions,
                        txns>>
        BY <3>2 DEF Withdraw, Detach
      <4> QED BY <3>2, <4>1 DEF Writes
    <3>3. ASSUME NEW g \in Requests, RevokeGrant(r, g) PROVE Writes
      BY <3>3 DEF RevokeGrant, Writes
    <3> QED BY <2>5, <3>1, <3>2, <3>3 DEF WithdrawStep
  <2>6. CASE Fail(r)
    BY <2>0, <2>6 DEF Fail, StoreFails, CookieLost
  <2> QED BY <1>4, <2>1, <2>2, <2>3, <2>4, <2>5, <2>6 DEF Serve
<1> QED BY <1>1, <1>2, <1>3, <1>4 DEF Next

\* A code is stored once, by the request that issues it.
CodeOf(r) ==
  [txn |-> req[r].txn, subject |-> req[r].session.subject,
   authTime |-> req[r].session.authTime, scope |-> GrantedScope(Asked(r))]

\* No step writes over a code but the one that issues it.
LEMMA CodesByStep ==
  ASSUME Typed, [Next]_vars
  PROVE  /\ codes' \in [Requests -> Code \cup {Absent}]
         /\ \A r \in Requests : codes'[r] = codes[r] \/ (Issue(r) /\ codes'[r] = CodeOf(r))
<1>t. codes \in [Requests -> Code \cup {Absent}]
  BY DEF Typed, TypeOK
<1>1. CASE UNCHANGED codes
  BY <1>1, <1>t
<1>2. ASSUME NEW s \in Requests, Issue(s)
      PROVE  /\ codes' \in [Requests -> Code \cup {Absent}]
             /\ \A r \in Requests : codes'[r] = codes[r] \/ (Issue(r) /\ codes'[r] = CodeOf(r))
  <2>1. codes' = [codes EXCEPT ![s] = CodeOf(s)]
    BY <1>2 DEF Issue, CodeOf
  <2>2. CodeOf(s) \in Code
    <3>1. pc[s] = "issue" /\ pc[s] \in Running
      BY <1>2 DEF Issue, Running
    <3>2. req[s].session \in Session /\ req[s].txn \in Requests /\ Asked(s) \in Params
      BY <3>1, StandsAt DEF Knows, KindAt, Answering
    <3> QED BY <3>2 DEF CodeOf, Code, Session, Params, GrantedScope
  <2> QED BY <1>2, <2>1, <2>2, <1>t
<1> QED BY <1>1, <1>2, WritesByStep DEF Writes

\* A browser session is one a login has made.
LEMMA SessionsByStep ==
  ASSUME Typed, [Next]_vars
  PROVE  /\ sessions' \in [Requests -> Session \cup {Absent}]
         /\ \A r \in Requests : \/ sessions'[r] \in {sessions[r], Absent}
                                \/ SetSession(r) /\ sessions'[r] = req[r].session
<1>t. sessions \in [Requests -> Session \cup {Absent}]
  BY DEF Typed, TypeOK
<1>1. CASE UNCHANGED sessions
  BY <1>1, <1>t
<1>2. ASSUME NEW s \in Requests, ClearSession(s)
      PROVE  /\ sessions' \in [Requests -> Session \cup {Absent}]
             /\ \A r \in Requests : sessions'[r] \in {sessions[r], Absent}
  BY <1>2, <1>t DEF ClearSession
<1>3. ASSUME NEW s \in Requests, SetSession(s)
      PROVE  /\ sessions' \in [Requests -> Session \cup {Absent}]
             /\ \A r \in Requests : \/ sessions'[r] = sessions[r]
                                    \/ SetSession(r) /\ sessions'[r] = req[r].session
  <2>1. req[s].session \in Session
    BY <1>3, StandsAt DEF SetSession, At, Running, Knows
  <2> QED BY <1>3, <2>1, <1>t DEF SetSession
<1> QED BY <1>1, <1>2, <1>3, WritesByStep DEF Writes

\* Who is handed over to the consent form has just logged in, or is taken from
\* the browser session.
JustNow(r) == [subject |-> req[r].user, authTime |-> now]

\* No step hands anybody else over.
LEMMA HandoffsByStep ==
  ASSUME Typed, [Next]_vars
  PROVE  /\ authSessions' \in [Requests -> Session \cup {Absent}]
         /\ \A t \in Requests :
              \/ authSessions'[t] \in {authSessions[t], Absent}
              \/ HandOff(t) /\ authSessions'[t] = req[t].session
              \/ \E r \in Requests :
                   SetHandoff(r) /\ req[r].txn = t /\ authSessions'[t] = JustNow(r)
<1> DEFINE Goal ==
      /\ authSessions' \in [Requests -> Session \cup {Absent}]
      /\ \A t \in Requests :
           \/ authSessions'[t] \in {authSessions[t], Absent}
           \/ HandOff(t) /\ authSessions'[t] = req[t].session
           \/ \E r \in Requests :
                SetHandoff(r) /\ req[r].txn = t /\ authSessions'[t] = JustNow(r)
<1> SUFFICES Goal
  OBVIOUS
<1>t. authSessions \in [Requests -> Session \cup {Absent}]
  BY DEF Typed, TypeOK
<1>1. CASE UNCHANGED authSessions
  BY <1>1, <1>t
<1>2. ASSUME NEW s \in Requests, ClearHandoff(s) \/ Clear(s) PROVE Goal
  BY <1>2, <1>t DEF ClearHandoff, Clear
<1>3. ASSUME NEW s \in Requests, SetHandoff(s) PROVE Goal
  <2>1. authSessions' = [authSessions EXCEPT ![req[s].txn] = JustNow(s)]
    BY <1>3 DEF SetHandoff, JustNow
  <2>2. JustNow(s) \in Session
    <3>1. req[s].user \in Users
      BY <1>3, StandsAt DEF SetHandoff, At, Running, Knows
    <3> QED BY <3>1 DEF JustNow, Session, Typed, TypeOK
  <2> QED BY <1>3, <2>1, <2>2, <1>t
<1>4. ASSUME NEW s \in Requests, HandOff(s) PROVE Goal
  <2>1. req[s].session \in Session
    BY <1>4, StandsAt DEF HandOff, At, Running, Knows
  <2> QED BY <1>4, <2>1, <1>t DEF HandOff
<1> HIDE DEF Goal
<1> QED BY <1>1, <1>2, <1>3, <1>4, WritesByStep DEF Writes

\* A transaction is opened once, and changed only by who closes it or fails to
\* log in.
LEMMA TxnsByStep ==
  ASSUME Typed, [Next]_vars
  PROVE  /\ txns' \in [Requests -> Nat \cup {Absent}]
         /\ \A t \in Requests :
              \/ txns'[t] = txns[t]
              \/ Opens(t) /\ txns'[t] = 0
              \/ \E r \in Requests :
                   (Drop(r) \/ Complete(r)) /\ req[r].txn = t /\ txns'[t] = Absent
              \/ \E r \in Requests :
                   LoginFails(r) /\ req[r].txn = t /\ txns'[t] = AfterFailure(r)
<1> DEFINE Goal ==
      /\ txns' \in [Requests -> Nat \cup {Absent}]
      /\ \A t \in Requests :
           \/ txns'[t] = txns[t]
           \/ Opens(t) /\ txns'[t] = 0
           \/ \E r \in Requests :
                (Drop(r) \/ Complete(r)) /\ req[r].txn = t /\ txns'[t] = Absent
           \/ \E r \in Requests :
                LoginFails(r) /\ req[r].txn = t /\ txns'[t] = AfterFailure(r)
<1> SUFFICES Goal
  OBVIOUS
<1>t. txns \in [Requests -> Nat \cup {Absent}]
  BY DEF Typed, TypeOK
<1>1. CASE UNCHANGED txns
  BY <1>1, <1>t
<1>2. ASSUME NEW s \in Requests, Opens(s) PROVE Goal
  <2>1. txns' = [txns EXCEPT ![s] = 0]
    BY <1>2, Opened
  <2> QED BY <1>2, <2>1, <1>t
<1>3. ASSUME NEW s \in Requests, Drop(s) \/ Complete(s) PROVE Goal
  <2>1. txns' = [txns EXCEPT ![req[s].txn] = Absent]
    BY <1>3 DEF Drop, Complete
  <2> QED BY <1>3, <2>1, <1>t
<1>4. ASSUME NEW s \in Requests, LoginFails(s) PROVE Goal
  <2>1. txns' = [txns EXCEPT ![req[s].txn] = AfterFailure(s)]
    BY <1>4 DEF LoginFails
  <2>2. req[s] \in Request
    BY <1>4, StandsAt DEF LoginFails, At, Running
  <2>3. FailedAttempts(s) \in Nat
    BY <2>2 DEF FailedAttempts, Request, Typed, TypeOK
  <2>4. AfterFailure(s) \in Nat \cup {Absent}
    BY <2>3 DEF AfterFailure
  <2> QED BY <1>4, <2>1, <2>4, <1>t
<1> HIDE DEF Goal
<1> QED BY <1>1, <1>2, <1>3, <1>4, WritesByStep DEF Writes

\* What a transaction was asked for never changes.
LEMMA AskedByStep ==
  ASSUME Typed, [Next]_vars
  PROVE  /\ asked' \in [Requests -> Params \cup {Absent}]
         /\ \A t \in Requests :
              \/ asked'[t] = asked[t]
              \/ Opens(t) /\ asked[t] = Absent /\ asked'[t] # Absent
<1>t. /\ asked \in [Requests -> Params \cup {Absent}] /\ Absent \notin Params
      /\ \A t \in Requests : pc[t] = "idle" => asked[t] = Absent
  BY FlowAssumption DEF Typed, TypeOK, Control
<1>1. CASE UNCHANGED asked
  BY <1>1, <1>t
<1>2. ASSUME NEW s \in Requests, Opens(s)
      PROVE  /\ asked' \in [Requests -> Params \cup {Absent}]
             /\ \A t \in Requests :
                  \/ asked'[t] = asked[t]
                  \/ Opens(t) /\ asked[t] = Absent /\ asked'[t] # Absent
  <2>1. asked' = [asked EXCEPT ![s] = asked'[s]] /\ asked'[s] \in Params /\ pc[s] = "idle"
    BY <1>2, Opened
  <2> QED BY <1>2, <2>1, <1>t
<1> QED BY <1>1, <1>2, WritesByStep DEF Writes

\* A consent is extended for a code, written back as it was read, or deleted.
LEMMA ConsentsByStep ==
  ASSUME Typed, [Next]_vars
  PROVE  /\ consents' \in [Users \X Clients -> Consent]
         /\ \A k \in Users \X Clients :
              \/ consents'[k] = consents[k]
              \/ \E r \in Requests :
                   /\ ConsentKey(r) = k
                   /\ \/ (Withdraw(r) \/ Detach(r)) /\ consents'[k] = NoConsent
                      \/ /\ RecordConsent(r)
                         /\ consents'[k] = WithScopes(consents[k], GrantedScope(Asked(r)))
                      \/ RecordGrant(r) /\ consents'[k] = WithGrant(consents[k], r)
                      \/ /\ PutConsent(r)
                         /\ consents'[k] = WithScopes(req[r].entry, GrantedScope(Asked(r)))
                      \/ PutGrant(r) /\ consents'[k] = WithGrant(req[r].entry, r)
<1> DEFINE Goal ==
      /\ consents' \in [Users \X Clients -> Consent]
      /\ \A k \in Users \X Clients :
           \/ consents'[k] = consents[k]
           \/ \E r \in Requests :
                /\ ConsentKey(r) = k
                /\ \/ (Withdraw(r) \/ Detach(r)) /\ consents'[k] = NoConsent
                   \/ /\ RecordConsent(r)
                      /\ consents'[k] = WithScopes(consents[k], GrantedScope(Asked(r)))
                   \/ RecordGrant(r) /\ consents'[k] = WithGrant(consents[k], r)
                   \/ /\ PutConsent(r)
                      /\ consents'[k] = WithScopes(req[r].entry, GrantedScope(Asked(r)))
                   \/ PutGrant(r) /\ consents'[k] = WithGrant(req[r].entry, r)
<1> SUFFICES Goal
  OBVIOUS
<1>t. consents \in [Users \X Clients -> Consent]
  BY DEF Typed, TypeOK
<1>0. NoConsent \in Consent
  BY DEF NoConsent, Consent
<1>s. \A entry \in Consent, scope \in SUBSET Scopes : WithScopes(entry, scope) \in Consent
  BY DEF WithScopes, Consent
<1>g. \A entry \in Consent, g \in Requests : WithGrant(entry, g) \in Consent
  BY DEF WithGrant, Consent
<1>k. ASSUME NEW r \in Requests, pc[r] \in Late \cup {"withdraw", "detach"}
      PROVE  /\ ConsentKey(r) \in Users \X Clients
             /\ consents[ConsentKey(r)] \in Consent /\ req[r].entry \in Consent
             /\ pc[r] \in Late => GrantedScope(Asked(r)) \in SUBSET Scopes
  <2>1. pc[r] \in Running
    BY <1>k DEF Late, Running
  <2>2. req[r] \in Request /\ Knows(pc[r], req[r])
    BY <2>1, StandsAt
  <2>3. pc[r] \in Late => Asked(r) \in Params
    BY <2>1, <2>2, StandsAt DEF Knows, KindAt, Late
  <2> QED BY <1>k, <2>2, <2>3, ConsentHas DEF Request, GrantedScope, Params
<1>1. CASE UNCHANGED consents
  BY <1>1, <1>t
<1>2. ASSUME NEW r \in Requests, Withdraw(r) \/ Detach(r) PROVE Goal
  <2>1. consents' = [consents EXCEPT ![ConsentKey(r)] = NoConsent] /\ pc[r] \in {"withdraw", "detach"}
    BY <1>2 DEF Withdraw, Detach, At
  <2> QED BY <1>2, <2>1, <1>t, <1>0, <1>k
<1>3. ASSUME NEW r \in Requests, RecordConsent(r) PROVE Goal
  <2>1. /\ consents' = [consents EXCEPT ![ConsentKey(r)] =
                          WithScopes(consents[ConsentKey(r)], GrantedScope(Asked(r)))]
        /\ pc[r] \in Late
    BY <1>3 DEF RecordConsent, Late
  <2> QED BY <1>3, <2>1, <1>t, <1>s, <1>k
<1>4. ASSUME NEW r \in Requests, RecordGrant(r) PROVE Goal
  <2>1. /\ consents' = [consents EXCEPT ![ConsentKey(r)] = WithGrant(consents[ConsentKey(r)], r)]
        /\ pc[r] \in Late
    BY <1>4 DEF RecordGrant, Late
  <2> QED BY <1>4, <2>1, <1>t, <1>g, <1>k
<1>5. ASSUME NEW r \in Requests, PutConsent(r) PROVE Goal
  <2>1. /\ consents' = [consents EXCEPT ![ConsentKey(r)] =
                          WithScopes(req[r].entry, GrantedScope(Asked(r)))]
        /\ pc[r] \in Late
    BY <1>5 DEF PutConsent, Late
  <2> QED BY <1>5, <2>1, <1>t, <1>s, <1>k
<1>6. ASSUME NEW r \in Requests, PutGrant(r) PROVE Goal
  <2>1. /\ consents' = [consents EXCEPT ![ConsentKey(r)] = WithGrant(req[r].entry, r)]
        /\ pc[r] \in Late
    BY <1>6 DEF PutGrant, Late
  <2> QED BY <1>6, <2>1, <1>t, <1>g, <1>k
<1> HIDE DEF Goal
<1> QED BY <1>1, <1>2, <1>3, <1>4, <1>5, <1>6, WritesByStep DEF Writes

\* One request moves at a time.
LEMMA OneMoves ==
  ASSUME Typed, [Next]_vars
  PROVE  \/ UNCHANGED <<pc, req, asked>>
         \/ \E r \in Requests : Steps(r) \/ Opens(r) \/ Joins(r)
BY ServeSteps, Arrived DEF Next, Tick, vars

\* Every step leaves each request with what its next label needs.
LEMMA ControlKept ==
  ASSUME Typed, [Next]_vars
  PROVE  /\ pc' \in [Requests -> Running \cup Ended \cup {"idle"}]
         /\ req' \in [Requests -> Request \cup {Absent}]
         /\ \A r \in Requests : Control(r)'
<1> DEFINE Goal == /\ pc' \in [Requests -> Running \cup Ended \cup {"idle"}]
                   /\ req' \in [Requests -> Request \cup {Absent}]
                   /\ \A r \in Requests : Control(r)'
<1> SUFFICES Goal
  OBVIOUS
<1>t. /\ pc \in [Requests -> Running \cup Ended \cup {"idle"}]
      /\ req \in [Requests -> Request \cup {Absent}]
      /\ asked \in [Requests -> Params \cup {Absent}]
      /\ Absent \notin Request /\ Absent \notin Params
      /\ "idle" \notin Running \cup Ended
      /\ \A r \in Requests : Control(r)
  BY FlowAssumption DEF Typed, TypeOK, Running, Ended
<1>1. CASE UNCHANGED <<pc, req, asked>>
  BY <1>1, <1>t DEF Control
<1>2. ASSUME NEW s \in Requests, Steps(s) PROVE Goal
  <2>1. pc' = [pc EXCEPT ![s] = pc'[s]] /\ req' = [req EXCEPT ![s] = req'[s]] /\ asked' = asked
    BY <1>2 DEF Steps
  <2>2. pc'[s] \in Running \cup Ended /\ req'[s] \in Request /\ pc[s] \in Running
    BY <1>2 DEF Steps
  <2>3. ASSUME NEW r \in Requests PROVE Control(r)'
    <3>1. CASE r = s
      <4>1. pc'[s] # "idle" /\ req'[s] # Absent /\ pc[s] # "idle" /\ req[s] # Absent
        BY <2>2, <1>t DEF Control
      <4>2. /\ req'[s].kind = req[s].kind /\ req'[s].txn = req[s].txn
            /\ Knows(pc'[s], req'[s])
        BY <1>2 DEF Steps
      <4>3. /\ req[s].kind # "withdraw" => asked[req[s].txn] # Absent
            /\ req[s].kind = "authorize" => req[s].txn = s
        BY <4>1, <1>t DEF Control
      <4> QED BY <3>1, <4>1, <4>2, <4>3, <2>1 DEF Control
    <3>2. CASE r # s
      <4>1. pc'[r] = pc[r] /\ req'[r] = req[r] /\ asked' = asked
        BY <2>1, <3>2, <1>t
      <4> QED BY <4>1, <1>t DEF Control
    <3> QED BY <3>1, <3>2
  <2> QED BY <2>1, <2>2, <2>3, <1>t
<1>3. ASSUME NEW s \in Requests, Opens(s) PROVE Goal
  <2>1. /\ pc' = [pc EXCEPT ![s] = pc'[s]] /\ req' = [req EXCEPT ![s] = req'[s]]
        /\ asked' = [asked EXCEPT ![s] = asked'[s]] /\ asked'[s] \in Params
        /\ pc'[s] \in {"page", "session"} /\ req'[s] \in Request /\ pc[s] = "idle"
        /\ req'[s].kind = "authorize" /\ req'[s].txn = s
    BY <1>3, Opened
  <2>2. \A t \in Requests : asked[t] # Absent => asked'[t] # Absent
    BY <2>1, <1>t
  <2>3. ASSUME NEW r \in Requests PROVE Control(r)'
    <3>1. CASE r = s
      <4>1. pc'[s] # "idle" /\ req'[s] # Absent /\ asked'[s] # Absent
        BY <2>1, <1>t
      <4>2. Knows(pc'[s], req'[s])
        BY <2>1 DEF Knows, KindAt, Answering, Late
      <4> QED BY <3>1, <4>1, <4>2, <2>1 DEF Control
    <3>2. CASE r # s
      <4>1. pc'[r] = pc[r] /\ req'[r] = req[r] /\ asked'[r] = asked[r]
        BY <2>1, <3>2, <1>t
      <4>2. req[r] # Absent => req[r].txn \in Requests
        BY <1>t DEF Request
      <4> QED BY <4>1, <4>2, <2>2, <1>t DEF Control
    <3> QED BY <3>1, <3>2
  <2>4. {"page", "session"} \subseteq Running \cup Ended
    BY DEF Running, Ended
  <2> QED BY <2>1, <2>3, <2>4, <1>t
<1>4. ASSUME NEW s \in Requests, Joins(s) PROVE Goal
  <2>1. /\ pc' = [pc EXCEPT ![s] = pc'[s]] /\ req' = [req EXCEPT ![s] = req'[s]]
        /\ asked' = asked
        /\ pc'[s] \in {"find", "withdraw"} /\ req'[s] \in Request /\ pc[s] = "idle"
        /\ req'[s].kind # "authorize"
        /\ req'[s].kind # "withdraw" => asked[req'[s].txn] # Absent
        /\ Knows(pc'[s], req'[s])
    BY <1>4 DEF Joins
  <2>3. ASSUME NEW r \in Requests PROVE Control(r)'
    <3>1. CASE r = s
      <4>1. pc'[s] # "idle" /\ req'[s] # Absent
        BY <2>1, <1>t
      <4> QED BY <3>1, <4>1, <2>1 DEF Control
    <3>2. CASE r # s
      <4>1. pc'[r] = pc[r] /\ req'[r] = req[r] /\ asked' = asked
        BY <2>1, <3>2, <1>t
      <4> QED BY <4>1, <1>t DEF Control
    <3> QED BY <3>1, <3>2
  <2>4. {"find", "withdraw"} \subseteq Running \cup Ended
    BY DEF Running, Ended
  <2> QED BY <2>1, <2>3, <2>4, <1>t
<1> HIDE DEF Goal
<1> QED BY <1>1, <1>2, <1>3, <1>4, OneMoves

\* Every step keeps the types.
LEMMA NextTyped == Typed /\ [Next]_vars => Typed'
<1> SUFFICES ASSUME Typed, [Next]_vars PROVE Typed'
  OBVIOUS
<1>t. /\ now \in Nat /\ cookie \in Requests \cup {Absent} /\ revoked \subseteq Requests
      /\ failures \in [Requests -> Nat]
  BY DEF Typed, TypeOK
<1>1. Writes
  BY WritesByStep
<1>2. now' \in Nat
  BY <1>1, <1>t DEF Writes, Tick
<1>3. cookie' \in Requests \cup {Absent}
  BY <1>1, <1>t DEF Writes, LoginResponds
<1>4. revoked' \subseteq Requests
  BY <1>1, <1>t DEF Writes, RevokeGrant
<1>5. failures' \in [Requests -> Nat]
  <2>1. CASE UNCHANGED failures
    BY <2>1, <1>t
  <2>2. ASSUME NEW r \in Requests, LoginFails(r) PROVE failures' \in [Requests -> Nat]
    <3>1. req[r].txn \in Requests
      BY <2>2, StandsAt DEF LoginFails, At, Running
    <3>2. failures' = [failures EXCEPT ![req[r].txn] = failures[req[r].txn] + 1]
      BY <2>2 DEF LoginFails
    <3>3. failures[req[r].txn] + 1 \in Nat
      BY <3>1, <1>t
    <3> QED BY <3>1, <3>2, <3>3, <1>t
  <2> QED BY <1>1, <2>1, <2>2 DEF Writes
<1>6. /\ txns' \in [Requests -> Nat \cup {Absent}]
      /\ authSessions' \in [Requests -> Session \cup {Absent}]
      /\ sessions' \in [Requests -> Session \cup {Absent}]
      /\ consents' \in [Users \X Clients -> Consent]
      /\ codes' \in [Requests -> Code \cup {Absent}]
      /\ asked' \in [Requests -> Params \cup {Absent}]
  BY TxnsByStep, HandoffsByStep, SessionsByStep, ConsentsByStep, CodesByStep, AskedByStep
<1>7. /\ pc' \in [Requests -> Running \cup Ended \cup {"idle"}]
      /\ req' \in [Requests -> Request \cup {Absent}]
      /\ \A r \in Requests : Control(r)'
  BY ControlKept
<1> QED BY <1>2, <1>3, <1>4, <1>5, <1>6, <1>7 DEF Typed, TypeOK

\* The types hold throughout.
LEMMA AlwaysTyped == Spec => []Typed
BY InitTyped, NextTyped, PTL DEF Spec

\* Every variable keeps its type, whatever the requests, the prompts and the
\* limits: no handler takes the absence of an entry for an entry.
THEOREM TypeCorrect == Spec => []TypeOK
<1>1. Typed => TypeOK
  BY DEF Typed
<1> QED BY <1>1, AlwaysTyped, PTL

-----------------------------------------------------------------------------
(* AuthenticationIsFresh: wherever a session is kept (handed over, in the  *)
(* browser, with a request or in a code), some login made it, and where it *)
(* is about to answer a transaction it satisfies what was asked of that    *)
(* transaction.                                                            *)

\* The login request that made the session.
MadeBy(q, s) == req[q] # Absent /\ req[q].kind = "login" /\ req[q].session = s

Real(s) == \E q \in Requests : MadeBy(q, s)

\* The login is no older than max_age was when the transaction was opened.
Recent(s, params) ==
  params.maxAge # Absent => s.authTime + params.maxAge >= params.createdAt

\* The session may answer the transaction.
Fresh(s, t) ==
  /\ Recent(s, asked[t])
  /\ \E q \in Requests : MadeBy(q, s) /\ (MustReauthenticate(asked[t]) => req[q].txn = t)

SessionOf(code) == [subject |-> code.subject, authTime |-> code.authTime]

\* The labels of a login that has made no session yet.
Early == {"find", "authenticate", "clearHandoff", "clearSession", "setHandoff"}

\* What a request has made sure of about the session it holds.
SessionSafe(label, q) ==
  /\ q.kind = "login" /\ label \in Early => q.session = Absent
  /\ label = "setSession" => Real(q.session)
  /\ q.kind = "authorize" /\ label \in {"session", "consented"} => ~ForcesLogin(asked[q.txn])
  /\ label = "consented" => Real(q.session)
  /\ label = "consented" /\ ~Silent(asked[q.txn]) => Fresh(q.session, q.txn)
  /\ label \in {"handoff"} \cup Answering => Fresh(q.session, q.txn)

AskedInTime == \A t \in Requests : asked[t] # Absent => asked[t].createdAt <= now

HandoffsFresh ==
  \A t \in Requests, s \in Session : authSessions[t] = s => asked[t] # Absent /\ Fresh(s, t)

SessionsReal == \A r \in Requests, s \in Session : sessions[r] = s => Real(s)

HoldersSafe ==
  \A r \in Requests, label \in Running, q \in Request :
    pc[r] = label /\ req[r] = q => SessionSafe(label, q)

CodesFresh ==
  \A r \in Requests, c \in Code :
    codes[r] = c => asked[c.txn] # Absent /\ Fresh(SessionOf(c), c.txn)

Freshness == AskedInTime /\ HandoffsFresh /\ SessionsReal /\ HoldersSafe /\ CodesFresh

\* What a step does to the session a request holds, and to its label.
Walks(r) ==
  \/ SetHandoff(r) /\ req'[r].session = JustNow(r) /\ pc'[r] = "setSession"
  \/ /\ SilentSession(r) \/ SignOnSession(r)
     /\ req'[r].session = BrowserSession(r)
     /\ pc'[r] \in {"consented", "handoff", "page", "drop"}
  \/ /\ ConsentSession(r) /\ req'[r].session = authSessions[req[r].txn]
     /\ pc'[r] \in {"complete", "denied"}
  \/ /\ req'[r].session = req[r].session
     /\ \/ CheckConsent(r)
        \/ pc[r] \in Answering /\ pc'[r] \notin {"session", "setSession", "consented", "handoff"}
                                               \cup Early
        \/ /\ pc'[r] \notin {"setSession", "consented", "handoff"} \cup Answering
           /\ pc'[r] = "session" => req[r].kind = "consent"
           /\ req[r].kind = "login" /\ pc'[r] \in Early => pc[r] \in Early

\* No step of a request treats its session in another way.
LEMMA WalksByStep ==
  ASSUME Typed, NEW r \in Requests, Serve(r) \/ Fail(r)
  PROVE  Walks(r)
<1> DEFINE Goal == Walks(r)
<1> SUFFICES Goal
  OBVIOUS
<1>t. /\ pc \in [Requests -> Running \cup Ended \cup {"idle"}]
      /\ req \in [Requests -> Request \cup {Absent}]
      /\ pc[r] \in Running /\ req[r] \in Request /\ Knows(pc[r], req[r])
  <2>1. pc[r] \in Running
    BY ServeSteps DEF Steps
  <2> QED BY <2>1, StandsAt DEF Typed, TypeOK
<1>1. CASE AuthorizeStep(r)
  <2>1. CASE NoSession(r) \/ HintRejected(r) \/ HandOff(r)
    <3>1. req' = req /\ pc'[r] \in {"drop", "page"}
      BY <2>1, <1>t DEF NoSession, HintRejected, HandOff, Goto
    <3> QED BY <3>1 DEF Walks, Answering, Late, Early
  <2>2. CASE SilentSession(r)
    <3>1. /\ req' = [req EXCEPT ![r] = [req[r] EXCEPT !.session = BrowserSession(r)]]
          /\ pc'[r] \in {"consented", "drop"}
      BY <2>2, <1>t DEF SilentSession, Goto
    <3> QED BY <2>2, <3>1, <1>t DEF Walks, Request
  <2>3. CASE SignOnSession(r)
    <3>1. /\ req' = [req EXCEPT ![r] = [req[r] EXCEPT !.session = BrowserSession(r)]]
          /\ pc'[r] \in {"page", "handoff", "consented"}
      BY <2>3, <1>t DEF SignOnSession, Goto
    <3> QED BY <2>3, <3>1, <1>t DEF Walks, Request
  <2>4. CASE CheckConsent(r)
    BY <2>4 DEF CheckConsent, Walks
  <2> QED BY <1>1, <2>1, <2>2, <2>3, <2>4 DEF AuthorizeStep, ResolveSession
<1>2. CASE LoginStep(r)
  <2>1. ASSUME NEW user \in Users, LoginSucceeds(r, user) PROVE Goal
    <3>1. /\ req' = [req EXCEPT ![r] = [req[r] EXCEPT !.user = user]]
          /\ pc'[r] \in {"clearHandoff", "setHandoff"} /\ pc[r] = "authenticate"
      BY <2>1, <1>t DEF LoginSucceeds, At, Goto
    <3>2. req'[r].session = req[r].session
      BY <3>1, <1>t DEF Request
    <3> QED BY <3>1, <3>2 DEF Walks, Answering, Late, Early
  <2>2. CASE SetHandoff(r)
    <3>1. /\ req' = [req EXCEPT ![r] = [req[r] EXCEPT !.session = JustNow(r)]]
          /\ pc'[r] = "setSession"
      BY <2>2, <1>t DEF SetHandoff, JustNow, Goto
    <3> QED BY <2>2, <3>1, <1>t DEF Walks, Request
  <2>3. CASE LoginFails(r) \/ SetSession(r) \/ LoginResponds(r)
    <3>1. req' = req /\ pc'[r] \in {"denied", "respond", "page"}
      BY <2>3, <1>t DEF LoginFails, SetSession, LoginResponds, Goto
    <3> QED BY <3>1 DEF Walks, Answering, Late, Early
  <2>4. CASE ClearHandoff(r) \/ ClearSession(r)
    <3>1. /\ req' = req /\ pc[r] \in {"clearHandoff", "clearSession"}
          /\ pc'[r] \in {"setHandoff", "clearSession"}
      BY <2>4, <1>t DEF ClearHandoff, ClearSession, At, Goto
    <3> QED BY <3>1 DEF Walks, Answering, Late, Early
  <2> QED BY <1>2, <2>1, <2>2, <2>3, <2>4 DEF LoginStep
<1>3. CASE FormStep(r)
  <2>1. CASE FormAccepted(r)
    <3>1. /\ req' = [req EXCEPT ![r] = [req[r] EXCEPT !.attempts = txns[req[r].txn]]]
          /\ pc'[r] = IF req[r].kind = "login" THEN "authenticate"
                      ELSE IF req[r].allow THEN "session" ELSE "drop"
          /\ pc[r] = "find"
      BY <2>1, <1>t DEF FormAccepted, Goto
    <3>2. req'[r].session = req[r].session
      BY <3>1, <1>t DEF Request
    <3>3. req[r].kind \in {"login", "consent"}
      BY <3>1, <1>t DEF Knows, KindAt
    <3> QED BY <3>1, <3>2, <3>3 DEF Walks, Answering, Late, Early
  <2>2. CASE FormRejected(r)
    <3>1. req' = req /\ pc'[r] = "denied"
      BY <2>2, <1>t DEF FormRejected, Goto
    <3> QED BY <3>1 DEF Walks, Answering, Late, Early
  <2>3. CASE ConsentSession(r)
    <3>1. /\ req' = [req EXCEPT ![r] = [req[r] EXCEPT !.session = authSessions[req[r].txn]]]
          /\ pc'[r] \in {"denied", "complete"}
      BY <2>3, <1>t DEF ConsentSession, Goto
    <3> QED BY <2>3, <3>1, <1>t DEF Walks, Request
  <2>4. CASE Drop(r)
    <3>1. req' = req /\ pc'[r] \in {"clear", "denied"}
      BY <2>4, <1>t DEF Drop, Goto
    <3> QED BY <3>1 DEF Walks, Answering, Late, Early
  <2> QED BY <1>3, <2>1, <2>2, <2>3, <2>4 DEF FormStep
<1>4. CASE CodeStep(r)
  <2>1. CASE Complete(r) \/ Issue(r)
    <3>1. /\ req' = req /\ pc[r] \in {"complete", "issue"}
          /\ pc'[r] \in {"issue", "recordConsent", "recordGrant"}
      BY <2>1, <1>t DEF Complete, Issue, AfterIssue, Goto
    <3> QED BY <3>1 DEF Walks, Answering, Late, Early
  <2>2. CASE RecordConsent(r) \/ RecordGrant(r) \/ PutConsent(r) \/ PutGrant(r)
    <3>1. req' = req /\ pc[r] \in Answering /\ pc'[r] \in {"recordGrant", "clear", "done"}
      BY <2>2, <1>t
      DEF RecordConsent, RecordGrant, PutConsent, PutGrant, AfterRecord, Goto, Answering, Late
    <3> QED BY <3>1 DEF Walks, Early
  <2>3. CASE ReadConsent(r)
    <3>1. /\ req' = [req EXCEPT ![r] = [req[r] EXCEPT !.entry = consents[ConsentKey(r)]]]
          /\ pc[r] \in {"recordConsent", "recordGrant", "withdraw"}
          /\ pc'[r] = IF pc[r] = "recordConsent" THEN "putConsent"
                      ELSE IF pc[r] = "recordGrant" THEN "putGrant" ELSE "detach"
      BY <2>3, <1>t DEF ReadConsent, Goto
    <3>2. req'[r].session = req[r].session
      BY <3>1, <1>t DEF Request
    <3> QED BY <3>1, <3>2 DEF Walks, Answering, Late, Early
  <2>4. CASE Clear(r)
    <3>1. req' = req /\ pc'[r] \in {"done", "denied"}
      BY <2>4, <1>t DEF Clear, Goto
    <3> QED BY <3>1 DEF Walks, Answering, Late, Early
  <2> QED BY <1>4, <2>1, <2>2, <2>3, <2>4 DEF CodeStep
<1>5. CASE WithdrawStep(r)
  <2>1. CASE Withdraw(r) \/ Detach(r)
    <3>1. PICK d : req' = [req EXCEPT ![r] = [req[r] EXCEPT !.doomed = d]]
      BY <2>1 DEF Withdraw, Detach
    <3>2. pc'[r] = "cascade"
      BY <2>1, <1>t DEF Withdraw, Detach, Goto
    <3> QED BY <3>1, <3>2, <1>t DEF Walks, Answering, Late, Early, Request
  <2>2. ASSUME NEW g \in Requests, RevokeGrant(r, g) PROVE Goal
    <3>1. /\ req' = [req EXCEPT ![r] = [req[r] EXCEPT !.doomed = req[r].doomed \ {g}]]
          /\ pc'[r] = "cascade"
      BY <2>2 DEF RevokeGrant
    <3> QED BY <3>1, <1>t DEF Walks, Answering, Late, Early, Request
  <2>3. CASE Withdrawn(r)
    <3>1. req' = req /\ pc'[r] = "done"
      BY <2>3, <1>t DEF Withdrawn, Goto
    <3> QED BY <3>1 DEF Walks, Answering, Late, Early
  <2> QED BY <1>5, <2>1, <2>2, <2>3 DEF WithdrawStep
<1>6. CASE Fail(r)
  <2>1. req' = req /\ pc'[r] \in {"drop", "lost"}
    BY <1>6, <1>t DEF Fail, StoreFails, CookieLost, Goto
  <2> QED BY <2>1 DEF Walks, Answering, Late, Early
<1> HIDE DEF Goal
<1> QED BY <1>1, <1>2, <1>3, <1>4, <1>5, <1>6 DEF Serve

\* What one step is for one request: it stands still, moves on, or arrives.
LEMMA MovesByStep ==
  ASSUME Typed, [Next]_vars, NEW q \in Requests
  PROVE  \/ pc'[q] = pc[q] /\ req'[q] = req[q]
         \/ (Serve(q) \/ Fail(q)) /\ Steps(q) /\ Walks(q)
         \/ Opens(q)
         \/ Joins(q)
<1>t. /\ pc \in [Requests -> Running \cup Ended \cup {"idle"}]
      /\ req \in [Requests -> Request \cup {Absent}]
  BY DEF Typed, TypeOK
<1>1. CASE UNCHANGED <<pc, req>>
  BY <1>1
<1>2. ASSUME NEW r \in Requests, Serve(r) \/ Fail(r), q # r
      PROVE  pc'[q] = pc[q] /\ req'[q] = req[q]
  <2>1. pc' = [pc EXCEPT ![r] = pc'[r]] /\ req' = [req EXCEPT ![r] = req'[r]]
    BY <1>2, ServeSteps DEF Steps
  <2> QED BY <1>2, <2>1, <1>t
<1>3. ASSUME NEW r \in Requests, Opens(r), q # r PROVE pc'[q] = pc[q] /\ req'[q] = req[q]
  <2>1. pc' = [pc EXCEPT ![r] = pc'[r]] /\ req' = [req EXCEPT ![r] = req'[r]]
    BY <1>3, Opened
  <2> QED BY <1>3, <2>1, <1>t
<1>4. ASSUME NEW r \in Requests, Joins(r), q # r PROVE pc'[q] = pc[q] /\ req'[q] = req[q]
  <2>1. pc' = [pc EXCEPT ![r] = pc'[r]] /\ req' = [req EXCEPT ![r] = req'[r]]
    BY <1>4 DEF Joins
  <2> QED BY <1>4, <2>1, <1>t
<1>5. (Serve(q) \/ Fail(q)) => Steps(q) /\ Walks(q)
  BY ServeSteps, WalksByStep
<1>6. \/ UNCHANGED <<pc, req>>
      \/ \E r \in Requests : Opens(r) \/ Joins(r) \/ Serve(r) \/ Fail(r)
  BY Arrived DEF Next, Tick, vars
<1> QED BY <1>1, <1>2, <1>3, <1>4, <1>5, <1>6

\* A login that was made stays made, whatever becomes of its sessions.
LEMMA LoginsLast ==
  ASSUME Typed, HoldersSafe, [Next]_vars, NEW q \in Requests, NEW s \in Session, MadeBy(q, s)
  PROVE  MadeBy(q, s)' /\ req'[q].txn = req[q].txn
<1>t. /\ req \in [Requests -> Request \cup {Absent}] /\ Absent \notin Session /\ Absent \notin Request
      /\ pc[q] = "idle" <=> req[q] = Absent
  BY FlowAssumption DEF Typed, TypeOK, Control
<1>0. req[q] # Absent /\ req[q].kind = "login" /\ req[q].session = s /\ pc[q] # "idle"
  BY <1>t DEF MadeBy
<1>1. CASE pc'[q] = pc[q] /\ req'[q] = req[q]
  BY <1>0, <1>1 DEF MadeBy
<1>2. CASE Steps(q) /\ Walks(q)
  <2>1. /\ req'[q] # Absent /\ req'[q].kind = "login" /\ req'[q].txn = req[q].txn
    BY <1>0, <1>2, <1>t DEF Steps
  <2>2. ~SetHandoff(q)
    <3>1. SUFFICES ASSUME SetHandoff(q) PROVE FALSE
      OBVIOUS
    <3>2. pc[q] = "setHandoff"
      BY <3>1 DEF SetHandoff, At
    <3>3. SessionSafe("setHandoff", req[q])
      BY <3>2, <1>0, <1>t DEF HoldersSafe, Running
    <3> QED BY <3>3, <1>0, <1>t DEF SessionSafe, Early
  <2>3. ~SilentSession(q) /\ ~SignOnSession(q) /\ ~ConsentSession(q)
    BY <1>0 DEF SilentSession, SignOnSession, ConsentSession, At
  <2>4. req'[q].session = req[q].session
    BY <1>2, <2>2, <2>3 DEF Walks
  <2> QED BY <1>0, <2>1, <2>4 DEF MadeBy
<1>3. ~Opens(q) /\ ~Joins(q)
  BY <1>0, Opened DEF Joins
<1> QED BY <1>1, <1>2, <1>3, MovesByStep

\* So what a session was fit to answer it stays fit to answer.
LEMMA FreshLasts ==
  ASSUME Typed, HoldersSafe, [Next]_vars
  PROVE  /\ \A s \in Session : Real(s) => Real(s)'
         /\ \A s \in Session, t \in Requests :
              asked[t] # Absent /\ Fresh(s, t) => asked'[t] = asked[t] /\ Fresh(s, t)'
<1>1. ASSUME NEW s \in Session, Real(s) PROVE Real(s)'
  <2>1. PICK q \in Requests : MadeBy(q, s)
    BY <1>1 DEF Real
  <2> QED BY <2>1, LoginsLast DEF Real
<1>2. ASSUME NEW s \in Session, NEW t \in Requests, asked[t] # Absent, Fresh(s, t)
      PROVE  asked'[t] = asked[t] /\ Fresh(s, t)'
  <2>1. asked'[t] = asked[t]
    BY <1>2, AskedByStep
  <2>2. PICK q \in Requests : MadeBy(q, s) /\ (MustReauthenticate(asked[t]) => req[q].txn = t)
    BY <1>2 DEF Fresh
  <2>3. MadeBy(q, s)' /\ req'[q].txn = req[q].txn
    BY <2>2, LoginsLast
  <2>4. Recent(s, asked[t])
    BY <1>2 DEF Fresh
  <2> QED BY <2>1, <2>2, <2>3, <2>4 DEF Fresh
<1> QED BY <1>1, <1>2

\* No transaction was asked for in the future.
LEMMA AskedInTimeKept ==
  ASSUME Typed, AskedInTime, [Next]_vars
  PROVE  AskedInTime' /\ now' >= now
<1>t. /\ now \in Nat /\ asked \in [Requests -> Params \cup {Absent}]
  BY DEF Typed, TypeOK
<1>1. now' \in Nat /\ now' >= now
  BY <1>t, WritesByStep DEF Writes, Tick
<1>2. ASSUME NEW t \in Requests, asked'[t] # Absent PROVE asked'[t].createdAt <= now'
  <2>1. CASE asked'[t] = asked[t]
    <3>1. asked[t] \in Params /\ asked[t].createdAt <= now
      BY <1>2, <2>1, <1>t DEF AskedInTime
    <3> QED BY <2>1, <3>1, <1>1, <1>t DEF Params
  <2>2. CASE Opens(t)
    BY <2>2, Opened, <1>t, <1>1
  <2> QED BY <2>1, <2>2, AskedByStep
<1> QED BY <1>1, <1>2 DEF AskedInTime

\* A session just made, and one a browser kept that is recent enough.
LEMMA JustMade ==
  ASSUME Typed, AskedInTime, NEW r \in Requests, SetHandoff(r)
  PROVE  /\ JustNow(r) \in Session /\ asked[req[r].txn] # Absent
         /\ asked' = asked
         /\ \A s, t : s = JustNow(r) /\ t = req[r].txn => MadeBy(r, s)' /\ Fresh(s, t)'
<1>t. /\ now \in Nat /\ req \in [Requests -> Request \cup {Absent}] /\ Absent \notin Request
      /\ asked \in [Requests -> Params \cup {Absent}] /\ Control(r)
  BY FlowAssumption DEF Typed, TypeOK
<1>1. pc[r] = "setHandoff" /\ req[r].kind = "login" /\ pc[r] \in Running
  BY DEF SetHandoff, At, Running
<1>2. req[r] \in Request /\ req[r].user \in Users
  BY <1>1, StandsAt DEF Knows
<1>3. JustNow(r) \in Session
  BY <1>2, <1>t DEF JustNow, Session
<1>4. asked[req[r].txn] # Absent /\ asked[req[r].txn] \in Params
  BY <1>1, <1>2, <1>t, StandsAt DEF Control, Asked
<1>5. asked[req[r].txn].createdAt <= now
  BY <1>2, <1>4 DEF AskedInTime, Request
<1>6. req' = [req EXCEPT ![r] = [req[r] EXCEPT !.session = JustNow(r)]] /\ asked' = asked
  BY DEF SetHandoff, JustNow
<1>7. req'[r] \in Request /\ req'[r].kind = "login" /\ req'[r].txn = req[r].txn
      /\ req'[r].session = JustNow(r)
  BY <1>1, <1>2, <1>3, <1>6, <1>t, RequestUpdates
<1>8. \A s : s = JustNow(r) => MadeBy(r, s)'
  BY <1>7, <1>t DEF MadeBy
<1>9. Recent(JustNow(r), asked[req[r].txn])
  BY <1>4, <1>5, <1>t DEF Recent, JustNow, Params
<1>10. \A s, t : s = JustNow(r) /\ t = req[r].txn => Fresh(s, t)'
  BY <1>6, <1>7, <1>8, <1>9 DEF Fresh
<1> QED BY <1>3, <1>4, <1>6, <1>8, <1>10

\* The max_age test of the code is the one that the property makes.
LEMMA RecentHolds ==
  ASSUME Typed, AskedInTime, NEW t \in Requests, asked[t] # Absent, NEW s \in Session,
         RecentEnough(asked[t], s)
  PROVE  Recent(s, asked[t]) /\ (asked[t].maxAge # 0)
<1>1. asked[t] \in Params /\ now \in Nat /\ asked[t].createdAt <= now /\ Absent \notin Nat
  BY FlowAssumption DEF AskedInTime, Typed, TypeOK
<1> QED BY <1>1 DEF RecentEnough, Recent, Params, Session

\* Whoever is handed over is fresh for the transaction.
LEMMA HandoffsKept ==
  ASSUME Typed, Freshness, [Next]_vars
  PROVE  HandoffsFresh'
<1>t. /\ authSessions \in [Requests -> Session \cup {Absent}] /\ Absent \notin Session
      /\ HandoffsFresh /\ HoldersSafe /\ AskedInTime
  BY FlowAssumption DEF Typed, TypeOK, Freshness
<1>1. ASSUME NEW t \in Requests, NEW s \in Session, authSessions'[t] = s
      PROVE  asked'[t] # Absent /\ Fresh(s, t)'
  <2>1. CASE authSessions'[t] \in {authSessions[t], Absent}
    <3>1. asked[t] # Absent /\ Fresh(s, t)
      BY <1>1, <2>1, <1>t DEF HandoffsFresh
    <3> QED BY <3>1, <1>t, FreshLasts
  <2>2. CASE HandOff(t) /\ authSessions'[t] = req[t].session
    <3>1. pc[t] = "handoff" /\ req[t].kind = "authorize" /\ "handoff" \in Running
      BY <2>2 DEF HandOff, At, Running
    <3>2. req[t] \in Request /\ Control(t) /\ Absent \notin Request
      BY <3>1, StandsAt, FlowAssumption DEF Typed
    <3>3. req[t].txn = t /\ asked[t] # Absent
      BY <3>1, <3>2 DEF Control
    <3>4. Fresh(req[t].session, req[t].txn)
      BY <3>1, <3>2, <1>t DEF HoldersSafe, SessionSafe
    <3>5. Fresh(s, t)
      BY <3>3, <3>4, <2>2, <1>1
    <3> QED BY <3>3, <3>5, <1>t, FreshLasts
  <2>3. ASSUME NEW r \in Requests, SetHandoff(r), req[r].txn = t, authSessions'[t] = JustNow(r)
        PROVE  asked'[t] # Absent /\ Fresh(s, t)'
    BY <1>1, <2>3, <1>t, JustMade
  <2> QED BY <2>1, <2>2, <2>3, HandoffsByStep
<1> QED BY <1>1 DEF HandoffsFresh

\* The browser's sessions come from logins.
LEMMA SessionsKept ==
  ASSUME Typed, Freshness, [Next]_vars
  PROVE  SessionsReal'
<1>t. Absent \notin Session /\ SessionsReal /\ HoldersSafe
  BY FlowAssumption DEF Freshness
<1>1. ASSUME NEW r \in Requests, NEW s \in Session, sessions'[r] = s PROVE Real(s)'
  <2>1. CASE sessions'[r] \in {sessions[r], Absent}
    <3>1. Real(s)
      BY <1>1, <2>1, <1>t DEF SessionsReal
    <3> QED BY <3>1, <1>t, FreshLasts
  <2>2. CASE SetSession(r) /\ sessions'[r] = req[r].session
    <3>1. pc[r] = "setSession" /\ "setSession" \in Running
      BY <2>2 DEF SetSession, At, Running
    <3>2. req[r] \in Request
      BY <3>1, StandsAt
    <3>3. Real(req[r].session)
      BY <3>1, <3>2, <1>t DEF HoldersSafe, SessionSafe
    <3>4. Real(s)
      BY <3>3, <2>2, <1>1
    <3> QED BY <3>4, <1>t, FreshLasts
  <2> QED BY <2>1, <2>2, SessionsByStep
<1> QED BY <1>1 DEF SessionsReal

\* A code takes the freshness of the request that issues it.
LEMMA CodesKept ==
  ASSUME Typed, Freshness, [Next]_vars
  PROVE  CodesFresh'
<1>t. /\ Absent \notin Code /\ Absent \notin Request /\ CodesFresh /\ HoldersSafe
      /\ codes' \in [Requests -> Code \cup {Absent}]
  BY FlowAssumption, CodesByStep DEF Freshness
<1>1. ASSUME NEW r \in Requests, NEW c \in Code, codes'[r] = c
      PROVE  asked'[c.txn] # Absent /\ \A s : s = SessionOf(c) => Fresh(s, c.txn)'
  <2>0. SessionOf(c) \in Session /\ c.txn \in Requests
    BY DEF SessionOf, Session, Code
  <2>1. CASE codes'[r] = codes[r]
    <3>1. asked[c.txn] # Absent /\ Fresh(SessionOf(c), c.txn)
      BY <1>1, <2>1, <1>t DEF CodesFresh
    <3> QED BY <2>0, <3>1, <1>t, FreshLasts
  <2>2. CASE Issue(r) /\ codes'[r] = CodeOf(r)
    <3>1. pc[r] = "issue" /\ "issue" \in Running /\ "issue" \in Answering
      BY <2>2 DEF Issue, Running, Answering
    <3>2. req[r] \in Request /\ Knows("issue", req[r]) /\ Control(r)
      BY <3>1, StandsAt DEF Typed
    <3>3. req[r].session \in Session /\ req[r].kind # "withdraw"
      BY <3>1, <3>2 DEF Knows, KindAt
    <3>4. asked[req[r].txn] # Absent /\ Fresh(req[r].session, req[r].txn)
      BY <3>1, <3>2, <3>3, <1>t DEF HoldersSafe, SessionSafe, Control
    <3>5. SessionOf(c) = req[r].session /\ c.txn = req[r].txn
      BY <1>1, <2>2, <3>3 DEF CodeOf, SessionOf, Session
    <3>6. asked[c.txn] # Absent /\ Fresh(SessionOf(c), c.txn)
      BY <3>4, <3>5
    <3> QED BY <2>0, <3>6, <1>t, FreshLasts
  <2> QED BY <2>1, <2>2, CodesByStep
<1>2. \A r \in Requests, c \in Code :
        codes'[r] = c => asked'[c.txn] # Absent /\ Fresh(SessionOf(c), c.txn)'
  <2> TAKE r \in Requests, c \in Code
  <2> HAVE codes'[r] = c
  <2> QED BY <1>1 DEF SessionOf
<1> QED BY <1>2 DEF CodesFresh

\* A session with which /authorize goes on without a login form.
LEMMA SignedOn ==
  ASSUME Typed, Freshness, NEW t \in Requests, asked[t] # Absent, NEW s \in Session,
         Real(s), ~ForcesLogin(asked[t]), RecentEnough(asked[t], s)
  PROVE  Fresh(s, t)
<1>1. Recent(s, asked[t]) /\ ~MustReauthenticate(asked[t])
  BY RecentHolds DEF Freshness, MustReauthenticate
<1> QED BY <1>1 DEF Real, Fresh

\* Requests that hold a session have compared it with what was asked.
LEMMA HoldersKept ==
  ASSUME Typed, Freshness, [Next]_vars
  PROVE  HoldersSafe'
<1>t. /\ Absent \notin Session /\ Absent \notin Request
      /\ HoldersSafe /\ HandoffsFresh /\ SessionsReal /\ AskedInTime
      /\ sessions \in [Requests -> Session \cup {Absent}]
      /\ authSessions \in [Requests -> Session \cup {Absent}]
      /\ pc \in [Requests -> Running \cup Ended \cup {"idle"}]
  BY FlowAssumption DEF Freshness, Typed, TypeOK
<1> SUFFICES ASSUME NEW r \in Requests, NEW label \in Running, NEW q \in Request,
                    pc'[r] = label, req'[r] = q
             PROVE  SessionSafe(label, q)'
  BY DEF HoldersSafe
<1> DEFINE Goal == SessionSafe(label, q)'
<1> SUFFICES Goal
  OBVIOUS
<1>c. Control(r)' /\ Control(r)
  BY NextTyped DEF Typed
<1>q. /\ Knows(label, q) /\ q.txn \in Requests
      /\ q.kind # "withdraw" => asked'[q.txn] # Absent
  BY <1>c, <1>t DEF Control, Request
\* Where the request stands still, or only moves on.
<1>k. ASSUME label \in {"handoff", "consented"} \cup Answering
      PROVE  q.session \in Session /\ q.kind \in {"authorize", "consent"}
  BY <1>k, <1>q DEF Knows, KindAt, Answering, Late
<1>1. CASE pc'[r] = pc[r] /\ req'[r] = req[r]
  <2>1. SessionSafe(label, q)
    BY <1>1, <1>t DEF HoldersSafe
  <2>2. q.kind # "withdraw" => asked'[q.txn] = asked[q.txn] /\ asked[q.txn] # Absent
    BY <1>1, <1>c, <1>q, <1>t, AskedByStep DEF Control
  <2>3. label = "setSession" => Real(q.session)'
    BY <2>1, <1>q, <1>t, FreshLasts DEF SessionSafe, Knows
  <2>4. label = "consented" => Real(q.session)'
    BY <2>1, <1>k, <1>t, FreshLasts DEF SessionSafe
  <2>5. label = "consented" /\ ~Silent(asked[q.txn]) => Fresh(q.session, q.txn)'
    BY <2>1, <2>2, <1>k, <1>q, <1>t, FreshLasts DEF SessionSafe
  <2>6. label \in {"handoff"} \cup Answering => Fresh(q.session, q.txn)'
    BY <2>1, <2>2, <1>k, <1>q, <1>t, FreshLasts DEF SessionSafe
  <2>7. q.kind = "authorize" /\ label \in {"session", "consented"} => ~ForcesLogin(asked'[q.txn])
    BY <2>1, <2>2 DEF SessionSafe
  <2>8. q.kind = "login" /\ label \in Early => q.session = Absent
    BY <2>1 DEF SessionSafe
  <2>9. label = "consented" => asked'[q.txn] = asked[q.txn]
    BY <2>2, <1>k
  <2> QED BY <2>3, <2>4, <2>5, <2>6, <2>7, <2>8, <2>9 DEF SessionSafe
<1>2. CASE Opens(r)
  <2>1. q.kind = "authorize" /\ q.txn = r /\ label = "session" /\ ~ForcesLogin(asked'[r])
    BY <1>2, Opened DEF Running
  <2> QED BY <2>1 DEF SessionSafe, Answering, Late
<1>3. CASE Joins(r)
  <2>1. label \in {"find", "withdraw"} /\ q.session = Absent
    BY <1>3 DEF Joins
  <2> QED BY <2>1, <1>q DEF SessionSafe, Answering, Late, Knows, KindAt
<1>4. CASE Steps(r) /\ Walks(r)
  <2>1. /\ asked' = asked /\ q.kind = req[r].kind /\ q.txn = req[r].txn /\ pc[r] \in Running
        /\ req[r] \in Request /\ Knows(pc[r], req[r]) /\ SessionSafe(pc[r], req[r])
    <3>1. pc[r] \in Running
      BY <1>4 DEF Steps
    <3> QED BY <1>4, <3>1, StandsAt, <1>t DEF Steps, HoldersSafe
  <2>2. CASE SetHandoff(r) /\ q.session = JustNow(r) /\ label = "setSession"
    <3>1. Real(q.session)'
      BY <2>2, <1>t, JustMade DEF Real
    <3> QED BY <2>2, <3>1 DEF SessionSafe, Answering, Late, Early
  <2>3. CASE (SilentSession(r) \/ SignOnSession(r)) /\ q.session = BrowserSession(r)
    <3>1. /\ pc[r] = "session" /\ req[r].kind = "authorize" /\ BrowserSession(r) # Absent
          /\ label \in {"consented", "handoff", "drop"}
          /\ label = "handoff" => ~Silent(Asked(r))
          /\ ~Silent(Asked(r)) /\ label # "drop" => RecentEnough(Asked(r), BrowserSession(r))
      BY <2>3, <1>t DEF SilentSession, SignOnSession, At, Goto, Running
    <3>2. ~ForcesLogin(asked[q.txn])
      BY <3>1, <2>1 DEF SessionSafe
    <3>3. q.session \in Session /\ Real(q.session)
      BY <3>1, <2>1, <2>3, <1>t DEF BrowserSession, SessionsReal, Request
    <3>4. asked[q.txn] # Absent
      BY <2>1, <3>1, <1>q
    <3>5. ~Silent(asked[q.txn]) /\ label # "drop" => Fresh(q.session, q.txn)
      BY <3>1, <3>2, <3>3, <3>4, <2>1, <2>3, <1>q, SignedOn DEF Asked
    <3>6. Real(q.session)'
      BY <3>3, <1>t, FreshLasts
    <3>7. ~Silent(asked[q.txn]) /\ label # "drop" => Fresh(q.session, q.txn)'
      BY <3>3, <3>4, <3>5, <1>q, <1>t, FreshLasts
    <3>8. label = "handoff" => ~Silent(asked[q.txn])
      BY <3>1, <2>1 DEF Asked
    <3> QED BY <3>1, <3>2, <3>6, <3>7, <3>8, <2>1 DEF SessionSafe, Answering, Late, Early
  <2>4. CASE /\ ConsentSession(r) /\ q.session = authSessions[req[r].txn]
             /\ label \in {"complete", "denied"}
    <3>1. label = "complete" /\ label \in Answering /\ q.kind = "consent"
      BY <2>1, <2>4 DEF Running, Answering, ConsentSession, At
    <3>2. q.session \in Session
      BY <3>1, <1>k
    <3>3. asked[q.txn] # Absent /\ Fresh(q.session, q.txn)
      BY <3>2, <2>1, <2>4, <1>q, <1>t DEF HandoffsFresh
    <3>4. Fresh(q.session, q.txn)'
      BY <3>2, <3>3, <1>q, <1>t, FreshLasts
    <3> QED BY <3>1, <3>4 DEF SessionSafe, Early
  <2>5. CASE q.session = req[r].session /\ CheckConsent(r)
    <3>1. /\ pc[r] = "consented" /\ req[r].kind = "authorize"
          /\ label \in {"complete", "handoff", "drop"}
          /\ label = "handoff" => ~Silent(Asked(r))
          /\ label = "complete" /\ Silent(Asked(r)) => RecentEnough(Asked(r), req[r].session)
      BY <2>5, <1>t DEF CheckConsent, At, Goto
    <3>2. /\ ~ForcesLogin(asked[q.txn]) /\ Real(q.session)
          /\ ~Silent(asked[q.txn]) => Fresh(q.session, q.txn)
      BY <3>1, <2>1, <2>5 DEF SessionSafe
    <3>3. q.session \in Session /\ asked[q.txn] # Absent
      BY <3>1, <2>1, <2>5, <1>q DEF Knows
    <3>4. label \in {"complete", "handoff"} => Fresh(q.session, q.txn)
      BY <3>1, <3>2, <3>3, <2>1, <2>5, <1>q, SignedOn DEF Asked
    <3>5. label \in {"complete", "handoff"} => Fresh(q.session, q.txn)'
      BY <3>3, <3>4, <1>q, <1>t, FreshLasts
    <3> QED BY <3>1, <3>5, <2>1 DEF SessionSafe, Answering, Late, Early
  <2>6. CASE /\ q.session = req[r].session /\ pc[r] \in Answering
             /\ label \notin {"session", "setSession", "consented", "handoff"} \cup Early
    <3>1. Fresh(q.session, q.txn)
      BY <2>1, <2>6 DEF SessionSafe
    <3>2. q.session \in Session /\ q.kind # "withdraw"
      BY <2>1, <2>6 DEF Knows, KindAt, Answering, Late
    <3>3. Fresh(q.session, q.txn)'
      BY <3>1, <3>2, <2>1, <1>q, <1>t, FreshLasts
    <3> QED BY <2>6, <3>3 DEF SessionSafe
  <2>7. CASE /\ q.session = req[r].session
             /\ label \notin {"setSession", "consented", "handoff"} \cup Answering
             /\ label = "session" => req[r].kind = "consent"
             /\ req[r].kind = "login" /\ label \in Early => pc[r] \in Early
    <3>1. q.kind = "login" /\ label \in Early => q.session = Absent
      BY <2>1, <2>7 DEF SessionSafe
    <3> QED BY <2>1, <2>7, <3>1 DEF SessionSafe
  <2> HIDE DEF Goal
  <2> QED BY <1>4, <2>2, <2>3, <2>4, <2>5, <2>6, <2>7 DEF Walks
<1> HIDE DEF Goal
<1> QED BY <1>1, <1>2, <1>3, <1>4, MovesByStep

\* Freshness holds throughout.
LEMMA AlwaysFresh == Spec => []Freshness
<1>1. Init => Freshness
  <2>1. ASSUME Init PROVE Freshness
    BY <2>1, FlowAssumption
    DEF Init, Freshness, AskedInTime, HandoffsFresh, SessionsReal, HoldersSafe, CodesFresh, Running
  <2> QED BY <2>1
<1>2. Typed /\ Freshness /\ [Next]_vars => Freshness'
  BY AskedInTimeKept, HandoffsKept, SessionsKept, HoldersKept, CodesKept DEF Freshness
<1> QED BY <1>1, <1>2, AlwaysTyped, PTL DEF Spec

\* Every code, in every interleaving of requests, tabs and failing calls, stands
\* on a login of its subject at its auth_time that is as recent as max_age asked
\* and, after prompt=login or max_age=0, on a login made for this transaction.
THEOREM CodesStandOnLogins == Spec => []AuthenticationIsFresh
<1>1. Typed /\ Freshness => AuthenticationIsFresh
  <2> SUFFICES ASSUME Typed, Freshness, NEW r \in Requests, codes[r] # Absent
               PROVE  LET code == codes[r]
                          params == asked[code.txn]
                      IN  /\ params.maxAge # Absent =>
                               code.authTime + params.maxAge >= params.createdAt
                          /\ \E q \in Requests :
                               /\ LoggedIn(q, code.subject, code.authTime)
                               /\ MustReauthenticate(params) => req[q].txn = code.txn
    BY DEF AuthenticationIsFresh
  <2>1. codes[r] \in Code
    BY DEF Typed, TypeOK
  <2>2. Fresh(SessionOf(codes[r]), codes[r].txn)
    BY <2>1 DEF Freshness, CodesFresh
  <2> QED BY <2>2 DEF Fresh, Recent, MadeBy, LoggedIn, SessionOf
<1> QED BY <1>1, AlwaysTyped, AlwaysFresh, PTL

-----------------------------------------------------------------------------
(* SilenceHasConsent: every scope a consent holds, in the store or in the  *)
(* copy a request has read, was approved on the consent form; and a        *)
(* request that is answered without the form was compared with it.         *)

\* Every scope of S is in a code that was approved by the user for the client.
Backed(S, u, c) ==
  \A scope \in S : \E q \in Requests : Approved(q, u, c) /\ scope \in codes[q].scope

\* The session may answer the request without a form.
Quietly(s, params) ==
  /\ "consent" \notin params.prompt
  /\ params.hint \in {Absent, s.subject}
  /\ Backed(params.scope, s.subject, params.client)

\* The code that a request is issuing, or has issued.
CodeFor(q) ==
  [txn |-> q.txn, subject |-> q.session.subject, authTime |-> q.session.authTime,
   scope |-> GrantedScope(asked[q.txn])]

\* What a request has made sure of about what was approved.
ConsentSafe(label, r, q) ==
  /\ label = "consented" =>
       /\ asked[q.txn].hint \in {Absent, q.session.subject}
       /\ "consent" \notin asked[q.txn].prompt
  /\ q.kind = "authorize" /\ label \in {"complete", "issue"} => Quietly(q.session, asked[q.txn])
  /\ label \in Late => codes[r] = CodeFor(q)
  /\ label \in {"putConsent", "putGrant"} =>
       Backed(q.entry.scopes, q.session.subject, asked[q.txn].client)

\* Where a request that has issued its code can be.
Coded == Late \cup {"clear", "done", "denied", "lost"}

AskedSound == \A t \in Requests : asked[t] # Absent => Sound(asked[t])

ConsentsBacked == \A u \in Users, c \in Clients : Backed(consents[<<u, c>>].scopes, u, c)

AnswersSafe ==
  \A r \in Requests, label \in Running, q \in Request :
    pc[r] = label /\ req[r] = q => ConsentSafe(label, r, q)

CodesQuiet ==
  \A r \in Requests, c \in Code :
    codes[r] = c =>
      /\ pc[r] \in Coded
      /\ c.scope \subseteq asked[c.txn].scope
      /\ req[r].kind = "authorize" => Quietly(SessionOf(c), asked[c.txn])

Consented == AskedSound /\ ConsentsBacked /\ AnswersSafe /\ CodesQuiet

\* What a step does on the way from a session to a code and its record.
Answers(r) ==
  \/ /\ SilentSession(r) \/ SignOnSession(r)
     /\ req'[r].session = BrowserSession(r)
  \/ (CheckConsent(r) \/ Complete(r) \/ Issue(r)) /\ req' = req
  \/ /\ RecordConsent(r) \/ PutConsent(r)
     /\ req' = req /\ pc'[r] = "recordGrant"
  \/ /\ ReadConsent(r) /\ req'[r].session = req[r].session
     /\ req'[r].entry = consents[ConsentKey(r)]
  \/ /\ pc'[r] \notin {"consented", "issue"} \cup Late
     /\ pc'[r] = "complete" => req[r].kind = "consent"

\* No step leads to a code in another way.
LEMMA AnswersByStep ==
  ASSUME Typed, NEW r \in Requests, Serve(r) \/ Fail(r)
  PROVE  Answers(r) /\ (pc[r] \in Coded => pc'[r] \in Coded)
<1> DEFINE Goal == Answers(r) /\ (pc[r] \in Coded => pc'[r] \in Coded)
<1> SUFFICES Goal
  OBVIOUS
<1>t. /\ pc \in [Requests -> Running \cup Ended \cup {"idle"}]
      /\ req \in [Requests -> Request \cup {Absent}]
      /\ pc[r] \in Running /\ req[r] \in Request /\ Knows(pc[r], req[r])
  <2>1. pc[r] \in Running
    BY ServeSteps DEF Steps
  <2> QED BY <2>1, StandsAt DEF Typed, TypeOK
<1>1. CASE AuthorizeStep(r)
  <2>1. CASE NoSession(r) \/ HintRejected(r) \/ HandOff(r)
    <3>1. pc[r] \in {"session", "handoff"} /\ pc'[r] \in {"drop", "page"}
      BY <2>1, <1>t DEF NoSession, HintRejected, HandOff, At, Goto
    <3> QED BY <3>1 DEF Answers, Late, Coded
  <2>2. CASE SilentSession(r) \/ SignOnSession(r)
    <3>1. /\ req' = [req EXCEPT ![r] = [req[r] EXCEPT !.session = BrowserSession(r)]]
          /\ pc[r] = "session"
      BY <2>2, <1>t DEF SilentSession, SignOnSession, At
    <3> QED BY <2>2, <3>1, <1>t DEF Answers, Request, Coded, Late
  <2>3. CASE CheckConsent(r)
    BY <2>3 DEF CheckConsent, At, Answers, Coded, Late
  <2> QED BY <1>1, <2>1, <2>2, <2>3 DEF AuthorizeStep, ResolveSession
<1>2. CASE LoginStep(r)
  <2>1. /\ req[r].kind = "login"
        /\ pc'[r] \in {"denied", "clearHandoff", "setHandoff", "clearSession", "setSession",
                       "respond", "page"}
    BY <1>2, <1>t DEF LoginStep, LoginFails, LoginSucceeds, ClearHandoff, ClearSession, SetHandoff,
                      SetSession, LoginResponds, At, Goto
  <2>2. pc[r] \notin Coded
    BY <2>1, <1>t DEF Knows, KindAt, Coded, Late, Running
  <2> QED BY <2>1, <2>2 DEF Answers, Late
<1>3. CASE FormStep(r)
  <2>1. CASE FormAccepted(r) \/ FormRejected(r) \/ Drop(r)
    <3>1. pc[r] \in {"find", "drop"} /\ pc'[r] \in {"authenticate", "session", "drop", "denied", "clear"}
      BY <2>1, <1>t DEF FormAccepted, FormRejected, Drop, Goto
    <3> QED BY <3>1 DEF Answers, Late, Coded
  <2>2. CASE ConsentSession(r)
    <3>1. pc[r] = "session" /\ req[r].kind = "consent" /\ pc'[r] \in {"denied", "complete"}
      BY <2>2, <1>t DEF ConsentSession, At, Goto
    <3> QED BY <3>1 DEF Answers, Late, Coded
  <2> QED BY <1>3, <2>1, <2>2 DEF FormStep
<1>4. CASE CodeStep(r)
  <2>1. CASE Complete(r) \/ Issue(r)
    <3>1. /\ req' = req /\ pc[r] \in {"complete", "issue"}
      BY <2>1, <1>t DEF Complete, Issue
    <3> QED BY <2>1, <3>1 DEF Answers, Late, Coded
  <2>2. CASE RecordConsent(r) \/ PutConsent(r)
    <3>1. req' = req /\ pc'[r] = "recordGrant"
      BY <2>2, <1>t DEF RecordConsent, PutConsent, Goto
    <3> QED BY <2>2, <3>1 DEF Answers, Coded, Late
  <2>3. CASE ReadConsent(r)
    <3>1. /\ req' = [req EXCEPT ![r] = [req[r] EXCEPT !.entry = consents[ConsentKey(r)]]]
          /\ pc[r] \in {"recordConsent", "recordGrant", "withdraw"}
          /\ pc'[r] = IF pc[r] = "recordConsent" THEN "putConsent"
                      ELSE IF pc[r] = "recordGrant" THEN "putGrant" ELSE "detach"
      BY <2>3, <1>t DEF ReadConsent, Goto
    <3>2. req'[r].session = req[r].session /\ req'[r].entry = consents[ConsentKey(r)]
      BY <3>1, <1>t DEF Request
    <3> QED BY <2>3, <3>1, <3>2 DEF Answers, Late, Coded
  <2>4. CASE Clear(r) \/ RecordGrant(r) \/ PutGrant(r)
    <3>1. pc'[r] \in {"done", "denied", "clear"}
      BY <2>4, <1>t DEF Clear, RecordGrant, PutGrant, AfterRecord, Goto
    <3> QED BY <3>1 DEF Answers, Late, Coded
  <2> QED BY <1>4, <2>1, <2>2, <2>3, <2>4 DEF CodeStep
<1>5. CASE WithdrawStep(r)
  <2>1. pc[r] \in {"withdraw", "detach", "cascade"} /\ pc'[r] \in {"cascade", "done"}
    BY <1>5, <1>t DEF WithdrawStep, Withdraw, Detach, Withdrawn, RevokeGrant, At, Goto
  <2> QED BY <2>1 DEF Answers, Late, Coded
<1>6. CASE Fail(r)
  <2>1. pc'[r] \in {"drop", "lost"} /\ (pc'[r] = "drop" => pc[r] \in {"session", "consented"})
    <3>1. CASE StoreFails(r)
      <4>1. pc'[r] = IF /\ req[r].kind = "authorize" /\ Silent(Asked(r))
                        /\ pc[r] \in {"session", "consented"}
                     THEN "drop" ELSE "lost"
        BY <3>1, <1>t DEF StoreFails, Goto
      <4> QED BY <4>1
    <3>2. CASE CookieLost(r)
      BY <3>2, <1>t DEF CookieLost, Goto
    <3> QED BY <1>6, <3>1, <3>2 DEF Fail
  <2> QED BY <2>1 DEF Answers, Late, Coded
<1> HIDE DEF Goal
<1> QED BY <1>1, <1>2, <1>3, <1>4, <1>5, <1>6 DEF Serve

\* A code, once stored, is never stored over.
LEMMA CodesLast ==
  ASSUME Typed, CodesQuiet, [Next]_vars, NEW r \in Requests, codes[r] # Absent
  PROVE  codes'[r] = codes[r] /\ req'[r].kind = req[r].kind
<1>1. codes[r] \in Code /\ pc[r] \in Coded
  BY DEF Typed, TypeOK, CodesQuiet
<1>2. pc[r] # "issue" /\ pc[r] # "idle"
  BY <1>1 DEF Coded, Late
<1>3. codes'[r] = codes[r]
  BY <1>2, CodesByStep DEF Issue
<1>4. ~Opens(r) /\ ~Joins(r)
  BY <1>2, Opened DEF Joins
<1> QED BY <1>3, <1>4, MovesByStep DEF Steps

\* So what was approved stays approved.
LEMMA BackedLasts ==
  ASSUME Typed, CodesQuiet, CodesFresh, [Next]_vars
  PROVE  \A S, u, c : Backed(S, u, c) => Backed(S, u, c)'
<1> SUFFICES ASSUME NEW S, NEW u, NEW c, Backed(S, u, c), NEW scope \in S
             PROVE  \E q \in Requests : Approved(q, u, c)' /\ scope \in codes'[q].scope
  BY DEF Backed
<1>1. PICK q \in Requests : Approved(q, u, c) /\ scope \in codes[q].scope
  BY DEF Backed
<1>2. codes[q] \in Code /\ codes[q] # Absent
  BY <1>1, FlowAssumption DEF Approved, Typed, TypeOK
<1>3. codes'[q] = codes[q] /\ req'[q].kind = req[q].kind
  BY <1>2, CodesLast
<1>4. asked'[codes[q].txn] = asked[codes[q].txn]
  BY <1>2, AskedByStep DEF CodesFresh, Code
<1> QED BY <1>1, <1>3, <1>4 DEF Approved

\* What could be answered without a form still can be: approvals are not undone.
LEMMA QuietlyLasts ==
  ASSUME Typed, CodesQuiet, CodesFresh, [Next]_vars
  PROVE  \A s, params : Quietly(s, params) => Quietly(s, params)'
BY BackedLasts DEF Quietly

\* Every transaction that is opened has sound parameters.
LEMMA AskedSoundKept ==
  ASSUME Typed, AskedSound, [Next]_vars
  PROVE  AskedSound'
<1> SUFFICES ASSUME NEW t \in Requests, asked'[t] # Absent PROVE Sound(asked'[t])
  BY DEF AskedSound, Sound, Silent
<1>1. CASE asked'[t] = asked[t]
  BY <1>1 DEF AskedSound
<1>2. CASE Opens(t)
  BY <1>2, Opened
<1> QED BY <1>1, <1>2, AskedByStep

\* What a request that answers knows of its code.
LEMMA Stored ==
  ASSUME Typed, AnswersSafe, NEW r \in Requests, pc[r] \in Late
  PROVE  /\ req[r] \in Request /\ req[r].session \in Session /\ Asked(r) \in Params
         /\ codes[r] = CodeFor(req[r]) /\ codes[r] # Absent
         /\ req[r].kind \in {"authorize", "consent"}
         /\ ConsentKey(r) = <<req[r].session.subject, Asked(r).client>>
<1>1. pc[r] \in Running
  BY DEF Late, Running
<1>2. req[r] \in Request /\ Knows(pc[r], req[r])
  BY <1>1, StandsAt
<1>3. req[r].session \in Session /\ req[r].kind \in {"authorize", "consent"}
  BY <1>2 DEF Knows, KindAt, Answering, Late
<1>4. Asked(r) \in Params
  BY <1>1, <1>3, StandsAt
<1>5. codes[r] = CodeFor(req[r])
  BY <1>1, <1>2 DEF AnswersSafe, ConsentSafe
<1>6. CodeFor(req[r]) \in Code
  BY <1>2, <1>3, <1>4 DEF CodeFor, Code, Session, Params, Request, GrantedScope, Asked
<1>7. ConsentKey(r) = <<req[r].session.subject, Asked(r).client>>
  BY <1>3 DEF ConsentKey
<1> QED BY <1>2, <1>3, <1>4, <1>5, <1>6, <1>7, FlowAssumption

\* The consent form's own code backs what it adds to the consent.
LEMMA FormApproves ==
  ASSUME Typed, AnswersSafe, NEW r \in Requests, pc[r] \in {"recordConsent", "putConsent"}
  PROVE  Backed(GrantedScope(Asked(r)), req[r].session.subject, Asked(r).client)
<1>1. pc[r] \in Late /\ pc[r] \in Running
  BY DEF Late, Running
<1>2. req[r].kind = "consent"
  BY <1>1, StandsAt DEF Knows, KindAt
<1>3. codes[r] = CodeFor(req[r]) /\ codes[r] # Absent
  BY <1>1, Stored
<1>4. /\ codes[r].subject = req[r].session.subject /\ codes[r].txn = req[r].txn
      /\ codes[r].scope = GrantedScope(Asked(r))
  BY <1>3 DEF CodeFor, Asked
<1> QED BY <1>2, <1>3, <1>4 DEF Backed, Approved, Asked

\* No write of a consent, late copies included, adds an unapproved scope.
LEMMA ConsentsBackedKept ==
  ASSUME Typed, Consented, CodesFresh, [Next]_vars
  PROVE  ConsentsBacked'
<1>t. AnswersSafe /\ CodesQuiet /\ ConsentsBacked
  BY DEF Consented
<1> SUFFICES ASSUME NEW u \in Users, NEW c \in Clients
             PROVE  \E S : S = consents'[<<u, c>>].scopes /\ Backed(S, u, c)
  BY BackedLasts, <1>t DEF ConsentsBacked
<1> DEFINE k == <<u, c>>
<1>k. k \in Users \X Clients
  OBVIOUS
<1>b. Backed(consents[k].scopes, u, c)
  BY <1>t DEF ConsentsBacked
<1>u. \A S, T : Backed(S, u, c) /\ Backed(T, u, c) => Backed(S \cup T, u, c)
  BY DEF Backed
<1>w. \A entry \in Consent : /\ \A S : WithScopes(entry, S).scopes = entry.scopes \cup S
                             /\ \A g : WithGrant(entry, g).scopes = entry.scopes
  BY DEF WithScopes, WithGrant, Consent
<1>e. consents[k] \in Consent
  BY <1>k DEF Typed, TypeOK
<1> DEFINE Goal == Backed(consents'[k].scopes, u, c)
<1> SUFFICES Goal
  OBVIOUS
<1>1. CASE consents'[k] = consents[k]
  BY <1>1, <1>b
<1>2. CASE consents'[k] = NoConsent
  BY <1>2 DEF NoConsent, Backed
<1>3. ASSUME NEW r \in Requests, ConsentKey(r) = k, pc[r] \in Late,
             \/ /\ RecordConsent(r)
                /\ consents'[k] = WithScopes(consents[k], GrantedScope(Asked(r)))
             \/ RecordGrant(r) /\ consents'[k] = WithGrant(consents[k], r)
             \/ /\ PutConsent(r)
                /\ consents'[k] = WithScopes(req[r].entry, GrantedScope(Asked(r)))
             \/ PutGrant(r) /\ consents'[k] = WithGrant(req[r].entry, r)
      PROVE  Goal
  <2>1. req[r] \in Request /\ u = req[r].session.subject /\ c = Asked(r).client
    BY <1>3, <1>t, Stored
  <2>2. req[r].entry \in Consent
    BY <2>1 DEF Request
  <2>3. pc[r] \in {"putConsent", "putGrant"} => Backed(req[r].entry.scopes, u, c)
    BY <2>1, <1>t DEF AnswersSafe, ConsentSafe, Asked, Running
  <2>4. pc[r] \in {"recordConsent", "putConsent"} => Backed(GrantedScope(Asked(r)), u, c)
    BY <2>1, <1>t, FormApproves
  <2>5. CASE RecordConsent(r) /\ consents'[k] = WithScopes(consents[k], GrantedScope(Asked(r)))
    <3>1. Backed(GrantedScope(Asked(r)), u, c)
      BY <2>4, <2>5 DEF RecordConsent
    <3>2. consents'[k].scopes = consents[k].scopes \cup GrantedScope(Asked(r))
      BY <2>5, <1>e, <1>w
    <3> QED BY <3>1, <3>2, <1>b, <1>u
  <2>6. CASE RecordGrant(r) /\ consents'[k] = WithGrant(consents[k], r)
    <3>1. consents'[k].scopes = consents[k].scopes
      BY <2>6, <1>e, <1>w
    <3> QED BY <3>1, <1>b
  <2>7. CASE PutConsent(r) /\ consents'[k] = WithScopes(req[r].entry, GrantedScope(Asked(r)))
    <3>1. Backed(GrantedScope(Asked(r)), u, c) /\ Backed(req[r].entry.scopes, u, c)
      BY <2>3, <2>4, <2>7 DEF PutConsent
    <3>2. consents'[k].scopes = req[r].entry.scopes \cup GrantedScope(Asked(r))
      BY <2>7, <2>2, <1>w
    <3> QED BY <3>1, <3>2, <1>u
  <2>8. CASE PutGrant(r) /\ consents'[k] = WithGrant(req[r].entry, r)
    <3>1. Backed(req[r].entry.scopes, u, c)
      BY <2>3, <2>8 DEF PutGrant
    <3>2. consents'[k].scopes = req[r].entry.scopes
      BY <2>8, <2>2, <1>w
    <3> QED BY <3>1, <3>2
  <2> HIDE DEF Goal
  <2> QED BY <1>3, <2>5, <2>6, <2>7, <2>8
<1>4. \A r \in Requests : RecordConsent(r) \/ RecordGrant(r) \/ PutConsent(r) \/ PutGrant(r) =>
        pc[r] \in Late
  BY DEF RecordConsent, RecordGrant, PutConsent, PutGrant, Late
<1> HIDE DEF Goal, k
<1> QED BY <1>k, <1>1, <1>2, <1>3, <1>4, ConsentsByStep

\* A code issued in silence carries approved scopes only.
LEMMA CodesQuietKept ==
  ASSUME Typed, Consented, CodesFresh, [Next]_vars
  PROVE  CodesQuiet'
<1>t. /\ AnswersSafe /\ CodesQuiet /\ Absent \notin Code
      /\ codes \in [Requests -> Code \cup {Absent}]
      /\ codes' \in [Requests -> Code \cup {Absent}]
      /\ pc \in [Requests -> Running \cup Ended \cup {"idle"}]
  BY FlowAssumption, CodesByStep DEF Consented, Typed, TypeOK
<1> SUFFICES ASSUME NEW r \in Requests, NEW c \in Code, codes'[r] = c
             PROVE  /\ pc'[r] \in Coded /\ c.scope \subseteq asked'[c.txn].scope
                    /\ req'[r].kind = "authorize" =>
                         \A s, params : s = SessionOf(c) /\ params = asked'[c.txn] => Quietly(s, params)'
  BY DEF CodesQuiet, SessionOf
<1>1. CASE codes'[r] = codes[r]
  <2>1. /\ codes[r] = c /\ pc[r] \in Coded /\ req'[r].kind = req[r].kind
        /\ c.scope \subseteq asked[c.txn].scope
        /\ req[r].kind = "authorize" => Quietly(SessionOf(c), asked[c.txn])
    BY <1>1, <1>t, CodesLast DEF CodesQuiet
  <2>2. asked'[c.txn] = asked[c.txn]
    BY <2>1, <1>t, AskedByStep DEF CodesFresh, Code
  <2>3. pc'[r] \in Coded
    <3>1. ~Opens(r) /\ ~Joins(r)
      BY <2>1, Opened DEF Joins, Coded, Late
    <3> QED BY <2>1, <3>1, MovesByStep, AnswersByStep
  <2> QED BY <2>1, <2>2, <2>3, <1>t, QuietlyLasts
<1>2. CASE Issue(r) /\ codes'[r] = CodeOf(r)
  <2>1. /\ pc[r] = "issue" /\ "issue" \in Running /\ pc'[r] \in Coded
        /\ req' = req /\ asked' = asked
    BY <1>2, <1>t DEF Issue, AfterIssue, Goto, Running, Coded, Late
  <2>2. req[r] \in Request /\ Knows("issue", req[r])
    BY <2>1, StandsAt
  <2>3. req[r].session \in Session
    BY <2>2 DEF Knows, Answering
  <2>4. req[r].kind = "authorize" => Quietly(req[r].session, asked[req[r].txn])
    BY <2>1, <2>2, <1>t DEF AnswersSafe, ConsentSafe
  <2>5. /\ SessionOf(c) = req[r].session /\ c.txn = req[r].txn
        /\ c.scope \subseteq asked[c.txn].scope
    BY <1>2, <2>3 DEF CodeOf, SessionOf, Session, GrantedScope, Asked
  <2> QED BY <2>1, <2>4, <2>5, <1>t, QuietlyLasts
<1> QED BY <1>1, <1>2, CodesByStep

\* A request on its silent way was compared with an approved consent.
LEMMA AnswersKept ==
  ASSUME Typed, Consented, CodesFresh, [Next]_vars
  PROVE  AnswersSafe'
<1>t. /\ AnswersSafe /\ CodesQuiet /\ AskedSound /\ ConsentsBacked
      /\ Absent \notin Session /\ Absent \notin Request
      /\ sessions \in [Requests -> Session \cup {Absent}]
      /\ pc \in [Requests -> Running \cup Ended \cup {"idle"}]
  BY FlowAssumption DEF Consented, Typed, TypeOK
<1> SUFFICES ASSUME NEW r \in Requests, NEW label \in Running, NEW q \in Request,
                    pc'[r] = label, req'[r] = q
             PROVE  ConsentSafe(label, r, q)'
  BY DEF AnswersSafe
<1> DEFINE Goal == ConsentSafe(label, r, q)'
<1> SUFFICES Goal
  OBVIOUS
<1>c. Control(r)' /\ Control(r)
  BY NextTyped DEF Typed
<1>q. /\ Knows(label, q) /\ q.txn \in Requests
      /\ q.kind # "withdraw" => asked'[q.txn] # Absent
  BY <1>c, <1>t DEF Control, Request
<1>k. label \in Answering => q.session \in Session /\ q.kind \in {"authorize", "consent"}
  BY <1>q DEF Knows, KindAt, Answering, Late
<1>1. CASE pc'[r] = pc[r] /\ req'[r] = req[r]
  <2>1. ConsentSafe(label, r, q)
    BY <1>1, <1>t DEF AnswersSafe
  <2>2. q.kind # "withdraw" => asked'[q.txn] = asked[q.txn] /\ asked[q.txn] # Absent
    BY <1>1, <1>c, <1>q, <1>t, AskedByStep DEF Control
  <2>3. label = "consented" \/ label \in Answering => asked'[q.txn] = asked[q.txn]
    BY <2>2, <1>q, <1>k DEF Knows, KindAt
  <2>4. q.kind = "authorize" /\ label \in {"complete", "issue"} =>
          \A params : params = asked[q.txn] => Quietly(q.session, params)'
    BY <2>1, <1>t, QuietlyLasts DEF ConsentSafe
  <2>5. label \in Late => codes'[r] = codes[r]
    BY <1>1, <1>t, Stored, CodesLast
  <2>6. label \in {"putConsent", "putGrant"} =>
          \A client : client = asked[q.txn].client =>
            Backed(q.entry.scopes, q.session.subject, client)'
    BY <2>1, <1>t, BackedLasts DEF ConsentSafe
  <2> QED BY <2>1, <2>3, <2>4, <2>5, <2>6 DEF ConsentSafe, CodeFor, Answering, Late
<1>2. CASE Opens(r)
  <2>1. label = "session"
    BY <1>2, Opened DEF Running
  <2> QED BY <2>1 DEF ConsentSafe, Late
<1>3. CASE Joins(r)
  <2>1. label \in {"find", "withdraw"}
    BY <1>3 DEF Joins
  <2> QED BY <2>1 DEF ConsentSafe, Late
<1>4. CASE Steps(r) /\ Answers(r)
  <2>1. /\ asked' = asked /\ q.kind = req[r].kind /\ q.txn = req[r].txn /\ pc[r] \in Running
        /\ req[r] \in Request /\ Knows(pc[r], req[r]) /\ ConsentSafe(pc[r], r, req[r])
    <3>1. pc[r] \in Running
      BY <1>4 DEF Steps
    <3> QED BY <1>4, <3>1, StandsAt, <1>t DEF Steps, AnswersSafe
  <2>2. q.kind # "withdraw" => asked[q.txn] # Absent /\ asked[q.txn] \in Params
    BY <2>1, <1>q, <1>t, StandsAt DEF Asked
  <2>3. CASE (SilentSession(r) \/ SignOnSession(r)) /\ q.session = BrowserSession(r)
    <3>1. /\ req[r].kind = "authorize" /\ label \in {"consented", "handoff", "drop"}
          /\ label = "consented" /\ Silent(Asked(r)) =>
               Asked(r).hint \in {Absent, BrowserSession(r).subject}
          /\ label = "consented" /\ ~Silent(Asked(r)) => "consent" \notin Asked(r).prompt
      BY <2>3, <1>t DEF SilentSession, SignOnSession, At, Goto, Running
    <3>2. Sound(asked[q.txn])
      BY <3>1, <2>1, <2>2, <1>q, <1>t DEF AskedSound
    <3>3. label = "consented" => /\ asked[q.txn].hint \in {Absent, q.session.subject}
                                 /\ "consent" \notin asked[q.txn].prompt
      BY <3>1, <3>2, <2>1, <2>3 DEF Sound, Asked
    <3> QED BY <3>1, <3>3, <2>1 DEF ConsentSafe, Late
  <2>4. CASE CheckConsent(r) /\ req' = req
    <3>1. /\ pc[r] = "consented" /\ req[r].kind = "authorize"
          /\ label \in {"complete", "handoff", "drop"} /\ q = req[r]
          /\ label = "complete" => HasConsent(r)
      BY <2>4, <1>t DEF CheckConsent, At, Goto
    <3>2. /\ asked[q.txn].hint \in {Absent, q.session.subject}
          /\ "consent" \notin asked[q.txn].prompt
      BY <3>1, <2>1 DEF ConsentSafe
    <3>3. q.session \in Session
      BY <3>1, <2>1 DEF Knows
    <3>4. Backed(consents[<<q.session.subject, asked[q.txn].client>>].scopes,
                 q.session.subject, asked[q.txn].client)
      BY <3>1, <3>3, <2>2, <1>t DEF ConsentsBacked, Session, Params
    <3>5. label = "complete" => Backed(asked[q.txn].scope, q.session.subject, asked[q.txn].client)
      BY <3>1, <3>4 DEF HasConsent, Asked, Backed
    <3>6. label = "complete" => \A params : params = asked[q.txn] => Quietly(q.session, params)'
      BY <3>2, <3>5, <1>t, QuietlyLasts DEF Quietly
    <3> QED BY <3>1, <3>6, <2>1 DEF ConsentSafe, Late
  <2>5. CASE Complete(r) /\ req' = req
    <3>1. pc[r] = "complete" /\ label = "issue" /\ q = req[r]
      BY <2>5, <1>t DEF Complete, Goto
    <3>2. q.kind = "authorize" => \A params : params = asked[q.txn] => Quietly(q.session, params)'
      BY <3>1, <2>1, <1>t, QuietlyLasts DEF ConsentSafe
    <3> QED BY <3>1, <3>2, <2>1 DEF ConsentSafe, Late
  <2>6. CASE Issue(r) /\ req' = req
    <3>1. label \in {"recordConsent", "recordGrant"} /\ q = req[r]
      BY <2>6, <1>t DEF Issue, AfterIssue, Goto
    <3>2. codes' = [codes EXCEPT ![r] = CodeFor(q)]
      BY <2>6, <3>1 DEF Issue, CodeFor, Asked
    <3>3. codes'[r] = CodeFor(q)
      BY <3>2 DEF Typed, TypeOK
    <3> QED BY <3>1, <3>3, <2>1 DEF ConsentSafe, CodeFor, Late
  <2>7. CASE (RecordConsent(r) \/ PutConsent(r)) /\ req' = req /\ pc'[r] = "recordGrant"
    <3>1. pc[r] \in Late /\ label = "recordGrant" /\ q = req[r] /\ codes' = codes
      BY <2>7 DEF RecordConsent, PutConsent, Late
    <3>2. codes'[r] = CodeFor(q)
      BY <3>1, <2>1 DEF ConsentSafe
    <3> QED BY <3>1, <3>2, <2>1 DEF ConsentSafe, CodeFor, Late
  <2>8. CASE /\ ReadConsent(r) /\ q.session = req[r].session
             /\ q.entry = consents[ConsentKey(r)]
    <3>1. /\ codes' = codes /\ pc[r] \in {"recordConsent", "recordGrant", "withdraw"}
          /\ label = IF pc[r] = "recordConsent" THEN "putConsent"
                     ELSE IF pc[r] = "recordGrant" THEN "putGrant" ELSE "detach"
      BY <2>8, <1>t DEF ReadConsent, Goto
    <3>2. CASE pc[r] = "withdraw"
      BY <3>1, <3>2 DEF ConsentSafe, Late
    <3>3. CASE pc[r] \in {"recordConsent", "recordGrant"}
      <4>1. pc[r] \in Late /\ label \in {"putConsent", "putGrant"}
        BY <3>1, <3>3 DEF Late
      <4>2. /\ codes[r] = CodeFor(req[r]) /\ req[r].session \in Session /\ Asked(r) \in Params
            /\ ConsentKey(r) = <<req[r].session.subject, Asked(r).client>>
        BY <4>1, <1>t, Stored
      <4>3. codes'[r] = CodeFor(q)
        BY <4>2, <3>1, <2>1, <2>8 DEF CodeFor
      <4>4. Backed(q.entry.scopes, q.session.subject, asked[q.txn].client)
        BY <4>2, <2>1, <2>8, <1>t DEF ConsentsBacked, Session, Params, Asked
      <4>5. \A client : client = asked[q.txn].client =>
              Backed(q.entry.scopes, q.session.subject, client)'
        BY <4>4, <1>t, BackedLasts
      <4> QED BY <4>1, <4>3, <4>5, <2>1 DEF ConsentSafe, CodeFor
    <3> QED BY <3>1, <3>2, <3>3
  <2>9. CASE label \notin {"consented", "issue"} \cup Late /\ (label = "complete" => req[r].kind = "consent")
    BY <2>1, <2>9 DEF ConsentSafe, Late
  <2> HIDE DEF Goal
  <2> QED BY <1>4, <2>3, <2>4, <2>5, <2>6, <2>7, <2>8, <2>9 DEF Answers
<1> HIDE DEF Goal
<1> QED BY <1>1, <1>2, <1>3, <1>4, MovesByStep, AnswersByStep

\* Every scope consented to was approved, throughout.
LEMMA AlwaysConsented == Spec => []Consented
<1>1. Init => Consented
  <2>1. ASSUME Init PROVE Consented
    BY <2>1, FlowAssumption
    DEF Init, Consented, AskedSound, ConsentsBacked, AnswersSafe, CodesQuiet, Running, Backed, NoConsent
  <2> QED BY <2>1
<1>2. Typed /\ Freshness /\ Consented /\ [Next]_vars => Consented'
  BY AskedSoundKept, ConsentsBackedKept, AnswersKept, CodesQuietKept DEF Consented, Freshness
<1> QED BY <1>1, <1>2, AlwaysTyped, AlwaysFresh, PTL DEF Spec

\* No request gets a code in silence for more than its user approved for its
\* client on the consent form: not with a consent another tab is writing or
\* withdrawing, not with one the JSON store read before and puts back.
THEOREM NothingSilentWithoutConsent == Spec => []SilenceHasConsent
<1>1. Typed /\ Freshness /\ Consented => SilenceHasConsent
  <2> SUFFICES ASSUME Typed, Freshness, Consented,
                      NEW r \in Requests, codes[r] # Absent, req[r].kind = "authorize"
               PROVE  LET code == codes[r]
                          params == asked[code.txn]
                      IN  /\ "consent" \notin params.prompt
                          /\ OfflineAccess \notin code.scope
                          /\ params.hint \in {Absent, code.subject}
                          /\ \A scope \in code.scope :
                               \E q \in Requests :
                                 /\ Approved(q, code.subject, params.client)
                                 /\ scope \in codes[q].scope
    BY DEF SilenceHasConsent
  <2>1. codes[r] \in Code
    BY DEF Typed, TypeOK
  <2>2. Quietly(SessionOf(codes[r]), asked[codes[r].txn]) /\ asked[codes[r].txn] # Absent
    BY <2>1 DEF Consented, CodesQuiet, Freshness, CodesFresh
  <2>3. Sound(asked[codes[r].txn])
    BY <2>1, <2>2 DEF Consented, AskedSound, Code
  <2>4. codes[r].scope \subseteq asked[codes[r].txn].scope
    BY <2>1 DEF Consented, CodesQuiet
  <2> QED BY <2>2, <2>3, <2>4 DEF Quietly, Sound, SessionOf, Backed
<1> QED BY <1>1, AlwaysTyped, AlwaysFresh, AlwaysConsented, PTL

-----------------------------------------------------------------------------
(* In-memory stores: the limit of failed logins, and the index of grants.  *)

\* The labels at which a form or a session may still be answered.
Open == {"session", "consented", "complete", "authenticate"}

\* Where the labels that matter below come from, and where they lead.
Turns(r) ==
  /\ pc'[r] \in Open => txns' = txns /\ (pc[r] \in Open \/ FormAccepted(r))
  /\ pc'[r] = "issue" => Complete(r)
  /\ pc'[r] \in {"putConsent", "putGrant", "detach"} => ReadConsent(r)
  /\ pc[r] \in Late /\ pc'[r] \in {"clear", "done"} => RecordGrant(r) \/ PutGrant(r)
  /\ pc[r] \in {"clear", "cascade"} => UNCHANGED <<codes, consents, asked>>
  /\ pc[r] = "clear" => req' = req
  /\ pc[r] = "cascade" => \/ Withdrawn(r)
                          \/ \E g \in Requests : RevokeGrant(r, g)
                          \/ StoreFails(r)

\* No step turns a request in another way.
LEMMA TurnsByStep ==
  ASSUME Typed, NEW r \in Requests, Serve(r) \/ Fail(r)
  PROVE  Turns(r)
<1> DEFINE Goal == Turns(r)
<1> SUFFICES Goal
  OBVIOUS
<1>t. /\ pc \in [Requests -> Running \cup Ended \cup {"idle"}]
      /\ pc[r] \in Running /\ req[r] \in Request /\ Knows(pc[r], req[r])
  <2>1. pc[r] \in Running
    BY ServeSteps DEF Steps
  <2> QED BY <2>1, StandsAt DEF Typed, TypeOK
<1>1. CASE AuthorizeStep(r)
  <2>1. /\ pc[r] \in {"session", "consented", "handoff"} /\ txns' = txns
        /\ pc'[r] \in {"drop", "page", "consented", "handoff", "complete"}
        /\ pc[r] = "handoff" => pc'[r] = "page"
    <3>1. CASE ResolveSession(r)
      <4>1. CASE NoSession(r) \/ HintRejected(r)
        BY <3>1, <4>1, <1>t DEF ResolveSession, NoSession, HintRejected, At, Goto
      <4>2. CASE SilentSession(r)
        BY <3>1, <4>2, <1>t DEF ResolveSession, SilentSession, At, Goto
      <4>3. CASE SignOnSession(r)
        BY <3>1, <4>3, <1>t DEF ResolveSession, SignOnSession, At, Goto
      <4> QED BY <3>1, <4>1, <4>2, <4>3 DEF ResolveSession
    <3>2. CASE CheckConsent(r)
      BY <3>2, <1>t DEF CheckConsent, At, Goto
    <3>3. CASE HandOff(r)
      BY <3>3, <1>t DEF HandOff, At, Goto
    <3> QED BY <1>1, <3>1, <3>2, <3>3 DEF AuthorizeStep
  <2> QED BY <2>1 DEF Turns, Open, Late
<1>2. CASE LoginStep(r)
  <2>1. /\ req[r].kind = "login"
        /\ pc'[r] \in {"denied", "clearHandoff", "setHandoff", "clearSession", "setSession",
                       "respond", "page"}
    BY <1>2, <1>t DEF LoginStep, LoginFails, LoginSucceeds, ClearHandoff, ClearSession, SetHandoff,
                      SetSession, LoginResponds, At, Goto
  <2>2. pc[r] \notin Late \cup {"clear", "cascade"}
    BY <2>1, <1>t DEF Knows, KindAt, Late, Running
  <2> QED BY <2>1, <2>2 DEF Turns, Open
<1>3. CASE FormStep(r)
  <2>1. CASE FormAccepted(r)
    <3>1. /\ pc[r] = "find" /\ txns' = txns
          /\ pc'[r] \in {"authenticate", "session", "drop"}
      BY <2>1, <1>t DEF FormAccepted, Goto
    <3> QED BY <2>1, <3>1 DEF Turns, Late
  <2>2. CASE ConsentSession(r)
    <3>1. pc[r] = "session" /\ txns' = txns /\ pc'[r] \in {"denied", "complete"}
      BY <2>2, <1>t DEF ConsentSession, At, Goto
    <3> QED BY <3>1 DEF Turns, Open, Late
  <2>3. CASE FormRejected(r) \/ Drop(r)
    <3>1. pc[r] \in {"find", "drop"} /\ pc'[r] \in {"clear", "denied"}
      BY <2>3, <1>t DEF FormRejected, Drop, Goto
    <3> QED BY <3>1 DEF Turns, Open, Late
  <2> QED BY <1>3, <2>1, <2>2, <2>3 DEF FormStep
<1>4. CASE CodeStep(r)
  <2>1. CASE Complete(r)
    <3>1. pc[r] = "complete" /\ pc'[r] = "issue"
      BY <2>1, <1>t DEF Complete, Goto
    <3> QED BY <2>1, <3>1 DEF Turns, Open, Late
  <2>2. CASE Issue(r)
    <3>1. pc[r] = "issue" /\ pc'[r] \in {"recordConsent", "recordGrant"}
      BY <2>2, <1>t DEF Issue, AfterIssue, Goto
    <3> QED BY <3>1 DEF Turns, Open, Late
  <2>3. CASE RecordConsent(r) \/ PutConsent(r)
    <3>1. pc[r] \in Late /\ pc'[r] = "recordGrant"
      BY <2>3, <1>t DEF RecordConsent, PutConsent, Goto, Late
    <3> QED BY <3>1 DEF Turns, Open, Late
  <2>4. CASE RecordGrant(r) \/ PutGrant(r)
    <3>1. pc[r] \in Late /\ pc'[r] \in {"clear", "done"}
      BY <2>4, <1>t DEF RecordGrant, PutGrant, AfterRecord, Goto, Late
    <3> QED BY <2>4, <3>1 DEF Turns, Open, Late
  <2>5. CASE ReadConsent(r)
    <3>1. /\ pc[r] \in {"recordConsent", "recordGrant", "withdraw"}
          /\ pc'[r] \in {"putConsent", "putGrant", "detach"}
      BY <2>5, <1>t DEF ReadConsent, Goto
    <3> QED BY <2>5, <3>1 DEF Turns, Open, Late
  <2>6. CASE Clear(r)
    <3>1. /\ pc[r] = "clear" /\ pc'[r] \in {"done", "denied"} /\ req' = req
          /\ UNCHANGED <<codes, consents, asked>>
      BY <2>6, <1>t DEF Clear, At, Goto
    <3> QED BY <3>1 DEF Turns, Open, Late
  <2> QED BY <1>4, <2>1, <2>2, <2>3, <2>4, <2>5, <2>6 DEF CodeStep
<1>5. CASE WithdrawStep(r)
  <2>1. CASE Withdraw(r) \/ Detach(r)
    <3>1. pc[r] \in {"withdraw", "detach"} /\ pc'[r] = "cascade"
      BY <2>1, <1>t DEF Withdraw, Detach, At, Goto
    <3> QED BY <3>1 DEF Turns, Open, Late
  <2>2. CASE Withdrawn(r)
    <3>1. pc[r] = "cascade" /\ pc'[r] = "done" /\ UNCHANGED <<codes, consents, asked>>
      BY <2>2, <1>t DEF Withdrawn, Goto
    <3> QED BY <2>2, <3>1 DEF Turns, Open, Late
  <2>3. ASSUME NEW g \in Requests, RevokeGrant(r, g) PROVE Goal
    <3>1. pc[r] = "cascade" /\ pc'[r] = "cascade" /\ UNCHANGED <<codes, consents, asked>>
      BY <2>3 DEF RevokeGrant
    <3> QED BY <2>3, <3>1 DEF Turns, Open, Late
  <2> QED BY <1>5, <2>1, <2>2, <2>3 DEF WithdrawStep
<1>6. CASE Fail(r)
  <2>1. pc'[r] \in {"drop", "lost"} /\ UNCHANGED <<codes, consents, asked, req>>
    BY <1>6, <1>t DEF Fail, StoreFails, CookieLost, Goto
  <2>2. pc[r] = "cascade" => StoreFails(r)
    BY <1>6 DEF Fail, CookieLost
  <2> QED BY <2>1, <2>2 DEF Turns, Open
<1> HIDE DEF Goal
<1> QED BY <1>1, <1>2, <1>3, <1>4, <1>5, <1>6 DEF Serve

\* Failures are counted on a transaction that was opened, and its limit closes it.
Counted ==
  /\ \A t \in Requests : asked[t] = Absent => failures[t] = 0 /\ txns[t] = Absent
  /\ LockoutHolds

\* A failed login is counted in one step with atomic stores, so none is missed.
LEMMA CountedKept ==
  ASSUME AtomicStore, Typed, Counted, [Next]_vars
  PROVE  Counted'
<1>t. /\ failures \in [Requests -> Nat] /\ txns \in [Requests -> Nat \cup {Absent}]
      /\ asked \in [Requests -> Params \cup {Absent}]
      /\ Absent \notin Params /\ MaxAttempts \in Nat \ {0}
  BY FlowAssumption DEF Typed, TypeOK
<1> SUFFICES ASSUME NEW t \in Requests
             PROVE  /\ asked'[t] = Absent => failures'[t] = 0 /\ txns'[t] = Absent
                    /\ failures'[t] >= MaxAttempts => txns'[t] = Absent
  BY DEF Counted, LockoutHolds
<1> DEFINE Goal == /\ asked'[t] = Absent => failures'[t] = 0 /\ txns'[t] = Absent
                   /\ failures'[t] >= MaxAttempts => txns'[t] = Absent
<1> SUFFICES Goal
  OBVIOUS
<1>0. /\ asked[t] = Absent => failures[t] = 0 /\ txns[t] = Absent
      /\ failures[t] >= MaxAttempts => txns[t] = Absent
  BY DEF Counted, LockoutHolds
<1>a. asked'[t] = asked[t] \/ (Opens(t) /\ asked[t] = Absent /\ asked'[t] # Absent)
  BY AskedByStep
<1>1. ASSUME NEW r \in Requests, LoginFails(r) PROVE Goal
  <2>1. pc[r] = "authenticate" /\ pc[r] \in Running /\ req[r].kind = "login"
    BY <1>1 DEF LoginFails, At, Running
  <2>2. req[r].txn \in Requests /\ asked[req[r].txn] # Absent
    BY <2>1, StandsAt, <1>t DEF Asked
  <2>3. /\ failures' = [failures EXCEPT ![req[r].txn] = failures[req[r].txn] + 1]
        /\ txns' = [txns EXCEPT ![req[r].txn] = AfterFailure(r)] /\ asked' = asked
    BY <1>1 DEF LoginFails
  <2>4. CASE t # req[r].txn
    BY <2>2, <2>3, <2>4, <1>0, <1>t
  <2>5. CASE t = req[r].txn
    <3>1. failures'[t] = failures[t] + 1 /\ txns'[t] = AfterFailure(r) /\ asked'[t] # Absent
      BY <2>2, <2>3, <2>5, <1>t
    <3>2. FailedAttempts(r) = failures[t] + 1
      BY <2>5, <1>t DEF FailedAttempts
    <3> QED BY <3>1, <3>2 DEF AfterFailure
  <2> QED BY <2>4, <2>5
<1>2. CASE failures' = failures
  <2>1. CASE txns'[t] = txns[t] \/ txns'[t] = Absent
    BY <1>2, <2>1, <1>0, <1>a, <1>t
  <2>2. CASE Opens(t)
    <3>1. asked[t] = Absent /\ asked'[t] # Absent
      BY <2>2, <1>t, Opened DEF Typed, Control
    <3> QED BY <3>1, <1>2, <1>0, <1>t
  <2>3. ASSUME NEW r \in Requests, LoginFails(r) PROVE Goal
    BY <2>3, <1>1
  <2> HIDE DEF Goal
  <2> QED BY <2>1, <2>2, <2>3, TxnsByStep
<1> HIDE DEF Goal
<1> QED BY <1>1, <1>2, WritesByStep DEF Writes

\* With in-memory stores a transaction is gone at the limit of failed logins,
\* however the requests that count them interleave.
THEOREM LimitCloses ==
  ASSUME AtomicStore
  PROVE  Spec => []LockoutHolds
<1>1. Init => Counted
  BY FlowAssumption DEF Init, Counted, LockoutHolds
<1>2. Typed /\ Counted /\ [Next]_vars => Counted'
  BY CountedKept
<1>3. Counted => LockoutHolds
  BY DEF Counted
<1> QED BY <1>1, <1>2, <1>3, AlwaysTyped, PTL DEF Spec

\* No request holds a copy of a consent.
NoCopies == \A r \in Requests : pc[r] \notin {"putConsent", "putGrant", "detach"}

\* A grant that is recorded is under the consent it was issued for, or is taken
\* from there by a withdrawal.
Traced(r, k) ==
  \/ r \in consents[k].grants
  \/ r \in revoked
  \/ \E q \in Requests : pc[q] = "cascade" /\ r \in req[q].doomed

Indexed ==
  \A r \in Requests : \A k :
    codes[r] # Absent /\ pc[r] \in {"clear", "done"} /\ k = ConsentKey(r) =>
      k \in Users \X Clients /\ Traced(r, k)

\* Atomic stores keep no copies of a consent.
LEMMA NoCopiesKept ==
  ASSUME AtomicStore, Typed, NoCopies, [Next]_vars
  PROVE  NoCopies'
<1> SUFFICES ASSUME NEW r \in Requests PROVE pc'[r] \notin {"putConsent", "putGrant", "detach"}
  BY DEF NoCopies
<1>1. CASE pc'[r] = pc[r]
  BY <1>1 DEF NoCopies
<1>2. CASE Serve(r) \/ Fail(r)
  BY <1>2, TurnsByStep DEF Turns, ReadConsent
<1>3. CASE Opens(r)
  BY <1>3, Opened
<1>4. CASE Joins(r)
  BY <1>4 DEF Joins
<1> QED BY <1>1, <1>2, <1>3, <1>4, MovesByStep

\* A traced grant stays traced: what a withdrawal takes it is about to revoke.
LEMMA TracedLasts ==
  ASSUME AtomicStore, Typed, NoCopies, [Next]_vars,
         NEW r \in Requests, NEW k \in Users \X Clients, Traced(r, k)
  PROVE  Traced(r, k)'
<1>t. /\ pc \in [Requests -> Running \cup Ended \cup {"idle"}]
      /\ req \in [Requests -> Request \cup {Absent}]
      /\ revoked \subseteq Requests
      /\ consents \in [Users \X Clients -> Consent]
  BY DEF Typed, TypeOK
<1>0. revoked \subseteq revoked'
  BY WritesByStep DEF Writes, RevokeGrant
<1>1. CASE r \in revoked
  BY <1>0, <1>1 DEF Traced
<1>2. CASE r \in consents[k].grants
  <2>1. CASE consents'[k] = consents[k]
    BY <1>2, <2>1 DEF Traced
  <2>2. ASSUME NEW q \in Requests, ConsentKey(q) = k, Withdraw(q)
        PROVE  Traced(r, k)'
    <3>1. pc[q] = "withdraw" /\ pc[q] \in Running
      BY <2>2 DEF Withdraw, At, Running
    <3>2. req[q] \in Request
      BY <3>1, StandsAt
    <3>3. req' = [req EXCEPT ![q] = [req[q] EXCEPT !.doomed = consents[k].grants]]
      BY <2>2 DEF Withdraw
    <3>4. req'[q].doomed = consents[k].grants
      BY <3>2, <3>3, <1>t DEF Request
    <3>5. pc'[q] = "cascade"
      BY <2>2, <1>t DEF Withdraw, Goto
    <3> QED BY <1>2, <3>4, <3>5 DEF Traced
  <2>3. ASSUME NEW q \in Requests,
               \/ /\ RecordConsent(q)
                  /\ consents'[k] = WithScopes(consents[k], GrantedScope(Asked(q)))
               \/ RecordGrant(q) /\ consents'[k] = WithGrant(consents[k], q)
        PROVE  Traced(r, k)'
    <3>1. consents[k] \in Consent
      BY <1>t
    <3>2. r \in consents'[k].grants
      BY <1>2, <2>3, <3>1 DEF WithScopes, WithGrant, Consent
    <3> QED BY <3>2 DEF Traced
  <2>4. \A q \in Requests : ~Detach(q) /\ ~PutConsent(q) /\ ~PutGrant(q)
    BY DEF NoCopies, Detach, PutConsent, PutGrant, At
  <2> QED BY <2>1, <2>2, <2>3, <2>4, ConsentsByStep
<1>3. ASSUME NEW q \in Requests, pc[q] = "cascade", r \in req[q].doomed
      PROVE  Traced(r, k)'
  <2>0. req[q] \in Request
    BY <1>3, StandsAt DEF Running
  <2>1. CASE pc'[q] = pc[q] /\ req'[q] = req[q]
    BY <1>3, <2>1 DEF Traced
  <2>2. ASSUME NEW g \in Requests, RevokeGrant(q, g) PROVE Traced(r, k)'
    <3>1. CASE g = r
      BY <2>2, <3>1 DEF RevokeGrant, Traced
    <3>2. CASE g # r
      <4>1. req' = [req EXCEPT ![q] = [req[q] EXCEPT !.doomed = req[q].doomed \ {g}]] /\ pc' = pc
        BY <2>2 DEF RevokeGrant
      <4>2. r \in req'[q].doomed
        BY <1>3, <2>0, <3>2, <4>1, <1>t DEF Request
      <4> QED BY <1>3, <4>1, <4>2 DEF Traced
    <3> QED BY <3>1, <3>2
  <2>3. ~Withdrawn(q) /\ ~StoreFails(q)
    BY <1>3 DEF Withdrawn, StoreFails
  <2>4. ~Opens(q) /\ ~Joins(q)
    BY <1>3, Opened DEF Joins
  <2>5. (Serve(q) \/ Fail(q)) => \E g \in Requests : RevokeGrant(q, g)
    BY <1>3, <2>3, TurnsByStep DEF Turns
  <2> QED BY <2>1, <2>2, <2>4, <2>5, MovesByStep
<1> QED BY <1>1, <1>2, <1>3 DEF Traced

\* With atomic stores no code comes out of a withdrawal's reach.
LEMMA IndexedKept ==
  ASSUME AtomicStore, Typed, NoCopies, Consented, Freshness, Indexed, [Next]_vars
  PROVE  Indexed'
<1> SUFFICES ASSUME NEW r \in Requests, codes'[r] # Absent, pc'[r] \in {"clear", "done"}
             PROVE  \A k : k = ConsentKey(r)' => k \in Users \X Clients /\ Traced(r, k)'
  BY DEF Indexed
<1>t. /\ pc \in [Requests -> Running \cup Ended \cup {"idle"}]
      /\ consents \in [Users \X Clients -> Consent]
      /\ codes \in [Requests -> Code \cup {Absent}]
      /\ AnswersSafe /\ CodesQuiet /\ Absent \notin Code /\ Absent \notin Request
  BY FlowAssumption DEF Typed, TypeOK, Consented
<1>1. codes[r] # Absent
  <2>1. ~Issue(r)
    BY <1>t DEF Issue, AfterIssue, Goto
  <2> QED BY <2>1, CodesByStep
<1>2. codes[r] \in Code /\ pc[r] \in Coded
  BY <1>1, <1>t DEF CodesQuiet
<1>3. /\ req[r] # Absent /\ Control(r) /\ pc[r] # "idle"
      /\ ~Opens(r) /\ ~Joins(r)
  BY <1>2, Opened DEF Coded, Late, Joins, Typed, Control
<1>4. req[r] \in Request
  BY <1>3 DEF Typed, TypeOK
<1>5. req[r].kind # "withdraw" => asked'[req[r].txn] = asked[req[r].txn]
  BY <1>3, <1>4, AskedByStep DEF Control, Request
<1>6. CASE pc[r] \in {"clear", "done"}
  <2>1. req'[r] = req[r]
    BY <1>3, <1>6, MovesByStep, TurnsByStep DEF Turns, Steps, Running
  <2>2. ConsentKey(r)' = ConsentKey(r)
    BY <2>1, <1>5 DEF ConsentKey, Asked
  <2>3. ASSUME NEW k, k = ConsentKey(r)' PROVE k \in Users \X Clients /\ Traced(r, k)'
    <3>1. k \in Users \X Clients /\ Traced(r, k)
      BY <2>2, <2>3, <1>1, <1>6 DEF Indexed
    <3> QED BY <3>1, TracedLasts
  <2> QED BY <2>3
<1>7. CASE pc[r] \notin {"clear", "done"}
  <2>1. Serve(r) \/ Fail(r)
    BY <1>3, <1>7, MovesByStep
  <2>2. pc[r] \in Late
    BY <1>2, <1>7, <2>1, ServeSteps DEF Coded, Steps, Running, Late
  <2>3. RecordGrant(r)
    BY <2>1, <2>2, TurnsByStep DEF Turns, NoCopies, PutGrant
  <2>4. /\ consents' = [consents EXCEPT ![ConsentKey(r)] = WithGrant(consents[ConsentKey(r)], r)]
        /\ req' = req /\ asked' = asked
    BY <2>3 DEF RecordGrant
  <2>5. ConsentKey(r) \in Users \X Clients
    BY <2>2, ConsentHas
  <2>6. ConsentKey(r)' = ConsentKey(r)
    BY <2>4 DEF ConsentKey, Asked
  <2>7. consents[ConsentKey(r)] \in Consent
    BY <2>5, <1>t
  <2>8. r \in WithGrant(consents[ConsentKey(r)], r).grants
    BY <2>7 DEF WithGrant, Consent
  <2>9. ASSUME NEW k, k = ConsentKey(r)' PROVE k \in Users \X Clients /\ Traced(r, k)'
    <3>1. k = ConsentKey(r)
      BY <2>6, <2>9
    <3>2. r \in consents'[k].grants
      BY <3>1, <2>4, <2>5, <2>8, <1>t
    <3> QED BY <3>1, <3>2, <2>5 DEF Traced
  <2> QED BY <2>9
<1> QED BY <1>6, <1>7

\* With in-memory stores no grant escapes the withdrawal of its consent: every
\* code issued to the end is indexed, or a withdrawal has taken it and revokes it.
THEOREM GrantsAreIndexed ==
  ASSUME AtomicStore
  PROVE  Spec => []EveryGrantIndexed
<1>1. Init => NoCopies /\ Indexed
  BY DEF Init, NoCopies, Indexed
<1>2. Typed /\ Consented /\ Freshness /\ NoCopies /\ Indexed /\ [Next]_vars => NoCopies' /\ Indexed'
  BY NoCopiesKept, IndexedKept
<1>3. Indexed => EveryGrantIndexed
  BY DEF Indexed, EveryGrantIndexed, Traced
<1> QED BY <1>1, <1>2, <1>3, AlwaysTyped, AlwaysConsented, AlwaysFresh, PTL DEF Spec

-----------------------------------------------------------------------------
(* Requests served one at a time.                                          *)

Alone == \A r1, r2 \in Requests : pc[r1] \in Running /\ pc[r2] \in Running => r1 = r2

\* A request arrives only when none is being served.
LEMMA ArrivesAlone ==
  ASSUME MaxInFlight = 1, Alone, NEW r \in Requests, Arrive(r)
  PROVE  \A s \in Requests : pc[s] \notin Running
<1>1. Cardinality(InFlight) < 1
  BY DEF Arrive, Authorize, StartLogin, StartConsent, StartWithdraw, Start
<1> SUFFICES ASSUME NEW s \in Requests, pc[s] \in Running PROVE FALSE
  OBVIOUS
<1>2. InFlight = {s}
  BY DEF Alone, InFlight
<1>3. Cardinality({s}) = 1
  BY FS_Singleton
<1> QED BY <1>1, <1>2, <1>3

\* While one request moves, the others are not being served.
LEMMA OthersRest ==
  ASSUME MaxInFlight = 1, Typed, Alone, NEW r \in Requests, Arrive(r) \/ Serve(r) \/ Fail(r)
  PROVE  /\ \A s \in Requests \ {r} : pc[s] \notin Running /\ pc'[s] = pc[s]
         /\ \A s \in Requests \ {r} : pc'[s] \notin Running
<1>t. pc \in [Requests -> Running \cup Ended \cup {"idle"}]
  BY DEF Typed, TypeOK
<1>1. pc' = [pc EXCEPT ![r] = pc'[r]]
  BY ServeSteps, Arrived, Opened DEF Steps, Joins
<1>2. \A s \in Requests \ {r} : pc[s] \notin Running
  <2>1. CASE Arrive(r)
    BY <2>1, ArrivesAlone
  <2>2. CASE Serve(r) \/ Fail(r)
    BY <2>2, ServeSteps DEF Steps, Alone
  <2> QED BY <2>1, <2>2
<1> QED BY <1>1, <1>2, <1>t

\* One request at a time is in flight.
LEMMA StaysAlone ==
  ASSUME MaxInFlight = 1, Typed, Alone, [Next]_vars
  PROVE  Alone'
<1>1. CASE UNCHANGED pc
  BY <1>1 DEF Alone
<1>2. ASSUME NEW r \in Requests, Arrive(r) \/ Serve(r) \/ Fail(r) PROVE Alone'
  BY <1>2, OthersRest DEF Alone
<1> QED BY <1>1, <1>2 DEF Next, vars, Tick

\* A transaction that has its code is closed; one that may still get it is open,
\* up to the step that closes it, and has no code yet.
Answered == \A r \in Requests, c \in Code : codes[r] = c => txns[c.txn] = Absent

OpenStays == \A r \in Requests : pc[r] \in Open => txns[req[r].txn] # Absent

NoneYet ==
  \A r \in Requests : pc[r] = "issue" =>
    /\ txns[req[r].txn] = Absent
    /\ \A s \in Requests, c \in Code : codes[s] = c => c.txn # req[r].txn

OneEach ==
  \A r1, r2 \in Requests, c1, c2 \in Code :
    codes[r1] = c1 /\ codes[r2] = c2 /\ c1.txn = c2.txn => r1 = r2

Serial == Alone /\ Answered /\ OpenStays /\ NoneYet /\ OneEach

\* What is closed does not open again: only a failed login puts a transaction
\* back, and it found it open.
LEMMA StaysClosed ==
  ASSUME Typed, OpenStays, [Next]_vars, NEW t \in Requests, asked[t] # Absent, txns[t] = Absent
  PROVE  txns'[t] = Absent
<1>1. ~Opens(t)
  BY Opened DEF Typed, Control
<1>2. \A r \in Requests : LoginFails(r) => req[r].txn # t
  BY DEF OpenStays, LoginFails, At, Open
<1> QED BY <1>1, <1>2, TxnsByStep

\* A request at one of these labels got there by its own step, or nothing moved.
LEMMA MovedOnlyBy ==
  ASSUME MaxInFlight = 1, Typed, Alone, [Next]_vars, NEW r \in Requests, pc'[r] \in Running
  PROVE  \/ UNCHANGED <<pc, req, txns, codes, asked>>
         \/ Opens(r) \/ Joins(r)
         \/ (Serve(r) \/ Fail(r)) /\ Steps(r) /\ Turns(r)
<1>1. ASSUME NEW q \in Requests, Arrive(q) \/ Serve(q) \/ Fail(q) PROVE q = r
  BY <1>1, OthersRest
<1>2. (Serve(r) \/ Fail(r)) => Steps(r) /\ Turns(r)
  BY ServeSteps, TurnsByStep
<1>3. Arrive(r) => Opens(r) \/ Joins(r)
  BY Arrived
<1>4. \/ UNCHANGED <<pc, req, txns, codes, asked>>
      \/ \E q \in Requests : Arrive(q) \/ Serve(q) \/ Fail(q)
  BY DEF Next, vars, Tick
<1> QED BY <1>1, <1>2, <1>3, <1>4

\* A code's transaction stays deleted.
LEMMA AnsweredKept ==
  ASSUME Typed, Freshness, Serial, [Next]_vars
  PROVE  Answered'
<1> SUFFICES ASSUME NEW r \in Requests, NEW c \in Code, codes'[r] = c
             PROVE  txns'[c.txn] = Absent
  BY DEF Answered
<1>0. c.txn \in Requests
  BY DEF Code
<1>1. CASE codes'[r] = codes[r]
  <2>1. asked[c.txn] # Absent /\ txns[c.txn] = Absent
    BY <1>1 DEF Freshness, CodesFresh, Serial, Answered
  <2> QED BY <1>0, <2>1, StaysClosed DEF Serial
<1>2. CASE Issue(r) /\ codes'[r] = CodeOf(r)
  <2>1. pc[r] = "issue" /\ txns' = txns /\ c.txn = req[r].txn
    BY <1>2 DEF Issue, CodeOf
  <2> QED BY <2>1 DEF Serial, NoneYet
<1> QED BY <1>1, <1>2, CodesByStep

\* Nobody else deletes the transaction of the request in flight.
LEMMA OpenStaysKept ==
  ASSUME MaxInFlight = 1, Typed, Serial, [Next]_vars
  PROVE  OpenStays'
<1> SUFFICES ASSUME NEW r \in Requests, pc'[r] \in Open PROVE txns'[req'[r].txn] # Absent
  BY DEF OpenStays
<1>1. CASE UNCHANGED <<pc, req, txns, codes, asked>>
  BY <1>1 DEF Serial, OpenStays
<1>2. CASE Opens(r)
  BY <1>2, Opened, FlowAssumption DEF Typed, TypeOK
<1>3. CASE Joins(r)
  BY <1>3 DEF Joins, Open
<1>4. CASE (Serve(r) \/ Fail(r)) /\ Steps(r) /\ Turns(r)
  <2>1. req'[r].txn = req[r].txn /\ txns' = txns
    BY <1>4 DEF Steps, Turns
  <2>2. CASE pc[r] \in Open
    BY <2>1, <2>2 DEF Serial, OpenStays
  <2>3. CASE FormAccepted(r)
    BY <2>1, <2>3 DEF FormAccepted, TxnFound
  <2> QED BY <1>4, <2>2, <2>3 DEF Turns
<1>5. pc'[r] \in Running
  BY DEF Open, Running
<1> QED BY <1>1, <1>2, <1>3, <1>4, <1>5, MovedOnlyBy DEF Serial

\* A request about to issue a code deleted the transaction itself.
LEMMA NoneYetKept ==
  ASSUME MaxInFlight = 1, Typed, Serial, [Next]_vars
  PROVE  NoneYet'
<1> SUFFICES ASSUME NEW r \in Requests, pc'[r] = "issue"
             PROVE  /\ txns'[req'[r].txn] = Absent
                    /\ \A s \in Requests, c \in Code : codes'[s] = c => c.txn # req'[r].txn
  BY DEF NoneYet
<1>1. CASE UNCHANGED <<pc, req, txns, codes, asked>>
  BY <1>1 DEF Serial, NoneYet
<1>2. ~Opens(r) /\ ~Joins(r)
  BY Opened DEF Joins
<1>3. CASE Complete(r)
  <2>1. /\ pc[r] = "complete" /\ pc[r] \in Open /\ pc[r] \in Running
        /\ txns' = [txns EXCEPT ![req[r].txn] = Absent] /\ req' = req /\ codes' = codes
    BY <1>3 DEF Complete, Open, Running
  <2>2. req[r].txn \in Requests
    BY <2>1, StandsAt
  <2>3. txns[req[r].txn] # Absent
    BY <2>1 DEF Serial, OpenStays
  <2>4. \A s \in Requests, c \in Code : codes[s] = c => c.txn # req[r].txn
    BY <2>3 DEF Serial, Answered
  <2> QED BY <2>1, <2>2, <2>4 DEF Typed, TypeOK
<1>4. pc'[r] \in Running
  BY DEF Running
<1> QED BY <1>1, <1>2, <1>3, <1>4, MovedOnlyBy DEF Serial, Turns

\* So no transaction gets a second code.
LEMMA OneEachKept ==
  ASSUME MaxInFlight = 1, Typed, Serial, [Next]_vars
  PROVE  OneEach'
<1>1. ASSUME NEW r1 \in Requests, NEW r2 \in Requests, NEW c1 \in Code, NEW c2 \in Code,
             codes'[r1] = c1, codes'[r2] = c2, c1.txn = c2.txn, r1 # r2, Issue(r1)
      PROVE  FALSE
  <2>1. codes' = [codes EXCEPT ![r1] = CodeOf(r1)]
    BY <1>1 DEF Issue, CodeOf
  <2>2. codes[r2] = c2 /\ c1 = CodeOf(r1)
    BY <1>1, <2>1 DEF Typed, TypeOK
  <2>3. c1.txn = req[r1].txn
    BY <2>2 DEF CodeOf
  <2> QED BY <1>1, <2>2, <2>3 DEF Issue, Serial, NoneYet
<1> SUFFICES ASSUME NEW r1 \in Requests, NEW r2 \in Requests, NEW c1 \in Code, NEW c2 \in Code,
                    codes'[r1] = c1, codes'[r2] = c2, c1.txn = c2.txn, r1 # r2
             PROVE  FALSE
  BY DEF OneEach
<1>2. ~Issue(r1) /\ ~Issue(r2)
  BY <1>1
<1>3. codes[r1] = c1 /\ codes[r2] = c2
  BY <1>2, CodesByStep
<1> QED BY <1>3 DEF Serial, OneEach

\* What serial service guarantees holds throughout.
LEMMA AlwaysSerial ==
  ASSUME MaxInFlight = 1
  PROVE  Spec => []Serial
<1>1. Init => Serial
  BY FlowAssumption DEF Init, Serial, Alone, Answered, OpenStays, NoneYet, OneEach, Open, Running
<1>2. Typed /\ Freshness /\ Serial /\ [Next]_vars => Serial'
  <2>1. Typed /\ Serial /\ [Next]_vars => Alone'
    BY StaysAlone DEF Serial
  <2> QED BY <2>1, AnsweredKept, OpenStaysKept, NoneYetKept, OneEachKept DEF Serial
<1> QED BY <1>1, <1>2, AlwaysTyped, AlwaysFresh, PTL DEF Spec

\* Served one at a time, the requests about a transaction get one code at most.
THEOREM TransactionsAnsweredOnce ==
  ASSUME MaxInFlight = 1
  PROVE  Spec => []OneCodePerTransaction
<1>1. Typed /\ Serial => OneCodePerTransaction
  BY FlowAssumption DEF Typed, TypeOK, Serial, OneEach, OneCodePerTransaction
<1> QED BY <1>1, AlwaysTyped, AlwaysSerial, PTL

\* Served one at a time, a transaction that was closed is never put back.
THEOREM ClosedStaysClosed ==
  ASSUME MaxInFlight = 1
  PROVE  Spec => ClosedIsFinal
<1>1. Typed /\ Serial /\ [Next]_vars =>
        [\A t \in Requests : (asked[t] # Absent /\ txns[t] = Absent) => txns'[t] = Absent]_vars
  BY StaysClosed DEF Serial
<1> QED BY <1>1, AlwaysTyped, AlwaysSerial, PTL DEF Spec, ClosedIsFinal
=============================================================================
