--------------------------- MODULE AuthorizationFlow ---------------------------
(***************************************************************************)
(* The front channel: the authorization endpoint, the login and consent    *)
(* forms, and the withdrawal of a consent, over the stores they share      *)
(* (authentication transactions, the authenticated subject handed from the *)
(* login to the consent form, browser sessions, consents).                 *)
(*                                                                         *)
(* As in TokenEndpoint, a request is a process whose pc names the store    *)
(* call it is about to make.  A transaction is named by the authorization  *)
(* request that opened it, a browser session by the login that created it, *)
(* an authorization code and its grant id by the request that issued it.   *)
(*                                                                         *)
(* With AtomicStore a store answers with the object itself and a consent   *)
(* is updated in one step; without it the JSON backend answers with a copy *)
(* and a consent is read, changed and put back.                            *)
(***************************************************************************)
EXTENDS Integers, FiniteSets

CONSTANTS
  Requests,         \* HTTP requests to the front channel, and withdrawals
  Users,            \* subjects who can log in
  Clients,          \* registered clients
  Scopes,           \* scope values
  OpenId,           \* the scope value every request must contain
  OfflineAccess,    \* the scope value that asks for refresh tokens
  OfflineClients,   \* clients registered with offlineAccessAllowed
  Prompts,          \* prompt parameters accepted: sets of prompt values
  MaxAges,          \* max_age parameters sent: seconds, or Absent
  Hints,            \* subjects that id_token_hints name: users, or Absent
  TxnLifetime,      \* lifetime of a transaction (ten minutes)
  MaxAttempts,      \* failed logins that close a transaction
  AtomicStore,      \* TRUE: in-memory stores; FALSE: JSON backend
  MaxInFlight,      \* bound on the requests served at the same time
  MaxTime,          \* bound on the clock
  Absent            \* what get() returns for a key with no entry

VARIABLES
  now,              \* Math.floor(Date.now() / 1000)
  txns,             \* transaction store: failedAttempts of each live one
  authSessions,     \* AuthSessionStore: who logged in, by transaction
  sessions,         \* BrowserSessionStore
  cookie,           \* the session cookie the browser holds
  consents,         \* ConsentStore: scopes and grant ids, by user and client
  codes,            \* authorization codes issued
  revoked,          \* grants whose tokens a withdrawal has revoked
  pc,               \* the store call each request is about to make
  req,              \* what each request asked for and has read
  asked,            \* the parameters of each transaction, which never change
  failures          \* failed logins counted on each transaction

vars == <<now, txns, authSessions, sessions, cookie, consents, codes, revoked,
          pc, req, asked, failures>>

PromptValues == {"none", "login", "select_account", "consent"}

Kinds == {"authorize", "login", "consent", "withdraw"}

Running ==
  {"session", "consented", "handoff", "drop", "complete", "issue",
   "recordConsent", "putConsent", "recordGrant", "putGrant", "clear",
   "find", "authenticate", "clearHandoff", "clearSession", "setHandoff",
   "setSession", "respond", "withdraw", "detach", "cascade"}

\* page: the browser is sent on to a form.  done: answered with success.
\* denied: answered with an error.  lost: the request died with no answer, or
\* with a server error only.
Ended == {"page", "done", "denied", "lost"}

Session == [subject: Users, authTime: Nat]

Consent == [scopes: SUBSET Scopes, grants: SUBSET Requests]

NoConsent == [scopes |-> {}, grants |-> {}]

Params ==
  [client: Clients, scope: SUBSET Scopes, prompt: SUBSET PromptValues,
   maxAge: Nat \cup {Absent}, hint: Users \cup {Absent}, createdAt: Nat]

Code ==
  [txn: Requests, subject: Users, authTime: Nat, scope: SUBSET Scopes]

Request ==
  [kind: Kinds,
   txn: Requests,                     \* the transaction it is about
   cookie: Requests \cup {Absent},    \* the session cookie it was sent with
   allow: BOOLEAN,                    \* the decision on the consent form
   user: Users \cup {Absent},         \* who logged in, or who withdraws
   client: Clients \cup {Absent},     \* from which client consent is withdrawn
   session: Session \cup {Absent},    \* the session read or created
   attempts: Nat,                     \* failedAttempts of the transaction read
   entry: Consent,                    \* the consent read by the JSON store
   doomed: SUBSET Requests]           \* grants detached and not yet revoked

ASSUME FlowAssumption ==
  /\ OpenId \in Scopes /\ OfflineAccess \in Scopes
  /\ OfflineClients \subseteq Clients
  /\ \A prompt \in Prompts :
       prompt \subseteq PromptValues /\ ("none" \in prompt => prompt = {"none"})
  /\ MaxAges \subseteq Nat \cup {Absent}
  /\ Hints \subseteq Users \cup {Absent}
  /\ TxnLifetime \in Nat \ {0}
  /\ MaxAttempts \in Nat \ {0}
  /\ AtomicStore \in BOOLEAN
  /\ MaxInFlight \in Nat
  /\ MaxTime \in Nat
  /\ Absent \notin Nat \cup Users \cup Clients \cup Requests
  /\ Absent \notin Session
  /\ Absent \notin Params
  /\ Absent \notin Code
  /\ Absent \notin Request

TypeOK ==
  /\ now \in Nat
  /\ txns \in [Requests -> Nat \cup {Absent}]
  /\ authSessions \in [Requests -> Session \cup {Absent}]
  /\ sessions \in [Requests -> Session \cup {Absent}]
  /\ cookie \in Requests \cup {Absent}
  /\ consents \in [Users \X Clients -> Consent]
  /\ codes \in [Requests -> Code \cup {Absent}]
  /\ revoked \subseteq Requests
  /\ pc \in [Requests -> Running \cup Ended \cup {"idle"}]
  /\ req \in [Requests -> Request \cup {Absent}]
  /\ asked \in [Requests -> Params \cup {Absent}]
  /\ failures \in [Requests -> Nat]

Init ==
  /\ now = 0
  /\ txns = [t \in Requests |-> Absent]
  /\ authSessions = [t \in Requests |-> Absent]
  /\ sessions = [r \in Requests |-> Absent]
  /\ cookie = Absent
  /\ consents = [k \in Users \X Clients |-> NoConsent]
  /\ codes = [r \in Requests |-> Absent]
  /\ revoked = {}
  /\ pc = [r \in Requests |-> "idle"]
  /\ req = [r \in Requests |-> Absent]
  /\ asked = [t \in Requests |-> Absent]
  /\ failures = [t \in Requests |-> 0]

-----------------------------------------------------------------------------
(* How a request moves on.                                                 *)

InFlight == {r \in Requests : pc[r] \in Running}

At(r, kind, label) == pc[r] = label /\ req[r].kind = kind

Goto(r, label) == pc' = [pc EXCEPT ![r] = label]

Asked(r) == asked[req[r].txn]

\* A request that names no transaction is filed under its own name.
Start(r, kind, txn, allow, user, client, label) ==
  /\ pc[r] = "idle"
  /\ Cardinality(InFlight) < MaxInFlight
  /\ Goto(r, label)
  /\ req' = [req EXCEPT ![r] =
       [kind |-> kind, txn |-> txn, cookie |-> cookie, allow |-> allow,
        user |-> user, client |-> client, session |-> Absent, attempts |-> 0,
        entry |-> NoConsent, doomed |-> {}]]

\* The transaction's id is in the address of the form the browser was sent to.
Known(t) == pc[t] = "page" /\ asked[t] # Absent

\* prompt=login and prompt=select_account.
ForcesLogin(params) == params.prompt \cap {"login", "select_account"} # {}

Silent(params) == "none" \in params.prompt

\* offline_access is dropped from the request unless prompt contains consent.
ValidScope(scope, prompt) ==
  OpenId \in scope /\ (OfflineAccess \in scope => "consent" \in prompt)

-----------------------------------------------------------------------------
(* /authorize: the transaction is stored first, whatever comes after.      *)

Authorize(r, client, scope, prompt, maxAge, hint) ==
  LET params == [client |-> client, scope |-> scope, prompt |-> prompt,
                 maxAge |-> maxAge, hint |-> hint, createdAt |-> now]
  IN  /\ ValidScope(scope, prompt)
      /\ Start(r, "authorize", r, FALSE, Absent, Absent,
               IF ForcesLogin(params) THEN "page" ELSE "session")
      /\ asked' = [asked EXCEPT ![r] = params]
      /\ txns' = [txns EXCEPT ![r] = 0]
      /\ UNCHANGED <<now, authSessions, sessions, cookie, consents, codes,
                     revoked, failures>>

\* sessionResolver.resolve(request)
BrowserSession(r) ==
  IF req[r].cookie = Absent THEN Absent ELSE sessions[req[r].cookie]

\* Mutant: max_age=0 is compared like any other bound.
RecentEnough_ZeroIsABound(params, session) ==
  params.maxAge # Absent => now - session.authTime <= params.maxAge

\* max_age is absent, or requiresReauthentication answers false.
RecentEnough(params, session) ==
  params.maxAge # Absent =>
    params.maxAge > 0 /\ now - session.authTime <= params.maxAge

NoSession(r) ==
  /\ At(r, "authorize", "session")
  /\ BrowserSession(r) = Absent
  /\ Goto(r, IF Silent(Asked(r)) THEN "drop" ELSE "page")
  /\ UNCHANGED req

\* The id_token_hint of prompt=none does not verify: the session is not read.
HintRejected(r) ==
  /\ At(r, "authorize", "session")
  /\ Silent(Asked(r)) /\ Asked(r).hint # Absent
  /\ Goto(r, "drop")
  /\ UNCHANGED req

\* Mutant: whoever is logged in answers, whomever the hint names.
SilentSession_AnySubject(r) ==
  LET session == BrowserSession(r)
  IN  /\ At(r, "authorize", "session")
      /\ session # Absent /\ Silent(Asked(r))
      /\ req' = [req EXCEPT ![r].session = session]
      /\ Goto(r, "consented")

\* checkPromptNone: a verified hint is compared before consent is looked up.
SilentSession(r) ==
  LET session == BrowserSession(r)
  IN  /\ At(r, "authorize", "session")
      /\ session # Absent /\ Silent(Asked(r))
      /\ req' = [req EXCEPT ![r].session = session]
      /\ Goto(r, IF Asked(r).hint \in {Absent, session.subject}
                   THEN "consented" ELSE "drop")

\* Single sign-on: a session that is recent enough spares the login form.
SignOnSession(r) ==
  LET session == BrowserSession(r)
  IN  /\ At(r, "authorize", "session")
      /\ session # Absent /\ ~Silent(Asked(r))
      /\ req' = [req EXCEPT ![r].session = session]
      /\ Goto(r, IF ~RecentEnough(Asked(r), session) THEN "page"
                 ELSE IF "consent" \in Asked(r).prompt THEN "handoff"
                 ELSE "consented")

ResolveSession(r) ==
  /\ HintRejected(r) \/ NoSession(r) \/ SilentSession(r) \/ SignOnSession(r)
  /\ UNCHANGED <<now, txns, authSessions, sessions, cookie, consents, codes,
                 revoked, asked, failures>>

\* Mutant: one scope approved before is taken for all of them.
HasConsent_Partial(r) ==
  Asked(r).scope
    \cap consents[<<req[r].session.subject, Asked(r).client>>].scopes # {}

HasConsent(r) ==
  Asked(r).scope \subseteq
    consents[<<req[r].session.subject, Asked(r).client>>].scopes

\* prompt=none has no form to fall back on, and tests max_age only now.
CheckConsent(r) ==
  /\ At(r, "authorize", "consented")
  /\ IF Silent(Asked(r))
       THEN Goto(r, IF HasConsent(r) /\ RecentEnough(Asked(r), req[r].session)
                      THEN "complete" ELSE "drop")
       ELSE Goto(r, IF HasConsent(r) THEN "complete" ELSE "handoff")
  /\ UNCHANGED <<now, txns, authSessions, sessions, cookie, consents, codes,
                 revoked, req, asked, failures>>

\* authSessionStore.set: the session's subject will answer the consent form.
HandOff(r) ==
  /\ At(r, "authorize", "handoff")
  /\ authSessions' = [authSessions EXCEPT ![r] = req[r].session]
  /\ Goto(r, "page")
  /\ UNCHANGED <<now, txns, sessions, cookie, consents, codes, revoked, req,
                 asked, failures>>

\* The transaction is deleted and the client told so.
Drop(r) ==
  /\ pc[r] = "drop"
  /\ txns' = [txns EXCEPT ![req[r].txn] = Absent]
  /\ Goto(r, IF req[r].kind = "consent" THEN "clear" ELSE "denied")
  /\ UNCHANGED <<now, authSessions, sessions, cookie, consents, codes, revoked,
                 req, asked, failures>>

-----------------------------------------------------------------------------
(* The forms.  Both handlers begin with getAuthTransaction and the CSRF    *)
(* token; a transaction past its expiry is as good as none.                *)

StartLogin(r, t) ==
  /\ Known(t)
  /\ Start(r, "login", t, FALSE, Absent, Absent, "find")
  /\ UNCHANGED <<now, txns, authSessions, sessions, cookie, consents, codes,
                 revoked, asked, failures>>

StartConsent(r, t, allow) ==
  /\ Known(t)
  /\ Start(r, "consent", t, allow, Absent, Absent, "find")
  /\ UNCHANGED <<now, txns, authSessions, sessions, cookie, consents, codes,
                 revoked, asked, failures>>

TxnFound(r) ==
  /\ txns[req[r].txn] # Absent
  /\ now < Asked(r).createdAt + TxnLifetime

\* Mutant: a transaction that was deleted is taken for a fresh one.
FormAccepted_AnyTxn(r) ==
  /\ pc[r] = "find"
  /\ req' = [req EXCEPT ![r].attempts = IF TxnFound(r) THEN txns[req[r].txn] ELSE 0]
  /\ Goto(r, IF req[r].kind = "login" THEN "authenticate"
             ELSE IF req[r].allow THEN "session" ELSE "drop")
  /\ UNCHANGED <<now, txns, authSessions, sessions, cookie, consents, codes,
                 revoked, asked, failures>>

FormAccepted(r) ==
  /\ pc[r] = "find"
  /\ TxnFound(r)
  /\ req' = [req EXCEPT ![r].attempts = txns[req[r].txn]]
  /\ Goto(r, IF req[r].kind = "login" THEN "authenticate"
             ELSE IF req[r].allow THEN "session" ELSE "drop")
  /\ UNCHANGED <<now, txns, authSessions, sessions, cookie, consents, codes,
                 revoked, asked, failures>>

\* No such transaction, or an expired one, or the wrong CSRF token.
FormRejected(r) ==
  /\ pc[r] = "find"
  /\ Goto(r, "denied")
  /\ UNCHANGED <<now, txns, authSessions, sessions, cookie, consents, codes,
                 revoked, req, asked, failures>>

\* transaction.failedAttempts++: requests that read an in-memory transaction
\* share it, even after its deletion; the JSON backend gave each its own copy.
FailedAttempts(r) ==
  1 + (IF AtomicStore THEN failures[req[r].txn] ELSE req[r].attempts)

\* Mutant: one attempt more than allowed.
AfterFailure_OffByOne(r) ==
  IF FailedAttempts(r) > MaxAttempts THEN Absent ELSE FailedAttempts(r)

\* The transaction is deleted at the limit, and put back otherwise.
AfterFailure(r) ==
  IF FailedAttempts(r) >= MaxAttempts THEN Absent ELSE FailedAttempts(r)

LoginFails(r) ==
  /\ At(r, "login", "authenticate")
  /\ failures' = [failures EXCEPT ![req[r].txn] = @ + 1]
  /\ txns' = [txns EXCEPT ![req[r].txn] = AfterFailure(r)]
  /\ Goto(r, "denied")
  /\ UNCHANGED <<now, authSessions, sessions, cookie, consents, codes, revoked,
                 req, asked>>

LoginSucceeds(r, user) ==
  /\ At(r, "login", "authenticate")
  /\ req' = [req EXCEPT ![r].user = user]
  /\ Goto(r, IF ForcesLogin(Asked(r)) THEN "clearHandoff" ELSE "setHandoff")
  /\ UNCHANGED <<now, txns, authSessions, sessions, cookie, consents, codes,
                 revoked, asked, failures>>

\* A forced login discards what an earlier login left behind.
ClearHandoff(r) ==
  /\ At(r, "login", "clearHandoff")
  /\ authSessions' = [authSessions EXCEPT ![req[r].txn] = Absent]
  /\ Goto(r, IF req[r].cookie = Absent THEN "setHandoff" ELSE "clearSession")
  /\ UNCHANGED <<now, txns, sessions, cookie, consents, codes, revoked, req,
                 asked, failures>>

ClearSession(r) ==
  /\ At(r, "login", "clearSession")
  /\ sessions' = [sessions EXCEPT ![req[r].cookie] = Absent]
  /\ Goto(r, "setHandoff")
  /\ UNCHANGED <<now, txns, authSessions, cookie, consents, codes, revoked, req,
                 asked, failures>>

\* Mutant: the time of the login is not handed over.
SetHandoff_NoAuthTime(r) ==
  LET session == [subject |-> req[r].user]
  IN  /\ At(r, "login", "setHandoff")
      /\ authSessions' = [authSessions EXCEPT ![req[r].txn] = session]
      /\ req' = [req EXCEPT ![r].session = session]
      /\ Goto(r, "setSession")
      /\ UNCHANGED <<now, txns, sessions, cookie, consents, codes, revoked,
                     asked, failures>>

\* authTime is the time of this step, for the form and the session alike.
SetHandoff(r) ==
  LET session == [subject |-> req[r].user, authTime |-> now]
  IN  /\ At(r, "login", "setHandoff")
      /\ authSessions' = [authSessions EXCEPT ![req[r].txn] = session]
      /\ req' = [req EXCEPT ![r].session = session]
      /\ Goto(r, "setSession")
      /\ UNCHANGED <<now, txns, sessions, cookie, consents, codes, revoked,
                     asked, failures>>

SetSession(r) ==
  /\ At(r, "login", "setSession")
  /\ sessions' = [sessions EXCEPT ![r] = req[r].session]
  /\ Goto(r, "respond")
  /\ UNCHANGED <<now, txns, authSessions, cookie, consents, codes, revoked, req,
                 asked, failures>>

\* Set-Cookie reaches the browser with the redirection to the consent form.
LoginResponds(r) ==
  /\ At(r, "login", "respond")
  /\ cookie' = r
  /\ Goto(r, "page")
  /\ UNCHANGED <<now, txns, authSessions, sessions, consents, codes, revoked,
                 req, asked, failures>>

\* The consent form is answered for whoever is handed over by now.
ConsentSession(r) ==
  LET session == authSessions[req[r].txn]
  IN  /\ At(r, "consent", "session")
      /\ req' = [req EXCEPT ![r].session = session]
      /\ Goto(r, IF session = Absent THEN "denied" ELSE "complete")
      /\ UNCHANGED <<now, txns, authSessions, sessions, cookie, consents, codes,
                     revoked, asked, failures>>

-----------------------------------------------------------------------------
(* The code, from completeAuthTransaction to the answer.                   *)

\* Mutant: the transaction survives the code it was opened for.
Complete_KeepsTxn(r) ==
  /\ pc[r] = "complete"
  /\ Goto(r, "issue")
  /\ UNCHANGED <<now, txns, authSessions, sessions, cookie, consents, codes,
                 revoked, req, asked, failures>>

Complete(r) ==
  /\ pc[r] = "complete"
  /\ txns' = [txns EXCEPT ![req[r].txn] = Absent]
  /\ Goto(r, "issue")
  /\ UNCHANGED <<now, authSessions, sessions, cookie, consents, codes, revoked,
                 req, asked, failures>>

\* offline_access is withheld from a client that is not registered for it.
GrantedScope(params) ==
  IF params.client \in OfflineClients
    THEN params.scope ELSE params.scope \ {OfflineAccess}

\* Mutant: only the consent form indexes its grants.
AfterIssue_FormOnly(r) ==
  IF req[r].kind = "consent" THEN "recordConsent" ELSE "done"

AfterIssue(r) ==
  IF req[r].kind = "consent" THEN "recordConsent" ELSE "recordGrant"

Issue(r) ==
  /\ pc[r] = "issue"
  /\ codes' = [codes EXCEPT ![r] =
       [txn |-> req[r].txn, subject |-> req[r].session.subject,
        authTime |-> req[r].session.authTime,
        scope |-> GrantedScope(Asked(r))]]
  /\ Goto(r, AfterIssue(r))
  /\ UNCHANGED <<now, txns, authSessions, sessions, cookie, consents, revoked,
                 req, asked, failures>>

\* The consent a request is about: of the session's subject to the client of the
\* transaction, or the one to withdraw.
ConsentKey(r) ==
  IF req[r].kind = "withdraw" THEN <<req[r].user, req[r].client>>
  ELSE <<req[r].session.subject, Asked(r).client>>

\* What grant() and recordGrant() make of a consent.
WithScopes(entry, scope) == [entry EXCEPT !.scopes = @ \cup scope]
WithGrant(entry, grant) == [entry EXCEPT !.grants = @ \cup {grant}]

AfterRecord(r) == IF req[r].kind = "consent" THEN "clear" ELSE "done"

RecordConsent(r) ==
  /\ AtomicStore
  /\ pc[r] = "recordConsent"
  /\ consents' = [consents EXCEPT ![ConsentKey(r)] =
                    WithScopes(@, GrantedScope(Asked(r)))]
  /\ Goto(r, "recordGrant")
  /\ UNCHANGED <<now, txns, authSessions, sessions, cookie, codes, revoked, req,
                 asked, failures>>

RecordGrant(r) ==
  /\ AtomicStore
  /\ pc[r] = "recordGrant"
  /\ consents' = [consents EXCEPT ![ConsentKey(r)] = WithGrant(@, r)]
  /\ Goto(r, AfterRecord(r))
  /\ UNCHANGED <<now, txns, authSessions, sessions, cookie, codes, revoked, req,
                 asked, failures>>

\* The first half of grant, recordGrant and revoke of JsonConsentStore.
ReadConsent(r) ==
  /\ ~AtomicStore
  /\ pc[r] \in {"recordConsent", "recordGrant", "withdraw"}
  /\ req' = [req EXCEPT ![r].entry = consents[ConsentKey(r)]]
  /\ Goto(r, IF pc[r] = "recordConsent" THEN "putConsent"
             ELSE IF pc[r] = "recordGrant" THEN "putGrant" ELSE "detach")
  /\ UNCHANGED <<now, txns, authSessions, sessions, cookie, consents, codes,
                 revoked, asked, failures>>

PutConsent(r) ==
  /\ pc[r] = "putConsent"
  /\ consents' = [consents EXCEPT ![ConsentKey(r)] =
                    WithScopes(req[r].entry, GrantedScope(Asked(r)))]
  /\ Goto(r, "recordGrant")
  /\ UNCHANGED <<now, txns, authSessions, sessions, cookie, codes, revoked, req,
                 asked, failures>>

PutGrant(r) ==
  /\ pc[r] = "putGrant"
  /\ consents' = [consents EXCEPT ![ConsentKey(r)] = WithGrant(req[r].entry, r)]
  /\ Goto(r, AfterRecord(r))
  /\ UNCHANGED <<now, txns, authSessions, sessions, cookie, codes, revoked, req,
                 asked, failures>>

\* The hand-over ends with the consent form, granted or denied.
Clear(r) ==
  /\ At(r, "consent", "clear")
  /\ authSessions' = [authSessions EXCEPT ![req[r].txn] = Absent]
  /\ Goto(r, IF req[r].allow THEN "done" ELSE "denied")
  /\ UNCHANGED <<now, txns, sessions, cookie, consents, codes, revoked, req,
                 asked, failures>>

-----------------------------------------------------------------------------
(* revokeConsentAndTokens: the consent goes first, then, one grant after   *)
(* the other, the tokens of every grant that was indexed under it.         *)

StartWithdraw(r, user, client) ==
  /\ Start(r, "withdraw", r, FALSE, user, client, "withdraw")
  /\ UNCHANGED <<now, txns, authSessions, sessions, cookie, consents, codes,
                 revoked, asked, failures>>

\* Mutant: the grants are looked up once the consent is deleted.
Withdraw_DeletesFirst(r) ==
  /\ AtomicStore
  /\ At(r, "withdraw", "withdraw")
  /\ consents' = [consents EXCEPT ![ConsentKey(r)] = NoConsent]
  /\ Goto(r, "cascade")
  /\ UNCHANGED <<now, txns, authSessions, sessions, cookie, codes, revoked, req,
                 asked, failures>>

\* ConsentStore.revoke reads and deletes in one step.
Withdraw(r) ==
  /\ AtomicStore
  /\ At(r, "withdraw", "withdraw")
  /\ req' = [req EXCEPT ![r].doomed = consents[ConsentKey(r)].grants]
  /\ consents' = [consents EXCEPT ![ConsentKey(r)] = NoConsent]
  /\ Goto(r, "cascade")
  /\ UNCHANGED <<now, txns, authSessions, sessions, cookie, codes, revoked,
                 asked, failures>>

Detach(r) ==
  /\ At(r, "withdraw", "detach")
  /\ req' = [req EXCEPT ![r].doomed = req[r].entry.grants]
  /\ consents' = [consents EXCEPT ![ConsentKey(r)] = NoConsent]
  /\ Goto(r, "cascade")
  /\ UNCHANGED <<now, txns, authSessions, sessions, cookie, codes, revoked,
                 asked, failures>>

\* Mutant: the list of grants still to revoke never shrinks.
RevokeGrant_Repeats(r, g) ==
  /\ pc[r] = "cascade"
  /\ g \in req[r].doomed
  /\ revoked' = revoked \cup {g}
  /\ UNCHANGED <<now, txns, authSessions, sessions, cookie, consents, codes, pc,
                 req, asked, failures>>

RevokeGrant(r, g) ==
  /\ pc[r] = "cascade"
  /\ g \in req[r].doomed
  /\ revoked' = revoked \cup {g}
  /\ req' = [req EXCEPT ![r].doomed = @ \ {g}]
  /\ UNCHANGED <<now, txns, authSessions, sessions, cookie, consents, codes, pc,
                 asked, failures>>

Withdrawn(r) ==
  /\ pc[r] = "cascade"
  /\ req[r].doomed = {}
  /\ Goto(r, "done")
  /\ UNCHANGED <<now, txns, authSessions, sessions, cookie, consents, codes,
                 revoked, req, asked, failures>>

-----------------------------------------------------------------------------
(* Failures.                                                               *)

\* A call to the remote backend rejects.  prompt=none answers server_error and
\* drops the transaction; every other request dies where it stands.
StoreFails(r) ==
  /\ ~AtomicStore
  /\ pc[r] \in Running \ {"respond"}
  /\ Goto(r, IF /\ req[r].kind = "authorize" /\ Silent(Asked(r))
                /\ pc[r] \in {"session", "consented"}
             THEN "drop" ELSE "lost")
  /\ UNCHANGED <<now, txns, authSessions, sessions, cookie, consents, codes,
                 revoked, req, asked, failures>>

\* The session cookie never reaches the browser.
CookieLost(r) ==
  /\ pc[r] = "respond"
  /\ Goto(r, "lost")
  /\ UNCHANGED <<now, txns, authSessions, sessions, cookie, consents, codes,
                 revoked, req, asked, failures>>

Tick ==
  /\ now < MaxTime
  /\ now' = now + 1
  /\ UNCHANGED <<txns, authSessions, sessions, cookie, consents, codes, revoked,
                 pc, req, asked, failures>>

-----------------------------------------------------------------------------
\* The hint is read for prompt=none only.
Arrive(r) ==
  \/ \E client \in Clients, scope \in SUBSET Scopes, prompt \in Prompts,
        maxAge \in MaxAges :
       \E hint \in (IF prompt = {"none"} THEN Hints ELSE {Absent}) :
         Authorize(r, client, scope, prompt, maxAge, hint)
  \/ \E t \in Requests : StartLogin(r, t)
  \/ \E t \in Requests, allow \in BOOLEAN : StartConsent(r, t, allow)
  \/ \E user \in Users, client \in Clients : StartWithdraw(r, user, client)

AuthorizeStep(r) == ResolveSession(r) \/ CheckConsent(r) \/ HandOff(r)

LoginStep(r) ==
  \/ LoginFails(r)
  \/ \E user \in Users : LoginSucceeds(r, user)
  \/ ClearHandoff(r) \/ ClearSession(r)
  \/ SetHandoff(r) \/ SetSession(r) \/ LoginResponds(r)

FormStep(r) == FormAccepted(r) \/ FormRejected(r) \/ ConsentSession(r) \/ Drop(r)

CodeStep(r) ==
  \/ Complete(r) \/ Issue(r)
  \/ RecordConsent(r) \/ RecordGrant(r)
  \/ ReadConsent(r) \/ PutConsent(r) \/ PutGrant(r)
  \/ Clear(r)

WithdrawStep(r) ==
  \/ Withdraw(r) \/ Detach(r) \/ Withdrawn(r)
  \/ \E g \in Requests : RevokeGrant(r, g)

\* The steps the runtime takes by itself once the store answered.
Serve(r) ==
  AuthorizeStep(r) \/ LoginStep(r) \/ FormStep(r) \/ CodeStep(r) \/ WithdrawStep(r)

Fail(r) == StoreFails(r) \/ CookieLost(r)

Next ==
  \/ Tick
  \/ \E r \in Requests : Arrive(r) \/ Serve(r) \/ Fail(r)

Spec == Init /\ [][Next]_vars

\* Promises settle: a request in flight is eventually resumed.  Nothing obliges
\* the user to fill in a form, the clock to move within a bound, or calls to fail.
FairSpec == Spec /\ \A r \in Requests : WF_vars(Serve(r))
=============================================================================
