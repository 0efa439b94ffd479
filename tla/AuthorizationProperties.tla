------------------------ MODULE AuthorizationProperties ------------------------
(***************************************************************************)
(* What should hold of the authorization, login and consent endpoints and  *)
(* of the withdrawal of a consent.  The comments say which properties hold *)
(* for every interleaving and which only when requests are served one at a *)
(* time or by stores that update in one step.                              *)
(***************************************************************************)
EXTENDS AuthorizationFlow

\* The client asked for a login made for this very request.
MustReauthenticate(params) == ForcesLogin(params) \/ params.maxAge = 0

\* The login form was submitted successfully by this subject at this time.
LoggedIn(q, subject, authTime) ==
  /\ req[q] # Absent /\ req[q].kind = "login"
  /\ req[q].session = [subject |-> subject, authTime |-> authTime]

\* The subject and auth_time of a code are those of a real login; it is no older
\* than max_age allowed when the request came, and was made on this transaction
\* if prompt=login or max_age=0 demanded it.  Holds for every interleaving,
\* whatever sessions other tabs replace (routes/authorize.ts, routes/login.ts).
AuthenticationIsFresh ==
  \A r \in Requests :
    codes[r] # Absent =>
      LET code == codes[r]
          params == asked[code.txn]
      IN  /\ params.maxAge # Absent =>
               code.authTime + params.maxAge >= params.createdAt
          /\ \E q \in Requests :
               /\ LoggedIn(q, code.subject, code.authTime)
               /\ MustReauthenticate(params) => req[q].txn = code.txn

\* The consent form was submitted by this subject for this client.
Approved(q, subject, client) ==
  /\ codes[q] # Absent
  /\ req[q].kind = "consent"
  /\ codes[q].subject = subject
  /\ asked[codes[q].txn].client = client

\* A code issued without the consent form carries only scopes this very subject
\* approved for this very client on that form, never offline_access, never answers
\* prompt=consent, and is of the subject the id_token_hint names.  Holds for every
\* interleaving ("a partial match MUST NOT be true": ConsentResolver.hasConsent).
SilenceHasConsent ==
  \A r \in Requests :
    (codes[r] # Absent /\ req[r].kind = "authorize") =>
      LET code == codes[r]
          params == asked[code.txn]
      IN  /\ "consent" \notin params.prompt
          /\ OfflineAccess \notin code.scope
          /\ params.hint \in {Absent, code.subject}
          /\ \A scope \in code.scope :
               \E q \in Requests :
                 /\ Approved(q, code.subject, params.client)
                 /\ scope \in codes[q].scope

\* A transaction is good for one authorization code ("one-time use":
\* completeAuthTransaction).  Holds when requests are served one at a time.
OneCodePerTransaction ==
  \A r1, r2 \in Requests :
    (codes[r1] # Absent /\ codes[r2] # Absent /\ codes[r1].txn = codes[r2].txn)
      => r1 = r2

\* A transaction that was answered, refused, denied or closed by failed logins
\* never comes back.  Holds when requests are served one at a time: the put of a
\* failed login may follow the delete of a consent.
ClosedIsFinal ==
  [][\A t \in Requests :
       (asked[t] # Absent /\ txns[t] = Absent) => txns'[t] = Absent]_vars

\* At the limit of failed logins the transaction is gone ("deletes the
\* transaction when the maximum number of attempts is reached":
\* handleLoginFailure).  Holds for every interleaving of in-memory stores.
LockoutHolds ==
  \A t \in Requests : failures[t] >= MaxAttempts => txns[t] = Absent

\* Every code that was issued to the end can be withdrawn: its grant is indexed
\* under the consent, or a withdrawal has taken it from there and has revoked it
\* or is about to ("keep every resulting grantId indexed": ConsentStore).  Holds
\* for every interleaving of in-memory stores.
EveryGrantIndexed ==
  \A r \in Requests :
    (codes[r] # Absent /\ pc[r] \in {"clear", "done"}) =>
      \/ r \in consents[ConsentKey(r)].grants
      \/ r \in revoked
      \/ \E q \in Requests : pc[q] = "cascade" /\ r \in req[q].doomed

\* Every request is answered or dies: none is stuck between two store calls.
RequestsEnd ==
  \A r \in Requests : pc[r] \in Running ~> pc[r] \in Ended

\* Every grant indexed when a withdrawal begins is revoked, unless a withdrawal
\* dies half way (revokeConsentAndTokens).
WithdrawalCompletes ==
  \A g \in Requests :
    (\E r \in Requests :
       pc[r] = "withdraw" /\ g \in consents[ConsentKey(r)].grants) ~>
      \/ g \in revoked
      \/ \E q \in Requests : pc[q] = "lost" /\ req[q].kind = "withdraw"
=============================================================================
