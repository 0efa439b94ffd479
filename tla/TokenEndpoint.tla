---------------------------- MODULE TokenEndpoint ----------------------------
(***************************************************************************)
(* The token endpoint (grant types authorization_code and refresh_token)   *)
(* and the revocation endpoint, over the stores of TokenStores.            *)
(*                                                                         *)
(* Every handler is an async function: it may be suspended at each await   *)
(* of a store call, so a request is a process whose pc names the call it   *)
(* is about to make, and what it has read so far is kept in req.  The code *)
(* between two awaits is one action.                                       *)
(*                                                                         *)
(* With AtomicStore, consume() and revokeByGrantId() are one step each, as *)
(* in the in-memory stores; without it they are the reads and writes the   *)
(* Json*Store classes make over a remote backend (D1, SQLite, Redis).      *)
(***************************************************************************)
EXTENDS TokenStores

CONSTANTS
  AtomicStore,      \* TRUE: in-memory stores; FALSE: JSON backend
  AccessTokenFormat,   \* config.accessTokenFormat
  RefreshClients,   \* the clients whose grantTypes include refresh_token
  MaxInFlight       \* bound on the requests served at the same time

VARIABLES
  pc,               \* the store call each request is about to make
  req,              \* what each request asked for and has read
  granted           \* history: what each authorization code was issued for

vars == <<now, codes, access, refresh, pc, req, granted>>

Kinds == {"code", "refresh", "revokeAccess", "revokeRefresh"}

Running ==
  {"find", "cascadeAccess", "deleteAccess", "cascadeRefresh", "deleteRefresh",
   "consume", "markUsed", "recheck", "sign", "issue", "storeRefresh", "retire",
   "markRetired", "respond", "delete"}

\* done: success answered.  denied: an OAuth error answered.  replayed: the
\* error answered to a spent code or refresh token, after the cascade.
\* lost: the request died with no answer, or with server_error only (a store
\* call threw, signing failed, the worker stopped, or the connection broke);
\* cut: it died so inside a cascade.
Ended == {"done", "denied", "replayed", "lost", "cut"}

\* revokeTokensByGrantId, from its first call to its last.
Cascading == {"cascadeAccess", "deleteAccess", "cascadeRefresh", "deleteRefresh"}

Grant == [client: Clients, scope: SUBSET Scopes, expiresAt: Nat]

Request ==
  [kind: Kinds,
   client: Clients,                        \* authenticatedClientId
   grant: Grants \cup {Absent},            \* the grant the token or code is of
   token: Requests \cup {Absent},          \* the token presented
   proven: BOOLEAN,                        \* redirect_uri and PKCE both match
   asks: BOOLEAN,                          \* there is a scope parameter
   scope: SUBSET Scopes,                   \* asked for, then granted
   entry: CodeEntry \cup RefreshEntry \cup {Absent},   \* as last read
   doomed: SUBSET Requests,                \* keys listed and not yet deleted
   minted: Requests \cup {Absent},          \* its access token, by whoever made it first
   madeAt: Nat \cup {Absent},               \* when it made it: iat, of a JWT
   issuedAt: Nat \cup {Absent},             \* when it saved an access token
   originalIssuedAt: Nat \cup {Absent}]     \* when its family's first was saved

\* Absent is no record and no time.
ASSUME EndpointAssumption ==
  /\ AtomicStore \in BOOLEAN
  /\ AccessTokenFormat \in {"jwt", "opaque"}
  /\ RefreshClients \subseteq Clients
  /\ MaxInFlight \in Nat
  /\ Absent \notin Grant
  /\ Absent \notin Request
  /\ Absent \notin Nat

TypeOK ==
  /\ StoresTypeOK
  /\ pc \in [Requests -> Running \cup Ended \cup {"idle"}]
  /\ req \in [Requests -> Request \cup {Absent}]
  /\ granted \in [Grants -> Grant \cup {Absent}]

Init ==
  /\ StoresInit
  /\ pc = [r \in Requests |-> "idle"]
  /\ req = [r \in Requests |-> Absent]
  /\ granted = [g \in Grants |-> Absent]

-----------------------------------------------------------------------------
(* A code is issued by the consent page or the SSO path of /authorize.     *)

IssueCode(g, client, scope) ==
  /\ granted[g] = Absent
  /\ LET expiresAt == now + CodeLifetime
     IN  /\ granted' = [granted EXCEPT ![g] =
              [client |-> client, scope |-> scope, expiresAt |-> expiresAt]]
         /\ codes' = AfterSet(codes, g,
              [client |-> client, scope |-> scope, expiresAt |-> expiresAt,
               used |-> FALSE])
  /\ UNCHANGED <<now, access, refresh, pc, req>>

-----------------------------------------------------------------------------
(* How a request moves on.                                                 *)

InFlight == {r \in Requests : pc[r] \in Running}

At(r, kind, label) == pc[r] = label /\ req[r].kind = kind

Goto(r, label) == pc' = [pc EXCEPT ![r] = label]

End(r, outcome) == Goto(r, outcome) /\ UNCHANGED req

Minted(t) == pc[t] = "done" /\ req[t].kind \in {"code", "refresh"}

Start(r, kind, client, grant, token, proven, asks, scope) ==
  /\ pc[r] = "idle"
  /\ Cardinality(InFlight) < MaxInFlight
  /\ Goto(r, "find")
  /\ req' = [req EXCEPT ![r] =
       [kind |-> kind, client |-> client, grant |-> grant, token |-> token,
        proven |-> proven, asks |-> asks, scope |-> scope, entry |-> Absent,
        doomed |-> {}, minted |-> Absent, madeAt |-> Absent,
        issuedAt |-> Absent, originalIssuedAt |-> Absent]]
  /\ UNCHANGED <<now, codes, access, refresh, granted>>

\* Client authentication and the grant_type checks have passed.  A request may
\* present any code ever issued, its own or another client's.
StartCode(r, g, client, proven) ==
  /\ granted[g] # Absent
  /\ Start(r, "code", client, g, Absent, proven, FALSE, {})

\* A token is known outside once the response that carries it was delivered.
StartRefresh(r, t, client, asks, scope) ==
  /\ client \in RefreshClients
  /\ Minted(t)
  /\ Start(r, "refresh", client, Absent, t, TRUE, asks, scope)

StartRevokeAccess(r, t, client) ==
  /\ Minted(t)
  /\ Start(r, "revokeAccess", client, Absent, req[t].minted, TRUE, FALSE, {})

StartRevokeRefresh(r, t, client) ==
  /\ Minted(t)
  /\ Start(r, "revokeRefresh", client, Absent, t, TRUE, FALSE, {})

-----------------------------------------------------------------------------
(* validateAuthorizationCodeGrant: find, then the checks, then consume.    *)

FindCode(r) == Fetch(codes, req[r].grant)

ReadCode(r) ==
  /\ codes' = AfterGet(codes, req[r].grant)
  /\ UNCHANGED <<now, access, refresh, granted>>

CodeNotFound(r) ==
  /\ At(r, "code", "find")
  /\ FindCode(r) = Absent
  /\ ReadCode(r)
  /\ End(r, "denied")

\* A used code cascades before anything about the caller is checked.
CodeReplayed(r) ==
  /\ At(r, "code", "find")
  /\ FindCode(r) # Absent /\ FindCode(r).used
  /\ ReadCode(r)
  /\ Goto(r, "cascadeAccess")
  /\ UNCHANGED req

CodeProven(r) ==
  /\ FindCode(r).client = req[r].client
  /\ req[r].proven

CodeRejected(r) ==
  /\ At(r, "code", "find")
  /\ FindCode(r) # Absent /\ ~FindCode(r).used
  /\ ~CodeProven(r)
  /\ ReadCode(r)
  /\ End(r, "denied")

CodeAccepted(r) ==
  /\ At(r, "code", "find")
  /\ FindCode(r) # Absent /\ ~FindCode(r).used
  /\ CodeProven(r)
  /\ ReadCode(r)
  /\ Goto(r, "consume")
  /\ req' = [req EXCEPT ![r].scope = FindCode(r).scope]

ConsumeCode(r) ==
  /\ AtomicStore
  /\ At(r, "code", "consume")
  /\ codes' = AfterConsume(codes, req[r].grant)
  /\ Goto(r, "recheck")
  /\ UNCHANGED <<now, access, refresh, req, granted>>

\* JsonAuthorizationCodeStore.consume: a get, and a set of what it returned.
ConsumeCodeRead(r) ==
  /\ ~AtomicStore
  /\ At(r, "code", "consume")
  /\ ReadCode(r)
  /\ req' = [req EXCEPT ![r].entry = FindCode(r)]
  /\ Goto(r, IF FindCode(r) = Absent THEN "recheck" ELSE "markUsed")

ConsumeCodeWrite(r) ==
  /\ At(r, "code", "markUsed")
  /\ codes' = AfterSet(codes, req[r].grant, Spent(req[r].entry))
  /\ Goto(r, "recheck")
  /\ UNCHANGED <<now, access, refresh, req, granted>>

\* Mutant: the code is cleaned up once it was read for the last time.
Recheck_Deletes(r) ==
  /\ At(r, "code", "recheck")
  /\ codes' = AfterDelete(codes, req[r].grant)
  /\ End(r, IF FindCode(r) = Absent THEN "denied" ELSE "sign")
  /\ UNCHANGED <<now, access, refresh, granted>>

\* The handler reads the code again for its subject and auth_time; by now it
\* may have expired, and then the spent code yields no token.
Recheck(r) ==
  /\ At(r, "code", "recheck")
  /\ ReadCode(r)
  /\ End(r, IF FindCode(r) = Absent THEN "denied" ELSE "sign")

-----------------------------------------------------------------------------
(* validateRefreshTokenGrant: resolve, then the checks.                    *)

FindRefresh(r) == Fetch(refresh, req[r].token)

ReadRefresh(r) ==
  /\ refresh' = AfterGet(refresh, req[r].token)
  /\ UNCHANGED <<now, codes, access, granted>>

RefreshNotFound(r) ==
  /\ At(r, "refresh", "find")
  /\ FindRefresh(r) = Absent
  /\ ReadRefresh(r)
  /\ End(r, "denied")

RefreshReplayed(r) ==
  /\ At(r, "refresh", "find")
  /\ FindRefresh(r) # Absent /\ FindRefresh(r).used
  /\ ReadRefresh(r)
  /\ Goto(r, "cascadeAccess")
  /\ req' = [req EXCEPT ![r].grant = FindRefresh(r).grant]

\* The scope may narrow: no parameter, or a part of the token's; the empty one stands
\* for openid alone.
ScopeAllowed(r) == req[r].asks => req[r].scope \subseteq FindRefresh(r).scope

\* Openid is refused if an earlier refresh left it out, and so is an empty parameter.
NothingAsked(r) == req[r].asks /\ req[r].scope = {}

\* Mutant: any authenticated client may present the token.
RefreshAllowed_AnyClient(r) == ScopeAllowed(r)

RefreshAllowed(r) ==
  /\ FindRefresh(r).client = req[r].client
  /\ ScopeAllowed(r)

RefreshRejected(r) ==
  /\ At(r, "refresh", "find")
  /\ FindRefresh(r) # Absent /\ ~FindRefresh(r).used
  /\ ~RefreshAllowed(r) \/ NothingAsked(r)
  /\ ReadRefresh(r)
  /\ End(r, "denied")

\* Mutant: the refresh token is spent before its successor is stored, as the
\* authorization code is.
RefreshAccepted_SpendsFirst(r) ==
  LET found == FindRefresh(r)
  IN  /\ At(r, "refresh", "find")
      /\ found # Absent /\ ~found.used
      /\ RefreshAllowed(r)
      /\ refresh' = AfterConsume(refresh, req[r].token)
      /\ Goto(r, "sign")
      /\ req' = [req EXCEPT
           ![r].grant = found.grant,
           ![r].entry = found,
           ![r].scope = IF req[r].asks THEN @ ELSE found.scope,
           ![r].originalIssuedAt = found.originalIssuedAt]
      /\ UNCHANGED <<now, codes, access, granted>>

RefreshAccepted(r) ==
  LET found == FindRefresh(r)
  IN  /\ At(r, "refresh", "find")
      /\ found # Absent /\ ~found.used
      /\ RefreshAllowed(r)
      /\ ReadRefresh(r)
      /\ Goto(r, "sign")
      /\ req' = [req EXCEPT
           ![r].grant = found.grant,
           ![r].entry = found,
           ![r].scope = IF req[r].asks THEN @ ELSE found.scope,
           ![r].originalIssuedAt = found.originalIssuedAt]

-----------------------------------------------------------------------------
(* Issuance, shared by both grants: make the tokens, save the access       *)
(* token, then the refresh token, and only then retire the refresh token   *)
(* presented.                                                              *)

\* The requests that made an access token in this second, for the same client and
\* scope.
Twins(r) ==
  {q \in Requests :
     /\ req[q] # Absent /\ req[q].minted # Absent
     /\ req[q].madeAt = now
     /\ req[q].client = req[r].client /\ req[q].scope = req[r].scope}

\* What the access token of r may be.  An opaque token is random.  A JWT has no
\* random part: made in one second for one client, scope, subject and audience and
\* signed with one key it is the same string.  (Two grants of a client may be of one
\* subject and audience, and one grant's tokens signed with two keys, or not.)
AccessNames(r) ==
  {r} \cup (IF AccessTokenFormat = "jwt" THEN {req[q].minted : q \in Twins(r)} ELSE {})

\* generateTokenResponse reads the clock and waits for the signatures.
Generate(r) ==
  /\ pc[r] = "sign"
  /\ \E t \in AccessNames(r) :
       req' = [req EXCEPT ![r].minted = t, ![r].madeAt = now]
  /\ Goto(r, "issue")
  /\ UNCHANGED <<now, codes, access, refresh, granted>>

\* offline_access of the code's scope, or of the refresh token's.
GrantHasOfflineAccess(r) ==
  IF req[r].kind = "refresh"
    THEN OfflineAccess \in req[r].entry.scope
    ELSE OfflineAccess \in req[r].scope

\* Mutant: the refresh token presented is never retired.
AfterIssuance_KeepsOld(r) == "respond"

AfterIssuance(r) == IF req[r].kind = "refresh" THEN "retire" ELSE "respond"

\* Mutant: the lifetime slides, every rotation starts it anew.
OriginalIssuedAt_Sliding(r) == now

\* A rotation inherits the start of its family's lifetime.
OriginalIssuedAt(r) ==
  IF req[r].kind = "refresh" THEN req[r].originalIssuedAt ELSE now

IssuedAccess(r) ==
  [grant |-> req[r].grant, client |-> req[r].client,
   scope |-> req[r].scope, expiresAt |-> now + AccessLifetime]

\* The string is the key: a token of the same name is replaced.
StoreAccess(r) ==
  /\ pc[r] = "issue"
  /\ access' = AfterSet(access, req[r].minted, IssuedAccess(r))
  /\ req' = [req EXCEPT
       ![r].issuedAt = now,
       ![r].originalIssuedAt = OriginalIssuedAt(r)]
  /\ Goto(r, IF GrantHasOfflineAccess(r) THEN "storeRefresh"
                                         ELSE AfterIssuance(r))
  /\ UNCHANGED <<now, codes, refresh, granted>>

\* A narrowed request keeps offline_access in the token it stores.
IssuedRefresh(r) ==
  [grant |-> req[r].grant, client |-> req[r].client,
   scope |-> req[r].scope \cup {OfflineAccess},
   expiresAt |-> req[r].originalIssuedAt + RefreshLifetime,
   originalIssuedAt |-> req[r].originalIssuedAt, used |-> FALSE]

StoreRefresh(r) ==
  /\ pc[r] = "storeRefresh"
  /\ refresh' = AfterSet(refresh, r, IssuedRefresh(r))
  /\ Goto(r, AfterIssuance(r))
  /\ UNCHANGED <<now, codes, access, req, granted>>

RetireRefresh(r) ==
  /\ AtomicStore
  /\ At(r, "refresh", "retire")
  /\ refresh' = AfterConsume(refresh, req[r].token)
  /\ Goto(r, "respond")
  /\ UNCHANGED <<now, codes, access, req, granted>>

\* JsonRefreshTokenStore.consume.
RetireRefreshRead(r) ==
  /\ ~AtomicStore
  /\ At(r, "refresh", "retire")
  /\ ReadRefresh(r)
  /\ req' = [req EXCEPT ![r].entry = FindRefresh(r)]
  /\ Goto(r, IF FindRefresh(r) = Absent THEN "respond" ELSE "markRetired")

\* Mutant: used is set on a copy, and the entry read is written back.
RetireRefreshWrite_StaleCopy(r) ==
  /\ At(r, "refresh", "markRetired")
  /\ refresh' = AfterSet(refresh, req[r].token, req[r].entry)
  /\ Goto(r, "respond")
  /\ UNCHANGED <<now, codes, access, req, granted>>

RetireRefreshWrite(r) ==
  /\ At(r, "refresh", "markRetired")
  /\ refresh' = AfterSet(refresh, req[r].token, Spent(req[r].entry))
  /\ Goto(r, "respond")
  /\ UNCHANGED <<now, codes, access, req, granted>>

Respond(r) ==
  /\ pc[r] = "respond"
  /\ End(r, "done")
  /\ UNCHANGED <<now, codes, access, refresh, granted>>

-----------------------------------------------------------------------------
(* revokeTokensByGrantId: the access tokens first, then the refresh tokens.*)

\* Mutant: the refresh tokens of a replayed grant are forgotten.
AfterAccessCascade_Stops(r) ==
  IF req[r].kind = "revokeRefresh" THEN "done" ELSE "replayed"

AfterAccessCascade(r) ==
  IF req[r].kind = "revokeRefresh" THEN "done" ELSE "cascadeRefresh"

CascadeAccess(r) ==
  /\ AtomicStore
  /\ pc[r] = "cascadeAccess"
  /\ access' = AfterRevokeByGrant(access, req[r].grant)
  /\ End(r, AfterAccessCascade(r))
  /\ UNCHANGED <<now, codes, refresh, granted>>

\* The JSON stores list the keys, then delete them all in parallel.
ListAccess(r) ==
  /\ ~AtomicStore
  /\ pc[r] = "cascadeAccess"
  /\ req' = [req EXCEPT ![r].doomed = ListedOfGrant(access, req[r].grant)]
  /\ Goto(r, "deleteAccess")
  /\ UNCHANGED <<now, codes, access, refresh, granted>>

\* Mutant: the list of keys still to delete never shrinks.
DeleteListedAccess_Repeats(r, t) ==
  /\ pc[r] = "deleteAccess"
  /\ t \in req[r].doomed
  /\ access' = AfterDelete(access, t)
  /\ UNCHANGED <<now, codes, refresh, pc, req, granted>>

DeleteListedAccess(r, t) ==
  /\ pc[r] = "deleteAccess"
  /\ t \in req[r].doomed
  /\ access' = AfterDelete(access, t)
  /\ req' = [req EXCEPT ![r].doomed = @ \ {t}]
  /\ UNCHANGED <<now, codes, refresh, pc, granted>>

AccessDeleted(r) ==
  /\ pc[r] = "deleteAccess"
  /\ req[r].doomed = {}
  /\ End(r, AfterAccessCascade(r))
  /\ UNCHANGED <<now, codes, access, refresh, granted>>

CascadeRefresh(r) ==
  /\ AtomicStore
  /\ pc[r] = "cascadeRefresh"
  /\ refresh' = AfterRevokeByGrant(refresh, req[r].grant)
  /\ End(r, "replayed")
  /\ UNCHANGED <<now, codes, access, granted>>

ListRefresh(r) ==
  /\ ~AtomicStore
  /\ pc[r] = "cascadeRefresh"
  /\ req' = [req EXCEPT ![r].doomed = ListedOfGrant(refresh, req[r].grant)]
  /\ Goto(r, "deleteRefresh")
  /\ UNCHANGED <<now, codes, access, refresh, granted>>

DeleteListedRefresh(r, t) ==
  /\ pc[r] = "deleteRefresh"
  /\ t \in req[r].doomed
  /\ refresh' = AfterDelete(refresh, t)
  /\ req' = [req EXCEPT ![r].doomed = @ \ {t}]
  /\ UNCHANGED <<now, codes, access, pc, granted>>

RefreshDeleted(r) ==
  /\ pc[r] = "deleteRefresh"
  /\ req[r].doomed = {}
  /\ End(r, "replayed")
  /\ UNCHANGED <<now, codes, access, refresh, granted>>

-----------------------------------------------------------------------------
(* handleRevocationRequest.  Access and refresh tokens are different       *)
(* strings, so token_type_hint only decides which store is asked in vain.  *)

FindAccess(r) == Fetch(access, req[r].token)

\* An unknown token is answered 200, another client's is refused.
Verdict(r, found) ==
  IF found = Absent THEN "done"
  ELSE IF found.client # req[r].client THEN "denied" ELSE "delete"

RevokeAccessFind(r) ==
  /\ At(r, "revokeAccess", "find")
  /\ access' = AfterGet(access, req[r].token)
  /\ End(r, Verdict(r, FindAccess(r)))
  /\ UNCHANGED <<now, codes, refresh, granted>>

RevokeAccess(r) ==
  /\ At(r, "revokeAccess", "delete")
  /\ access' = AfterDelete(access, req[r].token)
  /\ End(r, "done")
  /\ UNCHANGED <<now, codes, refresh, granted>>

RevokeRefreshFind(r) ==
  LET verdict == Verdict(r, FindRefresh(r))
  IN  /\ At(r, "revokeRefresh", "find")
      /\ ReadRefresh(r)
      /\ Goto(r, verdict)
      /\ req' = [req EXCEPT ![r].grant =
                   IF verdict = "delete" THEN FindRefresh(r).grant ELSE @]

\* A single refresh token goes, then the access tokens of its grant; the other
\* refresh tokens of the grant stay.
RevokeRefresh(r) ==
  /\ At(r, "revokeRefresh", "delete")
  /\ refresh' = AfterDelete(refresh, req[r].token)
  /\ Goto(r, "cascadeAccess")
  /\ UNCHANGED <<now, codes, access, req, granted>>

-----------------------------------------------------------------------------
(* Failures.                                                               *)

\* No signing key fits the client's algorithm, or generateTokenResponse throws:
\* server_error, after the code was consumed.
SigningFails(r) ==
  /\ pc[r] \in {"recheck", "sign"}
  /\ End(r, "lost")
  /\ UNCHANGED <<now, codes, access, refresh, granted>>

\* A call to the remote backend rejects, or the worker is stopped.
StoreFails(r) ==
  /\ ~AtomicStore
  /\ pc[r] \in Running \ {"respond"}
  /\ End(r, IF pc[r] \in Cascading THEN "cut" ELSE "lost")
  /\ UNCHANGED <<now, codes, access, refresh, granted>>

\* The answer never reaches the client.
ResponseLost(r) ==
  /\ pc[r] = "respond"
  /\ End(r, "lost")
  /\ UNCHANGED <<now, codes, access, refresh, granted>>

-----------------------------------------------------------------------------
Clock == Tick /\ UNCHANGED <<pc, req, granted>>

Arrive(r) ==
  \/ \E g \in Grants, client \in Clients, proven \in BOOLEAN :
       StartCode(r, g, client, proven)
  \/ \E t \in Requests, client \in Clients, scope \in SUBSET Scopes :
       StartRefresh(r, t, client, TRUE, scope)
  \/ \E t \in Requests, client \in Clients : StartRefresh(r, t, client, FALSE, {})
  \/ \E t \in Requests, client \in Clients : StartRevokeAccess(r, t, client)
  \/ \E t \in Requests, client \in Clients : StartRevokeRefresh(r, t, client)

RedeemStep(r) ==
  \/ CodeNotFound(r) \/ CodeReplayed(r) \/ CodeRejected(r) \/ CodeAccepted(r)
  \/ ConsumeCode(r) \/ ConsumeCodeRead(r) \/ ConsumeCodeWrite(r)
  \/ Recheck(r)

RotateStep(r) ==
  \/ RefreshNotFound(r) \/ RefreshReplayed(r)
  \/ RefreshRejected(r) \/ RefreshAccepted(r)
  \/ RetireRefresh(r) \/ RetireRefreshRead(r) \/ RetireRefreshWrite(r)

IssueStep(r) == Generate(r) \/ StoreAccess(r) \/ StoreRefresh(r) \/ Respond(r)

CascadeStep(r) ==
  \/ CascadeAccess(r) \/ ListAccess(r) \/ AccessDeleted(r)
  \/ CascadeRefresh(r) \/ ListRefresh(r) \/ RefreshDeleted(r)
  \/ \E t \in Requests : DeleteListedAccess(r, t) \/ DeleteListedRefresh(r, t)

RevokeStep(r) ==
  \/ RevokeAccessFind(r) \/ RevokeAccess(r)
  \/ RevokeRefreshFind(r) \/ RevokeRefresh(r)

\* The steps the runtime takes by itself once the store answered.
Serve(r) ==
  RedeemStep(r) \/ RotateStep(r) \/ IssueStep(r) \/ CascadeStep(r) \/ RevokeStep(r)

Fail(r) == SigningFails(r) \/ StoreFails(r) \/ ResponseLost(r)

Next ==
  \/ Clock
  \/ \E g \in Grants, client \in Clients, scope \in SUBSET Scopes :
       IssueCode(g, client, scope)
  \/ \E r \in Requests : Arrive(r) \/ Serve(r) \/ Fail(r)

Spec == Init /\ [][Next]_vars

\* Promises settle: a request in flight is eventually resumed.  Nothing obliges
\* clients to send requests, the clock to move within a bound, or calls to fail.
FairSpec == Spec /\ \A r \in Requests : WF_vars(Serve(r))
=============================================================================
