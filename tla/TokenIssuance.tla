----------------------------- MODULE TokenIssuance -----------------------------
(***************************************************************************)
(* What the token endpoint puts into the tokens, along a chain of          *)
(* refreshes: the context of the authorization (subject, client, audience, *)
(* auth_time, nonce, acr), the scope, and the times; and how the stored    *)
(* entry of an access token relates to the token itself.                   *)
(*                                                                         *)
(* A token request is validated, then generates its tokens, then saves     *)
(* them: the clock may move while keys sign.  The order of the store       *)
(* calls, and what other requests and failures do in between, is the       *)
(* subject of TokenEndpoint.                                               *)
(*                                                                         *)
(* An access token is the key of its own entry.  A JWT has no jti: with a  *)
(* signature that is a function of the payload (RS256, RandomNames =       *)
(* FALSE) two tokens of one payload are one token.  An ECDSA signature or  *)
(* an opaque token is random.                                              *)
(***************************************************************************)
EXTENDS Integers

CONSTANTS
  Grants,           \* authorization codes, and the grant ids bound to them
  Requests,         \* requests to the token endpoint
  Users, Clients, Scopes, Audiences,
  Nonces,           \* values of nonce, Absent among them
  AcrRequests,      \* what may be asked of the resolver, Absent among it
  Acrs,             \* what it may answer, Absent among it
  AcrResolver,      \* AcrResolver[requested]: the policy of the host application
  Authorizations,   \* what is authorized in the instance
  RandomNames,      \* FALSE: JWT access tokens signed with RSASSA-PKCS1-v1_5
  UserInfoEndpoint, \* the audience every access token has
  CodeLifetime,     \* config.authorizationCodeTtl
  AccessLifetime,   \* config.accessTokenExpiresIn
  RefreshLifetime,  \* config.refreshTokenAbsoluteLifetime
  MaxTime,          \* bound on the clock
  Absent            \* undefined

VARIABLES
  now,              \* Math.floor(Date.now() / 1000)
  codes,            \* grant -> what was authorized, or Absent
  access,           \* AccessTokenStore: token -> entry
  refresh,          \* RefreshTokenStore: the request that minted it -> entry
  pc,               \* how far each request is
  req,              \* what validateTokenRequest returned to each request
  made,             \* what generateTokenResponse returned to it
  answer,           \* history: what its client was answered
  revoked           \* history: grants whose tokens were revoked

vars == <<now, codes, access, refresh, pc, req, made, answer, revoked>>

\* acrValues is the parameter, acrClaim is asked for by claims.id_token.acr.values.
Authorization ==
  [subject: Users, client: Clients, scope: SUBSET Scopes, audience: SUBSET Audiences,
   nonce: Nonces, acrValues: AcrRequests, acrClaim: AcrRequests]

Code == [asked: Authorization, authTime: Nat, used: BOOLEAN, expiresAt: Nat]

RefreshEntry ==
  [grant: Grants, subject: Users, client: Clients, scope: SUBSET Scopes,
   audience: SUBSET Audiences, authTime: Nat, acr: Acrs, originalIssuedAt: Nat,
   expiresAt: Nat, used: BOOLEAN]

ValidatedRequest ==
  [grant: Grants,
   parent: Requests \cup {Absent},  \* whose refresh token is presented
   subject: Users, client: Clients, scope: SUBSET Scopes, audience: SUBSET Audiences,
   nonce: Nonces, authTime: Nat, acr: Acrs,
   acrValues: AcrRequests, acrClaim: AcrRequests,
   offline: BOOLEAN,                \* grantHasOfflineAccess
   since: Nat \cup {Absent}]        \* originalIssuedAt of the token presented

AccessToken ==
  [claims: [sub: Users, client: Clients, aud: SUBSET Audiences, scope: SUBSET Scopes,
            iat: Nat, nbf: Nat, exp: Nat],
   salt: Requests \cup {Absent}]

IdToken ==
  [sub: Users, aud: Clients, nonce: Nonces, auth_time: Nat, acr: Acrs]

Response ==
  [token: AccessToken, idToken: IdToken \cup {Absent}, scope: SUBSET Scopes]

ASSUME IssuanceAssumption ==
  /\ Authorizations \subseteq Authorization
  /\ {"openid", "offline_access"} \subseteq Scopes
  /\ UserInfoEndpoint \in Audiences
  /\ AcrResolver \in [AcrRequests -> Acrs]
  /\ RandomNames \in BOOLEAN
  /\ CodeLifetime \in Nat /\ AccessLifetime \in Nat /\ RefreshLifetime \in Nat
  /\ MaxTime \in Nat

\* Absent is a nonce or an acr that is not there, and is nothing else.
ASSUME AbsentAssumption ==
  /\ Absent \in Nonces /\ Absent \in AcrRequests /\ Absent \in Acrs
  /\ Absent \notin Requests /\ Absent \notin Nat
  /\ Absent \notin Code /\ Absent \notin RefreshEntry
  /\ Absent \notin ValidatedRequest /\ Absent \notin Response
  /\ Absent \notin IdToken

Init ==
  /\ now = 0
  /\ codes = [g \in Grants |-> Absent]
  /\ access = [t \in {} |-> Absent]
  /\ refresh = [r \in Requests |-> Absent]
  /\ pc = [r \in Requests |-> "idle"]
  /\ req = [r \in Requests |-> Absent]
  /\ made = [r \in Requests |-> Absent]
  /\ answer = [r \in Requests |-> Absent]
  /\ revoked = {}

InFlight == {r \in Requests : pc[r] \in {"generate", "save"}}

Live(entry) == entry # Absent /\ entry.expiresAt > now

-----------------------------------------------------------------------------
(* The code carries what was authorized to the token endpoint.             *)

\* completeAuthTransaction and createAuthorizationCode; the session that
\* authTime is of may be older than the code.
Authorize(g, asked, authTime) ==
  /\ codes[g] = Absent
  /\ authTime <= now
  /\ codes' = [codes EXCEPT ![g] =
       [asked |-> asked, authTime |-> authTime, used |-> FALSE,
        expiresAt |-> now + CodeLifetime]]
  /\ UNCHANGED <<now, access, refresh, pc, req, made, answer, revoked>>

-----------------------------------------------------------------------------
(* validateTokenRequest.                                                   *)

Redeem(r, g) ==
  /\ pc[r] = "idle"
  /\ Live(codes[g]) /\ ~codes[g].used
  /\ codes' = [codes EXCEPT ![g].used = TRUE]
  /\ pc' = [pc EXCEPT ![r] = "generate"]
  /\ LET asked == codes[g].asked
     IN  req' = [req EXCEPT ![r] =
           [grant |-> g, parent |-> Absent,
            subject |-> asked.subject, client |-> asked.client,
            scope |-> asked.scope, audience |-> asked.audience,
            nonce |-> asked.nonce, authTime |-> codes[g].authTime,
            acr |-> Absent, acrValues |-> asked.acrValues,
            acrClaim |-> asked.acrClaim,
            offline |-> "offline_access" \in asked.scope, since |-> Absent]]
  /\ UNCHANGED <<now, access, refresh, made, answer, revoked>>

\* Mutant: a refresh is an authentication.
AuthTimeOf_Now(entry) == now

\* The time of the first authentication, whatever the number of refreshes.
AuthTimeOf(entry) == entry.authTime

\* scope is what the request asks for, or Absent; the nonce is left behind.
Rotate(r, t, scope) ==
  /\ pc[r] = "idle"
  /\ Live(refresh[t]) /\ ~refresh[t].used
  /\ scope # Absent => scope # {} /\ scope \subseteq refresh[t].scope
  /\ pc' = [pc EXCEPT ![r] = "generate"]
  /\ LET entry == refresh[t]
     IN  req' = [req EXCEPT ![r] =
           [grant |-> entry.grant, parent |-> t,
            subject |-> entry.subject, client |-> entry.client,
            scope |-> IF scope = Absent THEN entry.scope ELSE scope,
            audience |-> entry.audience, nonce |-> Absent,
            authTime |-> AuthTimeOf(entry), acr |-> entry.acr,
            acrValues |-> Absent, acrClaim |-> Absent,
            offline |-> "offline_access" \in entry.scope,
            since |-> entry.originalIssuedAt]]
  /\ UNCHANGED <<now, codes, access, refresh, made, answer, revoked>>

-----------------------------------------------------------------------------
(* generateTokenResponse.                                                  *)

\* The acr parameter wins over the claims parameter.
RequestedAcr(acrValues, acrClaim) ==
  IF acrValues # Absent THEN acrValues ELSE acrClaim

\* The resolver is asked when a code is redeemed, a refresh repeats its answer.
Acr(v) ==
  IF v.parent # Absent THEN v.acr
  ELSE AcrResolver[RequestedAcr(v.acrValues, v.acrClaim)]

\* Whatever resource was asked for, the token is good at the UserInfo endpoint.
Audience(v) == {UserInfoEndpoint} \cup v.audience

Claims(v) ==
  [sub |-> v.subject, client |-> v.client, aud |-> Audience(v),
   scope |-> v.scope, iat |-> now, nbf |-> now, exp |-> now + AccessLifetime]

IdTokenOf(v) ==
  [sub |-> v.subject, aud |-> v.client, nonce |-> v.nonce, auth_time |-> v.authTime,
   acr |-> Acr(v)]

\* An ID Token is made where the scope granted to this request has openid.
Generate(r) ==
  /\ pc[r] = "generate"
  /\ made' = [made EXCEPT ![r] =
       [token |-> [claims |-> Claims(req[r]), salt |-> IF RandomNames THEN r ELSE Absent],
        idToken |-> IF "openid" \in req[r].scope THEN IdTokenOf(req[r]) ELSE Absent,
        scope |-> req[r].scope]]
  /\ pc' = [pc EXCEPT ![r] = "save"]
  /\ UNCHANGED <<now, codes, access, refresh, req, answer, revoked>>

-----------------------------------------------------------------------------
(* The handler saves what was generated and answers.                       *)

\* Mutant: the lifetime of the access token starts with its family's.
AccessEntry_OfFamily(v) ==
  [grant |-> v.grant, subject |-> v.subject, client |-> v.client, scope |-> v.scope,
   audience |-> Audience(v), nbf |-> now,
   expiresAt |-> (IF v.since = Absent THEN now ELSE v.since) + AccessLifetime]

\* The times are read again.
AccessEntry(v) ==
  [grant |-> v.grant, subject |-> v.subject, client |-> v.client, scope |-> v.scope,
   audience |-> Audience(v), nbf |-> now,
   expiresAt |-> now + AccessLifetime]

\* Mutant: the scope of the grant comes back with the rotation.
KeptScope_OfGrant(v) == codes[v.grant].asked.scope

\* A request that narrows offline_access away keeps it in the token it stores.
KeptScope(v) == v.scope \cup {"offline_access"}

\* resolvedAcr, which only the making of an ID Token resolves.
KeptAcr(v, response) ==
  IF v.parent # Absent THEN v.acr
  ELSE IF response.idToken = Absent THEN Absent ELSE response.idToken.acr

Successor(v, response) ==
  LET since == IF v.since = Absent THEN now ELSE v.since
  IN  [grant |-> v.grant, subject |-> v.subject, client |-> v.client,
       scope |-> KeptScope(v), audience |-> Audience(v),
       authTime |-> v.authTime, acr |-> KeptAcr(v, response),
       originalIssuedAt |-> since, expiresAt |-> since + RefreshLifetime,
       used |-> FALSE]

\* A token that is stored again replaces the entry it had.
Stored(token, entry) ==
  [t \in DOMAIN access \cup {token} |-> IF t = token THEN entry ELSE access[t]]

\* The refresh token presented is used once its successor is stored.
Retired(t, entries) ==
  IF t # Absent /\ entries[t] # Absent THEN [entries EXCEPT ![t].used = TRUE]
                                       ELSE entries

Save(r) ==
  /\ pc[r] = "save"
  /\ access' = Stored(made[r].token, AccessEntry(req[r]))
  /\ refresh' = Retired(req[r].parent,
       IF req[r].offline THEN [refresh EXCEPT ![r] = Successor(req[r], made[r])]
                         ELSE refresh)
  /\ answer' = [answer EXCEPT ![r] = made[r]]
  /\ pc' = [pc EXCEPT ![r] = "done"]
  /\ UNCHANGED <<now, codes, req, made, revoked>>

-----------------------------------------------------------------------------
\* Mutant: the entries of one store are left.
WithoutGrant_AccessOnly(g) == refresh

WithoutGrant(g) ==
  [r \in Requests |->
     IF refresh[r] # Absent /\ refresh[r].grant = g THEN Absent ELSE refresh[r]]

\* revokeTokensByGrantId, for a code or refresh token that is used again or a
\* consent withdrawn.
RevokeGrant(g) ==
  /\ InFlight = {}
  /\ codes[g] # Absent /\ codes[g].used
  /\ access' = [t \in {t \in DOMAIN access : access[t].grant # g} |-> access[t]]
  /\ refresh' = WithoutGrant(g)
  /\ revoked' = revoked \cup {g}
  /\ UNCHANGED <<now, codes, pc, req, made, answer>>

Tick ==
  /\ now < MaxTime
  /\ now' = now + 1
  /\ UNCHANGED <<codes, access, refresh, pc, req, made, answer, revoked>>

Next ==
  \/ Tick
  \/ \E g \in Grants, asked \in Authorizations, authTime \in 0..MaxTime :
       Authorize(g, asked, authTime)
  \/ \E g \in Grants : RevokeGrant(g)
  \/ \E r \in Requests :
       \/ \E g \in Grants : Redeem(r, g)
       \/ \E t \in Requests, scope \in (SUBSET Scopes) \cup {Absent} : Rotate(r, t, scope)
       \/ Generate(r)
       \/ Save(r)

Spec == Init /\ [][Next]_vars

-----------------------------------------------------------------------------
(* What holds along every chain of refreshes.                              *)

\* Every value that is carried from a request to a store and back is one of its kind;
\* an acr or a nonce that is not there is Absent, never a field that is missing.
TypeOK ==
  /\ now \in Nat
  /\ codes \in [Grants -> Code \cup {Absent}]
  /\ refresh \in [Requests -> RefreshEntry \cup {Absent}]
  /\ pc \in [Requests -> {"idle", "generate", "save", "done"}]
  /\ req \in [Requests -> ValidatedRequest \cup {Absent}]
  /\ made \in [Requests -> Response \cup {Absent}]
  /\ answer \in [Requests -> Response \cup {Absent}]
  /\ revoked \subseteq Grants

Answered(r) == answer[r] # Absent

Source(r) == codes[req[r].grant]

\* However many refreshes lie between, a token still speaks of the user, the client,
\* the audience, the authentication (auth_time, acr) and, in the answer to the code
\* only, of the nonce of the authorization it comes from.  (What routes/token.ts and
\* the refresh token's entry carry on: "the audience never expands".)
ContextSurvives ==
  \A r \in Requests : Answered(r) =>
    LET asked == Source(r).asked
        token == answer[r].token.claims
        idToken == answer[r].idToken
    IN  /\ token.sub = asked.subject /\ token.client = asked.client
        /\ token.aud = {UserInfoEndpoint} \cup asked.audience
        /\ idToken # Absent =>
             /\ idToken.sub = asked.subject /\ idToken.aud = asked.client
             /\ idToken.auth_time = Source(r).authTime
             /\ idToken.acr = AcrResolver[RequestedAcr(asked.acrValues, asked.acrClaim)]
             /\ idToken.nonce = IF req[r].parent = Absent THEN asked.nonce ELSE Absent

\* What a refresh narrowed away stays away from its successors, offline_access apart:
\* no scope comes back, and no ID Token once openid is gone.  (The scope stored with
\* the rotated refresh token, and its superset check at the next refresh.)
DroppedStaysDropped ==
  \A r \in Requests : Answered(r) /\ req[r].parent # Absent =>
    LET before == answer[req[r].parent]
    IN  /\ answer[r].scope \subseteq before.scope \cup {"offline_access"}
        /\ answer[r].idToken # Absent => before.idToken # Absent

\* The answers that hold one and the same access token.
Namesakes(r) == {q \in Requests : Answered(q) /\ answer[q].token = answer[r].token}

\* As long as an access token is good by its own times, and no grant that was answered
\* it was revoked, introspection and UserInfo find it, active, with the same content: the
\* entry, stamped later than the token, never ends before it.
AnsweredIsActive ==
  \A r \in Requests :
    LET token == answer[r].token
        entry == access[token]
    IN  /\ Answered(r) /\ now < token.claims.exp
        /\ \A q \in Namesakes(r) : req[q].grant \notin revoked
        => /\ token \in DOMAIN access
           /\ entry.nbf <= now /\ now < entry.expiresAt
           /\ entry.subject = token.claims.sub /\ entry.client = token.claims.client
           /\ entry.scope = token.claims.scope /\ entry.audience = token.claims.aud

\* Once the tokens of a grant were revoked, none that was answered for it is good for
\* anything, but for an access token that another grant, not revoked, was answered too:
\* "grantId binds this token to the original authorization grant so it can be revoked
\* together with sibling tokens on code reuse" (routes/token.ts).
RevocationReaches ==
  \A r \in Requests : Answered(r) /\ req[r].grant \in revoked =>
    /\ answer[r].token \in DOMAIN access /\ Live(access[answer[r].token]) =>
         \E q \in Namesakes(r) : req[q].grant \notin revoked
    /\ ~Live(refresh[r])
=============================================================================
