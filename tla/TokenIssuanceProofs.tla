-------------------------- MODULE TokenIssuanceProofs --------------------------
(***************************************************************************)
(* What refresh tokens carry on, for any number of grants, requests and    *)
(* refreshes and any resolver: the context of the authorization survives,  *)
(* and what was narrowed away does not come back.                          *)
(***************************************************************************)
EXTENDS TokenIssuance, TLAPS

-----------------------------------------------------------------------------
(* The inductive invariant: a request, a stored refresh token and what is  *)
(* made of them all agree with the code of their grant.                    *)

\* The acr the resolver gives to an authorization.
Expected(code) == AcrResolver[RequestedAcr(code.asked.acrValues, code.asked.acrClaim)]

\* What a validated request and the entry of a refresh token both carry.
Carries(x, code) ==
  /\ code # Absent
  /\ x.subject = code.asked.subject /\ x.client = code.asked.client
  /\ {UserInfoEndpoint} \cup x.audience = {UserInfoEndpoint} \cup code.asked.audience
  /\ x.authTime = code.authTime

\* An acr is stored where it was resolved, which takes an ID Token; without one,
\* openid is not in the scope and never will be.
AcrKept(x, code) == x.acr = Expected(code) \/ "openid" \notin x.scope

ReqInv(r) ==
  /\ Carries(req[r], codes[req[r].grant])
  /\ req[r].parent = Absent =>
       /\ req[r].nonce = codes[req[r].grant].asked.nonce
       /\ req[r].acrValues = codes[req[r].grant].asked.acrValues
       /\ req[r].acrClaim = codes[req[r].grant].asked.acrClaim
  /\ req[r].parent # Absent =>
       /\ req[r].nonce = Absent
       /\ AcrKept(req[r], codes[req[r].grant])
       /\ answer[req[r].parent] # Absent
       /\ req[r].scope \subseteq answer[req[r].parent].scope \cup {"offline_access"}

EntryInv(t) ==
  /\ Carries(refresh[t], codes[refresh[t].grant])
  /\ AcrKept(refresh[t], codes[refresh[t].grant])
  /\ answer[t] # Absent
  /\ refresh[t].scope \subseteq answer[t].scope \cup {"offline_access"}

MadeInv(r) ==
  LET code == codes[req[r].grant]
      claims == made[r].token.claims
      idToken == made[r].idToken
  IN  /\ made[r].scope = req[r].scope
      /\ claims.sub = code.asked.subject /\ claims.client = code.asked.client
      /\ claims.aud = {UserInfoEndpoint} \cup code.asked.audience
      /\ idToken # Absent <=> "openid" \in req[r].scope
      /\ idToken # Absent =>
           /\ idToken.sub = code.asked.subject /\ idToken.aud = code.asked.client
           /\ idToken.auth_time = code.authTime
           /\ idToken.acr = Expected(code)
           /\ idToken.nonce = IF req[r].parent = Absent THEN code.asked.nonce ELSE Absent

\* What a request has reached says what is known of it.
ProgressInv(r) ==
  /\ pc[r] # "idle" => req[r] # Absent
  /\ pc[r] \in {"save", "done"} => made[r] # Absent
  /\ made[r] # Absent => pc[r] \in {"save", "done"}
  /\ req[r] # Absent => pc[r] # "idle"
  /\ answer[r] # Absent => pc[r] = "done" /\ answer[r] = made[r]

Progress == \A r \in Requests : ProgressInv(r)

Inv ==
  \A r \in Requests :
    /\ req[r] # Absent => ReqInv(r)
    /\ refresh[r] # Absent => EntryInv(r)
    /\ made[r] # Absent => MadeInv(r)

-----------------------------------------------------------------------------
(* Types.                                                                  *)

\* A resolver asked what an authorization asks for answers with an acr.
LEMMA AcrType ==
  ASSUME NEW v \in ValidatedRequest
  PROVE  Acr(v) \in Acrs
BY IssuanceAssumption DEF Acr, RequestedAcr, ValidatedRequest

\* What is generated for a request is a response.
LEMMA MadeType ==
  ASSUME NEW v \in ValidatedRequest, NEW r \in Requests, now \in Nat
  PROVE  [token |-> [claims |-> Claims(v), salt |-> IF RandomNames THEN r ELSE Absent],
          idToken |-> IF "openid" \in v.scope THEN IdTokenOf(v) ELSE Absent,
          scope |-> v.scope] \in Response
<1>1. now + AccessLifetime \in Nat
  BY IssuanceAssumption
<1>2. {UserInfoEndpoint} \cup v.audience \in SUBSET Audiences
  BY IssuanceAssumption DEF ValidatedRequest
<1>3. Claims(v) \in [sub: Users, client: Clients, aud: SUBSET Audiences,
                     scope: SUBSET Scopes, iat: Nat, nbf: Nat, exp: Nat]
  BY <1>1, <1>2 DEF Claims, Audience, ValidatedRequest
<1>4. IdTokenOf(v) \in IdToken
  BY AcrType DEF IdTokenOf, IdToken, ValidatedRequest
<1>5. [claims |-> Claims(v), salt |-> IF RandomNames THEN r ELSE Absent] \in AccessToken
  BY <1>3 DEF AccessToken
<1>6. v.scope \in SUBSET Scopes
  BY DEF ValidatedRequest
<1> QED
  BY <1>4, <1>5, <1>6 DEF Response

\* The entry stored for a response is a refresh token's.
LEMMA SuccessorType ==
  ASSUME NEW v \in ValidatedRequest, NEW response \in Response, now \in Nat
  PROVE  Successor(v, response) \in RefreshEntry
<1>1. (IF v.since = Absent THEN now ELSE v.since) \in Nat
  BY DEF ValidatedRequest
<1>2. (IF v.since = Absent THEN now ELSE v.since) + RefreshLifetime \in Nat
  BY <1>1, IssuanceAssumption
<1>3. {UserInfoEndpoint} \cup v.audience \in SUBSET Audiences
  BY IssuanceAssumption DEF ValidatedRequest
<1>4. KeptScope(v) \in SUBSET Scopes
  BY IssuanceAssumption DEF KeptScope, ValidatedRequest
<1>5. KeptAcr(v, response) \in Acrs
  BY AbsentAssumption DEF KeptAcr, ValidatedRequest, Response, IdToken
<1> QED
  BY <1>1, <1>2, <1>3, <1>4, <1>5 DEF Successor, Audience, RefreshEntry, ValidatedRequest

\* Using a refresh token up leaves entries entries.
LEMMA RetiredType ==
  ASSUME NEW entries \in [Requests -> RefreshEntry \cup {Absent}],
         NEW t \in Requests \cup {Absent}
  PROVE  Retired(t, entries) \in [Requests -> RefreshEntry \cup {Absent}]
BY AbsentAssumption DEF Retired, RefreshEntry

\* The initial state has its type.
LEMMA TypeInit == Init => TypeOK
BY AbsentAssumption DEF Init, TypeOK


\* A code validates a request.
LEMMA RedeemType ==
  ASSUME TypeOK, NEW r \in Requests, NEW g \in Grants, Redeem(r, g)
  PROVE  req'[r] \in ValidatedRequest /\ req'[r] # Absent
<1>1. codes[g] \in Code
  BY DEF Redeem, Live, TypeOK
<1>2. req'[r] \in ValidatedRequest
  BY <1>1, AbsentAssumption DEF Redeem, ValidatedRequest, Code, Authorization, TypeOK
<1> QED
  BY <1>2, AbsentAssumption

\* A refresh token validates a request.
LEMMA RotateType ==
  ASSUME TypeOK, NEW r \in Requests, NEW t \in Requests,
         NEW scope \in (SUBSET Scopes) \cup {Absent}, Rotate(r, t, scope)
  PROVE  req'[r] \in ValidatedRequest /\ req'[r] # Absent
<1>1. refresh[t] \in RefreshEntry
  BY DEF Rotate, Live, TypeOK
<1>2. (IF scope = Absent THEN refresh[t].scope ELSE scope) \in SUBSET Scopes
  BY <1>1 DEF RefreshEntry
<1>3. req'[r] \in ValidatedRequest
  BY <1>1, <1>2, AbsentAssumption
  DEF Rotate, ValidatedRequest, RefreshEntry, AuthTimeOf, TypeOK
<1> QED
  BY <1>3, AbsentAssumption

\* A response is made of a validated request.
LEMMA GenerateType ==
  ASSUME TypeOK, Progress, NEW r \in Requests, Generate(r)
  PROVE  req[r] \in ValidatedRequest /\ made'[r] \in Response
<1>1. req[r] \in ValidatedRequest
  BY DEF Generate, Progress, ProgressInv, TypeOK
<1>2. made'[r] \in Response
  BY <1>1, MadeType DEF Generate, TypeOK
<1> QED
  BY <1>1, <1>2

\* A request is known before anything is made of it, and answered with what was made.
LEMMA ProgressStep == TypeOK /\ Progress /\ [Next]_vars => Progress'
<1> SUFFICES ASSUME TypeOK, Progress, [Next]_vars,
                    NEW q \in Requests
             PROVE  ProgressInv(q)'
  BY DEF Progress
<1>0. ProgressInv(q)
  BY DEF Progress
<1>1. CASE Tick
  BY <1>0, <1>1 DEF Tick, ProgressInv
<1>2. ASSUME NEW g \in Grants, NEW asked \in Authorizations, NEW authTime \in 0..MaxTime,
             Authorize(g, asked, authTime)
      PROVE  ProgressInv(q)'
  BY <1>0, <1>2 DEF Authorize, ProgressInv
<1>3. ASSUME NEW g \in Grants, RevokeGrant(g)
      PROVE  ProgressInv(q)'
  BY <1>0, <1>3 DEF RevokeGrant, ProgressInv
<1>4. ASSUME NEW r \in Requests, NEW g \in Grants, Redeem(r, g)
      PROVE  ProgressInv(q)'
  <2>1. req'[r] # Absent
    BY <1>4, RedeemType DEF Redeem
  <2> QED
    BY <1>0, <1>4, <2>1 DEF Redeem, ProgressInv, TypeOK
<1>5. ASSUME NEW r \in Requests, NEW t \in Requests,
             NEW scope \in (SUBSET Scopes) \cup {Absent}, Rotate(r, t, scope)
      PROVE  ProgressInv(q)'
  <2>1. req'[r] # Absent
    BY <1>5, RotateType DEF Rotate
  <2> QED
    BY <1>0, <1>5, <2>1 DEF Rotate, ProgressInv, TypeOK
<1>6. ASSUME NEW r \in Requests, Generate(r)
      PROVE  ProgressInv(q)'
  <2>1. made'[r] # Absent
    BY <1>6, GenerateType, AbsentAssumption
  <2> QED
    BY <1>0, <1>6, <2>1 DEF Generate, ProgressInv, TypeOK
<1>7. ASSUME NEW r \in Requests, Save(r)
      PROVE  ProgressInv(q)'
  BY <1>0, <1>7 DEF Save, ProgressInv, TypeOK
<1> QED
  BY <1>0, <1>1, <1>2, <1>3, <1>4, <1>5, <1>6, <1>7 DEF Next, vars, ProgressInv

\* Every step keeps the types.
LEMMA TypeStep == TypeOK /\ Progress /\ [Next]_vars => TypeOK'
<1> SUFFICES ASSUME TypeOK, Progress, [Next]_vars
             PROVE  TypeOK'
  OBVIOUS
<1> USE DEF TypeOK
<1>1. CASE Tick
  BY <1>1 DEF Tick
<1>2. ASSUME NEW g \in Grants, NEW asked \in Authorizations, NEW authTime \in 0..MaxTime,
             Authorize(g, asked, authTime)
      PROVE  TypeOK'
  <2>1. now + CodeLifetime \in Nat
    BY IssuanceAssumption
  <2>2. authTime \in Nat
    BY IssuanceAssumption
  <2>3. [asked |-> asked, authTime |-> authTime, used |-> FALSE,
         expiresAt |-> now + CodeLifetime] \in Code
    BY <2>1, <2>2, IssuanceAssumption DEF Code
  <2>4. codes' \in [Grants -> Code \cup {Absent}]
    BY <1>2, <2>3 DEF Authorize
  <2> QED
    BY <1>2, <2>4 DEF Authorize
<1>3. ASSUME NEW g \in Grants, RevokeGrant(g)
      PROVE  TypeOK'
  BY <1>3 DEF RevokeGrant, WithoutGrant
<1>4. ASSUME NEW r \in Requests, NEW g \in Grants, Redeem(r, g)
      PROVE  TypeOK'
  <2>1. codes[g] \in Code
    BY <1>4 DEF Redeem, Live
  <2>2. [codes[g] EXCEPT !.used = TRUE] \in Code
    BY <2>1 DEF Code
  <2>3. codes' \in [Grants -> Code \cup {Absent}]
    BY <1>4, <2>2 DEF Redeem
  <2>4. req' \in [Requests -> ValidatedRequest \cup {Absent}]
    BY <1>4, RedeemType DEF Redeem
  <2> QED
    BY <1>4, <2>3, <2>4 DEF Redeem
<1>5. ASSUME NEW r \in Requests, NEW t \in Requests,
             NEW scope \in (SUBSET Scopes) \cup {Absent}, Rotate(r, t, scope)
      PROVE  TypeOK'
  <2>1. req' \in [Requests -> ValidatedRequest \cup {Absent}]
    BY <1>5, RotateType DEF Rotate
  <2> QED
    BY <1>5, <2>1 DEF Rotate
<1>6. ASSUME NEW r \in Requests, Generate(r)
      PROVE  TypeOK'
  <2>1. made' \in [Requests -> Response \cup {Absent}]
    BY <1>6, GenerateType DEF Generate
  <2> QED
    BY <1>6, <2>1 DEF Generate
<1>7. ASSUME NEW r \in Requests, Save(r)
      PROVE  TypeOK'
  <2>1. req[r] \in ValidatedRequest /\ made[r] \in Response
    BY <1>7 DEF Save, Progress, ProgressInv
  <2>2. Successor(req[r], made[r]) \in RefreshEntry
    BY <2>1, SuccessorType
  <2>3. (IF req[r].offline THEN [refresh EXCEPT ![r] = Successor(req[r], made[r])]
                           ELSE refresh)
          \in [Requests -> RefreshEntry \cup {Absent}]
    BY <2>2
  <2>4. req[r].parent \in Requests \cup {Absent}
    BY <2>1 DEF ValidatedRequest
  <2>5. refresh' \in [Requests -> RefreshEntry \cup {Absent}]
    BY <1>7, <2>3, <2>4, RetiredType DEF Save
  <2> QED
    BY <1>7, <2>5 DEF Save
<1> QED
  BY <1>1, <1>2, <1>3, <1>4, <1>5, <1>6, <1>7 DEF Next, vars

\* Types and progress hold together from the start.
LEMMA ProgressInit == Init => Progress
BY DEF Init, Progress, ProgressInv

\* Every value carried from a request to a store and back is one of its kind.
THEOREM TypeCorrect == Spec => []TypeOK
<1>1. Init => TypeOK /\ Progress
  BY TypeInit, ProgressInit
<1>2. TypeOK /\ Progress /\ [Next]_vars => TypeOK' /\ Progress'
  BY TypeStep, ProgressStep
<1> QED
  BY <1>1, <1>2, PTL DEF Spec

-----------------------------------------------------------------------------
(* What a step leaves as it is.                                            *)

\* Nothing changes what was authorized, nor when the user had authenticated.
LEMMA CodesKeep ==
  ASSUME TypeOK, [Next]_vars, NEW g \in Grants, codes[g] # Absent
  PROVE  /\ codes'[g] # Absent
         /\ codes'[g].asked = codes[g].asked
         /\ codes'[g].authTime = codes[g].authTime
<1>1. ASSUME NEW h \in Grants, NEW asked \in Authorizations, NEW authTime \in 0..MaxTime,
             Authorize(h, asked, authTime)
      PROVE  codes'[g] = codes[g]
  BY <1>1 DEF Authorize, TypeOK
<1>2. ASSUME NEW r \in Requests, NEW h \in Grants, Redeem(r, h)
      PROVE  /\ codes'[g] # Absent
             /\ codes'[g].asked = codes[g].asked
             /\ codes'[g].authTime = codes[g].authTime
  <2>1. codes[g] \in Code
    BY DEF TypeOK
  <2>2. [codes[g] EXCEPT !.used = TRUE] # Absent
    BY <2>1, AbsentAssumption DEF Code
  <2>3. codes'[g] = codes[g] \/ codes'[g] = [codes[g] EXCEPT !.used = TRUE]
    BY <1>2 DEF Redeem, TypeOK
  <2> QED
    BY <2>1, <2>2, <2>3 DEF Code
<1> QED
  BY <1>1, <1>2 DEF Next, vars, Tick, RevokeGrant, Rotate, Generate, Save

\* A request is answered once.
LEMMA AnswersKeep ==
  ASSUME TypeOK, Progress, [Next]_vars, NEW q \in Requests, answer[q] # Absent
  PROVE  answer'[q] = answer[q]
<1>1. pc[q] = "done"
  BY DEF Progress, ProgressInv
<1>2. ASSUME NEW r \in Requests, Save(r)
      PROVE  answer'[q] = answer[q]
  BY <1>1, <1>2 DEF Save, TypeOK
<1> QED
  BY <1>2 DEF Next, vars, Tick, Authorize, RevokeGrant, Redeem, Rotate, Generate

\* A request that is not touched stays in agreement with its code.
LEMMA ReqKept ==
  ASSUME TypeOK, Progress, [Next]_vars, NEW q \in Requests,
         req[q] # Absent, req'[q] = req[q], ReqInv(q)
  PROVE  ReqInv(q)'
<1>1. req[q] \in ValidatedRequest
  BY DEF TypeOK
<1>2. req[q].grant \in Grants /\ req[q].parent \in Requests \cup {Absent}
  BY <1>1 DEF ValidatedRequest
<1>3. /\ codes'[req[q].grant] # Absent
      /\ codes'[req[q].grant].asked = codes[req[q].grant].asked
      /\ codes'[req[q].grant].authTime = codes[req[q].grant].authTime
  BY <1>2, CodesKeep DEF ReqInv, Carries
<1>4. req[q].parent # Absent => answer'[req[q].parent] = answer[req[q].parent]
  BY <1>2, AnswersKeep DEF ReqInv
<1> QED
  BY <1>3, <1>4 DEF ReqInv, Carries, AcrKept, Expected

\* So does an entry that only its use may change.
LEMMA EntryKept ==
  ASSUME TypeOK, Progress, [Next]_vars, NEW q \in Requests,
         refresh[q] # Absent, EntryInv(q),
         refresh'[q].grant = refresh[q].grant,
         refresh'[q].subject = refresh[q].subject,
         refresh'[q].client = refresh[q].client,
         refresh'[q].scope = refresh[q].scope,
         refresh'[q].audience = refresh[q].audience,
         refresh'[q].authTime = refresh[q].authTime,
         refresh'[q].acr = refresh[q].acr
  PROVE  EntryInv(q)'
<1>1. refresh[q].grant \in Grants
  BY DEF TypeOK, RefreshEntry
<1>2. /\ codes'[refresh[q].grant] # Absent
      /\ codes'[refresh[q].grant].asked = codes[refresh[q].grant].asked
      /\ codes'[refresh[q].grant].authTime = codes[refresh[q].grant].authTime
  BY <1>1, CodesKeep DEF EntryInv, Carries
<1>3. answer'[q] = answer[q]
  BY AnswersKeep DEF EntryInv
<1> QED
  BY <1>2, <1>3 DEF EntryInv, Carries, AcrKept, Expected

\* And a response.
LEMMA MadeKept ==
  ASSUME TypeOK, [Next]_vars, NEW q \in Requests,
         req[q] # Absent, req'[q] = req[q], made'[q] = made[q], ReqInv(q), MadeInv(q)
  PROVE  MadeInv(q)'
<1>1. req[q].grant \in Grants
  BY DEF TypeOK, ValidatedRequest
<1>2. /\ codes'[req[q].grant].asked = codes[req[q].grant].asked
      /\ codes'[req[q].grant].authTime = codes[req[q].grant].authTime
  BY <1>1, CodesKeep DEF ReqInv, Carries
<1> QED
  BY <1>2 DEF MadeInv, Expected

\* Using a refresh token up changes nothing it carries.
LEMMA RetiredSame ==
  ASSUME NEW entries \in [Requests -> RefreshEntry \cup {Absent}],
         NEW t \in Requests \cup {Absent}, NEW q \in Requests,
         Retired(t, entries)[q] # Absent
  PROVE  LET x == Retired(t, entries)[q]
             y == entries[q]
         IN  /\ y # Absent
             /\ x.grant = y.grant /\ x.subject = y.subject /\ x.client = y.client
             /\ x.scope = y.scope /\ x.audience = y.audience
             /\ x.authTime = y.authTime /\ x.acr = y.acr
<1>1. CASE Retired(t, entries)[q] = entries[q]
  BY <1>1
<1>2. CASE Retired(t, entries)[q] # entries[q]
  <2>1. /\ entries[q] # Absent
        /\ Retired(t, entries)[q] = [entries[q] EXCEPT !.used = TRUE]
    BY <1>2 DEF Retired
  <2>2. entries[q] \in RefreshEntry
    BY <2>1
  <2> QED
    BY <2>1, <2>2 DEF RefreshEntry
<1> QED
  BY <1>1, <1>2

-----------------------------------------------------------------------------
(* What the steps that make something establish of it.                     *)

\* A request that redeems a code takes the context from it.
LEMMA RedeemAgrees ==
  ASSUME TypeOK, NEW r \in Requests, NEW g \in Grants, Redeem(r, g)
  PROVE  ReqInv(r)'
<1>1. codes[g] \in Code /\ codes[g] # Absent
  BY DEF Redeem, Live, TypeOK
<1>2. codes'[g] = [codes[g] EXCEPT !.used = TRUE]
  BY DEF Redeem, TypeOK
<1>3. codes'[g].asked = codes[g].asked /\ codes'[g].authTime = codes[g].authTime
  BY <1>1, <1>2 DEF Code
<1>4. codes'[g] # Absent
  BY <1>1, <1>2, AbsentAssumption DEF Code
<1>5. /\ req'[r].grant = g /\ req'[r].parent = Absent
      /\ req'[r].subject = codes[g].asked.subject
      /\ req'[r].client = codes[g].asked.client
      /\ req'[r].audience = codes[g].asked.audience
      /\ req'[r].authTime = codes[g].authTime
      /\ req'[r].nonce = codes[g].asked.nonce
      /\ req'[r].acrValues = codes[g].asked.acrValues
      /\ req'[r].acrClaim = codes[g].asked.acrClaim
  BY DEF Redeem, TypeOK
<1> QED
  BY <1>3, <1>4, <1>5 DEF ReqInv, Carries

\* A request that refreshes takes it from the entry, with no more than its scope.
LEMMA RotateAgrees ==
  ASSUME TypeOK, NEW r \in Requests, NEW t \in Requests,
         NEW scope \in (SUBSET Scopes) \cup {Absent}, Rotate(r, t, scope), EntryInv(t)
  PROVE  ReqInv(r)'
<1>1. /\ req'[r].grant = refresh[t].grant /\ req'[r].parent = t
      /\ req'[r].subject = refresh[t].subject
      /\ req'[r].client = refresh[t].client
      /\ req'[r].audience = refresh[t].audience
      /\ req'[r].authTime = refresh[t].authTime
      /\ req'[r].nonce = Absent
      /\ req'[r].acr = refresh[t].acr
      /\ req'[r].scope = IF scope = Absent THEN refresh[t].scope ELSE scope
  BY DEF Rotate, TypeOK, AuthTimeOf
<1>2. req'[r].scope \subseteq refresh[t].scope
  BY <1>1 DEF Rotate
<1>3. codes' = codes /\ answer' = answer
  BY DEF Rotate
<1>4. t # Absent
  BY AbsentAssumption
<1>5. Carries(req'[r], codes[refresh[t].grant])
  BY <1>1 DEF EntryInv, Carries
<1>6. AcrKept(req'[r], codes[refresh[t].grant])
  BY <1>1, <1>2 DEF EntryInv, AcrKept
<1>7. /\ answer[t] # Absent
      /\ req'[r].scope \subseteq answer[t].scope \cup {"offline_access"}
  BY <1>2 DEF EntryInv
<1> QED
  BY <1>1, <1>3, <1>4, <1>5, <1>6, <1>7 DEF ReqInv, Carries, AcrKept, Expected

\* What is generated speaks of the authorization.
LEMMA GenerateAgrees ==
  ASSUME TypeOK, Progress, NEW r \in Requests, Generate(r), ReqInv(r)
  PROVE  MadeInv(r)'
<1> DEFINE code == codes[req[r].grant]
<1>1. req[r] \in ValidatedRequest
  BY GenerateType
<1>2. /\ made'[r].scope = req[r].scope
      /\ made'[r].token.claims = Claims(req[r])
      /\ made'[r].idToken = IF "openid" \in req[r].scope THEN IdTokenOf(req[r]) ELSE Absent
  BY DEF Generate, TypeOK
<1>3. IdTokenOf(req[r]) # Absent
  <2>1. IdTokenOf(req[r]) \in IdToken
    BY <1>1, AcrType DEF IdTokenOf, IdToken, ValidatedRequest
  <2> QED
    BY <2>1, AbsentAssumption
<1>4. /\ made'[r].token.claims.sub = code.asked.subject
      /\ made'[r].token.claims.client = code.asked.client
      /\ made'[r].token.claims.aud = {UserInfoEndpoint} \cup code.asked.audience
  BY <1>2 DEF Claims, Audience, ReqInv, Carries
<1>5. "openid" \in req[r].scope => Acr(req[r]) = Expected(code)
  BY DEF Acr, Expected, ReqInv, AcrKept
<1>6. made'[r].idToken # Absent =>
        /\ made'[r].idToken.sub = code.asked.subject
        /\ made'[r].idToken.aud = code.asked.client
        /\ made'[r].idToken.auth_time = code.authTime
        /\ made'[r].idToken.acr = Expected(code)
        /\ made'[r].idToken.nonce =
             IF req[r].parent = Absent THEN code.asked.nonce ELSE Absent
  BY <1>2, <1>5 DEF IdTokenOf, ReqInv, Carries
<1>7. req' = req /\ codes' = codes
  BY DEF Generate
<1> QED
  BY <1>2, <1>3, <1>4, <1>6, <1>7 DEF MadeInv, Expected

\* What is stored to be refreshed carries on what was answered.
LEMMA SaveAgrees ==
  ASSUME TypeOK, Progress, NEW r \in Requests, Save(r),
         ReqInv(r), MadeInv(r), NEW x, x = Successor(req[r], made[r])
  PROVE  /\ x.grant = req[r].grant
         /\ Carries(x, codes[x.grant]) /\ AcrKept(x, codes[x.grant])
         /\ answer'[r] # Absent
         /\ x.scope \subseteq answer'[r].scope \cup {"offline_access"}
<1>1. /\ x.grant = req[r].grant /\ x.subject = req[r].subject
      /\ x.client = req[r].client /\ x.authTime = req[r].authTime
      /\ x.audience = {UserInfoEndpoint} \cup req[r].audience
      /\ x.scope = req[r].scope \cup {"offline_access"}
      /\ x.acr = KeptAcr(req[r], made[r])
  BY DEF Successor, Audience, KeptScope
<1>2. answer'[r] = made[r] /\ made[r] # Absent
  BY DEF Save, TypeOK, Progress, ProgressInv
<1>3. Carries(x, codes[x.grant])
  BY <1>1 DEF ReqInv, Carries
<1>4. AcrKept(x, codes[x.grant])
  <2>1. CASE req[r].parent # Absent
    BY <1>1, <2>1 DEF KeptAcr, ReqInv, AcrKept
  <2>2. CASE req[r].parent = Absent
    BY <1>1, <2>2 DEF KeptAcr, MadeInv, AcrKept
  <2> QED
    BY <2>1, <2>2
<1>5. x.scope \subseteq answer'[r].scope \cup {"offline_access"}
  BY <1>1, <1>2 DEF MadeInv
<1> QED
  BY <1>1, <1>2, <1>3, <1>4, <1>5

-----------------------------------------------------------------------------
(* The invariant, one conjunct at a time.                                  *)

\* Every request known stays in agreement with the code of its grant.
LEMMA ReqStep ==
  ASSUME TypeOK, Progress, Inv, [Next]_vars, NEW q \in Requests, req'[q] # Absent
  PROVE  ReqInv(q)'
<1>1. ASSUME req'[q] = req[q]
      PROVE  ReqInv(q)'
  BY <1>1, ReqKept DEF Inv
<1>2. ASSUME NEW r \in Requests, NEW g \in Grants, Redeem(r, g)
      PROVE  ReqInv(q)'
  <2>1. CASE q = r
    BY <1>2, <2>1, RedeemAgrees
  <2>2. CASE q # r
    BY <1>1, <1>2, <2>2 DEF Redeem, TypeOK
  <2> QED
    BY <2>1, <2>2
<1>3. ASSUME NEW r \in Requests, NEW t \in Requests,
             NEW scope \in (SUBSET Scopes) \cup {Absent}, Rotate(r, t, scope)
      PROVE  ReqInv(q)'
  <2>1. CASE q = r
    <3>1. EntryInv(t)
      BY <1>3 DEF Rotate, Live, Inv
    <3> QED
      BY <1>3, <2>1, <3>1, RotateAgrees
  <2>2. CASE q # r
    BY <1>1, <1>3, <2>2 DEF Rotate, TypeOK
  <2> QED
    BY <2>1, <2>2
<1> QED
  BY <1>1, <1>2, <1>3 DEF Next, vars, Tick, Authorize, RevokeGrant, Generate, Save

\* Every entry stored does.
LEMMA EntryStep ==
  ASSUME TypeOK, Progress, Inv, [Next]_vars, NEW q \in Requests, refresh'[q] # Absent
  PROVE  EntryInv(q)'
<1>1. ASSUME refresh'[q] = refresh[q]
      PROVE  EntryInv(q)'
  BY <1>1, EntryKept DEF Inv
<1>2. ASSUME NEW g \in Grants, RevokeGrant(g)
      PROVE  EntryInv(q)'
  BY <1>1, <1>2 DEF RevokeGrant, WithoutGrant
<1>3. ASSUME NEW r \in Requests, Save(r)
      PROVE  EntryInv(q)'
  <2> DEFINE stored == IF req[r].offline
                         THEN [refresh EXCEPT ![r] = Successor(req[r], made[r])]
                         ELSE refresh
  <2>1. req[r] # Absent /\ made[r] # Absent
    BY <1>3 DEF Save, Progress, ProgressInv
  <2>2. req[r] \in ValidatedRequest /\ made[r] \in Response
    BY <2>1 DEF TypeOK
  <2>3. req[r].parent \in Requests \cup {Absent}
    BY <2>2 DEF ValidatedRequest
  <2>4. Successor(req[r], made[r]) \in RefreshEntry
    BY <2>2, SuccessorType DEF TypeOK
  <2>5. stored \in [Requests -> RefreshEntry \cup {Absent}]
    BY <2>4 DEF TypeOK
  <2>6. refresh' = Retired(req[r].parent, stored)
    BY <1>3 DEF Save
  <2> HIDE DEF stored
  <2>7. /\ stored[q] # Absent
        /\ refresh'[q].grant = stored[q].grant
        /\ refresh'[q].subject = stored[q].subject
        /\ refresh'[q].client = stored[q].client
        /\ refresh'[q].scope = stored[q].scope
        /\ refresh'[q].audience = stored[q].audience
        /\ refresh'[q].authTime = stored[q].authTime
        /\ refresh'[q].acr = stored[q].acr
    BY <2>3, <2>5, <2>6, RetiredSame
  <2>8. CASE stored[q] = refresh[q]
    <3>1. EntryInv(q)
      BY <2>7, <2>8 DEF Inv
    <3> QED
      BY <2>7, <2>8, <3>1, EntryKept
  <2>9. CASE stored[q] # refresh[q]
    <3>1. q = r /\ stored[q] = Successor(req[r], made[r])
      BY <2>9 DEF stored, TypeOK
    <3>2. ReqInv(r) /\ MadeInv(r)
      BY <2>1 DEF Inv
    <3>3. /\ Carries(stored[q], codes[stored[q].grant])
          /\ AcrKept(stored[q], codes[stored[q].grant])
          /\ answer'[q] # Absent
          /\ stored[q].scope \subseteq answer'[q].scope \cup {"offline_access"}
      BY <1>3, <3>1, <3>2, SaveAgrees
    <3>4. codes' = codes
      BY <1>3 DEF Save
    <3> QED
      BY <2>7, <3>3, <3>4 DEF EntryInv, Carries, AcrKept, Expected
  <2> QED
    BY <2>8, <2>9
<1> QED
  BY <1>1, <1>2, <1>3 DEF Next, vars, Tick, Authorize, Redeem, Rotate, Generate

\* Every response does.
LEMMA MadeStep ==
  ASSUME TypeOK, Progress, Inv, [Next]_vars, NEW q \in Requests, made'[q] # Absent
  PROVE  MadeInv(q)'
<1>1. ASSUME made'[q] = made[q], req'[q] = req[q]
      PROVE  MadeInv(q)'
  <2>1. req[q] # Absent
    BY <1>1 DEF Progress, ProgressInv
  <2>2. ReqInv(q) /\ MadeInv(q)
    BY <1>1, <2>1 DEF Inv
  <2> QED
    BY <1>1, <2>1, <2>2, MadeKept
<1>2. ASSUME made'[q] = made[q], pc[q] = "idle"
      PROVE  MadeInv(q)'
  BY <1>2 DEF Progress, ProgressInv
<1>3. ASSUME NEW r \in Requests, NEW g \in Grants, Redeem(r, g)
      PROVE  MadeInv(q)'
  BY <1>1, <1>2, <1>3 DEF Redeem, TypeOK
<1>4. ASSUME NEW r \in Requests, NEW t \in Requests,
             NEW scope \in (SUBSET Scopes) \cup {Absent}, Rotate(r, t, scope)
      PROVE  MadeInv(q)'
  BY <1>1, <1>2, <1>4 DEF Rotate, TypeOK
<1>5. ASSUME NEW r \in Requests, Generate(r)
      PROVE  MadeInv(q)'
  <2>1. CASE q = r
    <3>1. req[r] # Absent
      BY <1>5 DEF Generate, Progress, ProgressInv
    <3>2. ReqInv(r)
      BY <3>1 DEF Inv
    <3> QED
      BY <1>5, <2>1, <3>2, GenerateAgrees
  <2>2. CASE q # r
    BY <1>1, <1>5, <2>2 DEF Generate, TypeOK
  <2> QED
    BY <2>1, <2>2
<1> QED
  BY <1>1, <1>3, <1>4, <1>5 DEF Next, vars, Tick, Authorize, RevokeGrant, Save

-----------------------------------------------------------------------------
(* The theorems.                                                           *)

\* Nothing is known at first.
LEMMA InvInit == Init => Inv
BY DEF Init, Inv

\* Types, progress and agreement hold together in every reachable state.
LEMMA Invariant == Spec => [](TypeOK /\ Progress /\ Inv)
<1>1. Init => TypeOK /\ Progress /\ Inv
  BY TypeInit, ProgressInit, InvInit
<1>2. TypeOK /\ Progress /\ Inv /\ [Next]_vars => Inv'
  BY ReqStep, EntryStep, MadeStep DEF Inv
<1>3. TypeOK /\ Progress /\ Inv /\ [Next]_vars => (TypeOK /\ Progress /\ Inv)'
  BY <1>2, TypeStep, ProgressStep
<1> QED
  BY <1>1, <1>3, PTL DEF Spec

\* However many refreshes lie between, a token speaks of the user, the client, the
\* audience and the authentication of the authorization it comes from.
THEOREM ContextIsKept == Spec => []ContextSurvives
<1>1. TypeOK /\ Progress /\ Inv => ContextSurvives
  <2> SUFFICES ASSUME TypeOK, Progress, Inv, NEW r \in Requests, Answered(r)
               PROVE  /\ answer[r] = made[r] /\ MadeInv(r)
    BY DEF ContextSurvives, MadeInv, Source, Expected
  <2>1. answer[r] = made[r] /\ made[r] # Absent
    BY DEF Progress, ProgressInv, Answered
  <2> QED
    BY <2>1 DEF Inv
<1> QED
  BY <1>1, Invariant, PTL

\* What a refresh narrowed away stays away from its successors: no scope but
\* offline_access comes back, and no ID Token once openid is gone.
THEOREM NarrowingIsKept == Spec => []DroppedStaysDropped
<1>1. TypeOK /\ Progress /\ Inv => DroppedStaysDropped
  <2> SUFFICES ASSUME TypeOK, Progress, Inv, NEW r \in Requests, Answered(r),
                      req[r].parent # Absent
               PROVE  /\ answer[r].scope \subseteq
                           answer[req[r].parent].scope \cup {"offline_access"}
                      /\ answer[r].idToken # Absent =>
                           answer[req[r].parent].idToken # Absent
    BY DEF DroppedStaysDropped
  <2> DEFINE t == req[r].parent
  <2>1. /\ answer[r] = made[r] /\ made[r] # Absent /\ pc[r] = "done"
    BY DEF Progress, ProgressInv, Answered
  <2>2. req[r] # Absent
    BY <2>1 DEF Progress, ProgressInv
  <2>3. req[r] \in ValidatedRequest
    BY <2>2 DEF TypeOK
  <2>4. t \in Requests
    BY <2>3 DEF ValidatedRequest
  <2>5. ReqInv(r) /\ MadeInv(r)
    BY <2>1, <2>2 DEF Inv
  <2>6. answer[t] # Absent /\ req[r].scope \subseteq answer[t].scope \cup {"offline_access"}
    BY <2>5 DEF ReqInv
  <2>7. answer[t] = made[t] /\ made[t] # Absent
    BY <2>4, <2>6 DEF Progress, ProgressInv
  <2>8. MadeInv(t)
    BY <2>4, <2>7 DEF Inv
  <2>9. answer[r].scope \subseteq answer[t].scope \cup {"offline_access"}
    BY <2>1, <2>5, <2>6 DEF MadeInv
  <2>10. answer[r].idToken # Absent => "openid" \in answer[t].scope
    BY <2>1, <2>5, <2>6 DEF MadeInv
  <2>11. answer[r].idToken # Absent => answer[t].idToken # Absent
    BY <2>7, <2>8, <2>10 DEF MadeInv
  <2> QED
    BY <2>9, <2>11
<1> QED
  BY <1>1, Invariant, PTL

-----------------------------------------------------------------------------
(* Revocation.                                                             *)

\* A refresh token is stored for the request that minted it; a random part names it too.
NameInv(r) ==
  /\ made[r] # Absent /\ RandomNames => made[r].token.salt = r
  /\ refresh[r] # Absent => req[r] # Absent /\ refresh[r].grant = req[r].grant

\* The entry of an access token names the grant of a request that was answered it.
OwnerInv(t) ==
  \E q \in Requests : Answered(q) /\ answer[q].token = t /\ req[q].grant = access[t].grant

\* A grant that was revoked has no entry and no request that could store one.
RevokedInv(g) ==
  /\ codes[g] # Absent /\ codes[g].used
  /\ \A r \in Requests :
       /\ req[r] # Absent /\ req[r].grant = g => pc[r] = "done"
       /\ refresh[r] # Absent => refresh[r].grant # g
  /\ \A t \in DOMAIN access : access[t].grant # g

RevocationInv ==
  /\ \A r \in Requests : NameInv(r)
  /\ \A t \in DOMAIN access : OwnerInv(t)
  /\ \A g \in revoked : RevokedInv(g)

\* Refresh tokens and names are those of their request after every step.
LEMMA NameStep ==
  ASSUME TypeOK, Progress, RevocationInv, [Next]_vars, NEW q \in Requests
  PROVE  NameInv(q)'
<1>0. NameInv(q) /\ ProgressInv(q)
  BY DEF RevocationInv, Progress
<1>1. ASSUME NEW g \in Grants, RevokeGrant(g)
      PROVE  NameInv(q)'
  BY <1>0, <1>1 DEF RevokeGrant, WithoutGrant, NameInv
<1>2. ASSUME NEW r \in Requests, NEW g \in Grants, Redeem(r, g)
      PROVE  NameInv(q)'
  BY <1>0, <1>2 DEF Redeem, NameInv, ProgressInv, TypeOK
<1>3. ASSUME NEW r \in Requests, NEW t \in Requests,
             NEW scope \in (SUBSET Scopes) \cup {Absent}, Rotate(r, t, scope)
      PROVE  NameInv(q)'
  BY <1>0, <1>3 DEF Rotate, NameInv, ProgressInv, TypeOK
<1>4. ASSUME NEW r \in Requests, Generate(r)
      PROVE  NameInv(q)'
  BY <1>0, <1>4 DEF Generate, NameInv, ProgressInv, TypeOK
<1>5. ASSUME NEW r \in Requests, Save(r)
      PROVE  NameInv(q)'
  <2>1. made' = made /\ req' = req
    BY <1>5 DEF Save
  <2>2. made[r] # Absent /\ req[r] # Absent
    BY <1>5 DEF Save, Progress, ProgressInv
  <2>3. ASSUME refresh'[q] # Absent
        PROVE  req[q] # Absent /\ refresh'[q].grant = req[q].grant
    <3> DEFINE stored == IF req[r].offline
                           THEN [refresh EXCEPT ![r] = Successor(req[r], made[r])]
                           ELSE refresh
    <3>1. stored \in [Requests -> RefreshEntry \cup {Absent}]
      BY <2>2, SuccessorType DEF TypeOK
    <3>2. req[r].parent \in Requests \cup {Absent}
      BY <2>2 DEF TypeOK, ValidatedRequest
    <3>3. refresh' = Retired(req[r].parent, stored)
      BY <1>5 DEF Save
    <3>4. stored[q] = refresh[q] \/ (q = r /\ stored[q].grant = req[r].grant)
      BY DEF TypeOK, Successor
    <3> HIDE DEF stored
    <3>5. stored[q] # Absent /\ refresh'[q].grant = stored[q].grant
      BY <2>3, <3>1, <3>2, <3>3, RetiredSame
    <3> QED
      BY <1>0, <2>2, <3>4, <3>5 DEF NameInv
  <2> QED
    BY <1>0, <2>1, <2>3 DEF NameInv
<1> QED
  BY <1>0, <1>1, <1>2, <1>3, <1>4, <1>5 DEF Next, vars, Tick, Authorize, NameInv

\* The entry of an access token keeps an owner.
LEMMA OwnerStep ==
  ASSUME TypeOK, Progress, RevocationInv, [Next]_vars, NEW t \in DOMAIN access'
  PROVE  OwnerInv(t)'
<1>1. ASSUME t \in DOMAIN access, access'[t].grant = access[t].grant
      PROVE  OwnerInv(t)'
  <2>1. PICK q \in Requests :
          Answered(q) /\ answer[q].token = t /\ req[q].grant = access[t].grant
    BY <1>1 DEF RevocationInv, OwnerInv
  <2>2. answer'[q] = answer[q] /\ answer[q] # Absent
    BY <2>1, AnswersKeep DEF Answered
  <2>3. pc[q] = "done"
    BY <2>2 DEF Progress, ProgressInv
  <2>4. req'[q] = req[q]
    BY <2>3 DEF Next, vars, Tick, Authorize, RevokeGrant, Redeem, Rotate, Generate, Save, TypeOK
  <2> QED
    BY <1>1, <2>1, <2>2, <2>4 DEF OwnerInv, Answered
<1>2. ASSUME NEW g \in Grants, RevokeGrant(g)
      PROVE  OwnerInv(t)'
  BY <1>1, <1>2 DEF RevokeGrant
<1>3. ASSUME NEW r \in Requests, Save(r)
      PROVE  OwnerInv(t)'
  <2>1. CASE t = made[r].token
    <3>1. answer'[r] = made[r] /\ req'[r] = req[r] /\ made[r] # Absent
      BY <1>3 DEF Save, TypeOK, Progress, ProgressInv
    <3>2. access'[t].grant = req[r].grant
      BY <1>3, <2>1 DEF Save, Stored, AccessEntry
    <3> QED
      BY <2>1, <3>1, <3>2 DEF OwnerInv, Answered
  <2>2. CASE t # made[r].token
    BY <1>1, <1>3, <2>2 DEF Save, Stored
  <2> QED
    BY <2>1, <2>2
<1> QED
  BY <1>1, <1>2, <1>3 DEF Next, vars, Tick, Authorize, Redeem, Rotate, Generate

\* A grant that was revoked stays without tokens.
LEMMA RevokedStep ==
  ASSUME TypeOK, Progress, RevocationInv, [Next]_vars, NEW g \in Grants, g \in revoked'
  PROVE  RevokedInv(g)'
<1>0. ASSUME g \in revoked
      PROVE  RevokedInv(g)
  BY <1>0 DEF RevocationInv
<1>1. CASE Tick
  BY <1>0, <1>1 DEF Tick, RevokedInv
<1>2. ASSUME NEW h \in Grants, NEW asked \in Authorizations, NEW authTime \in 0..MaxTime,
             Authorize(h, asked, authTime)
      PROVE  RevokedInv(g)'
  BY <1>0, <1>2 DEF Authorize, RevokedInv, TypeOK
<1>3. ASSUME NEW h \in Grants, RevokeGrant(h)
      PROVE  RevokedInv(g)'
  <2>1. CASE g = h
    <3>1. codes'[g] # Absent /\ codes'[g].used
      BY <1>3, <2>1 DEF RevokeGrant
    <3>2. ASSUME NEW r \in Requests
          PROVE  /\ req'[r] # Absent /\ req'[r].grant = g => pc'[r] = "done"
                 /\ refresh'[r] # Absent => refresh'[r].grant # g
      <4>1. req[r] # Absent => pc[r] = "done"
        BY <1>3 DEF RevokeGrant, InFlight, Progress, ProgressInv, TypeOK
      <4> QED
        BY <1>3, <2>1, <4>1 DEF RevokeGrant, WithoutGrant
    <3>3. \A t \in DOMAIN access' : access'[t].grant # g
      BY <1>3, <2>1 DEF RevokeGrant
    <3> QED
      BY <3>1, <3>2, <3>3 DEF RevokedInv
  <2>2. CASE g # h
    <3>1. RevokedInv(g)
      BY <1>0, <1>3, <2>2 DEF RevokeGrant
    <3>2. \A t \in DOMAIN access' : access'[t].grant # g
      BY <1>3, <3>1 DEF RevokeGrant, RevokedInv
    <3>3. \A r \in Requests : refresh'[r] # Absent => refresh'[r].grant # g
      BY <1>3, <3>1 DEF RevokeGrant, WithoutGrant, RevokedInv
    <3> QED
      BY <1>3, <3>1, <3>2, <3>3 DEF RevokeGrant, RevokedInv
  <2> QED
    BY <2>1, <2>2
<1>4. ASSUME NEW r \in Requests, NEW h \in Grants, Redeem(r, h)
      PROVE  RevokedInv(g)'
  <2>1. RevokedInv(g)
    BY <1>0, <1>4 DEF Redeem
  <2>2. g # h
    BY <1>4, <2>1 DEF Redeem, RevokedInv
  <2>3. codes'[g] = codes[g]
    BY <1>4, <2>2 DEF Redeem, TypeOK
  <2>4. \A q \in Requests : req'[q] # Absent /\ req'[q].grant = g => pc'[q] = "done"
    BY <1>4, <2>1, <2>2 DEF Redeem, RevokedInv, TypeOK
  <2> QED
    BY <1>4, <2>1, <2>3, <2>4 DEF Redeem, RevokedInv
<1>5. ASSUME NEW r \in Requests, NEW t \in Requests,
             NEW scope \in (SUBSET Scopes) \cup {Absent}, Rotate(r, t, scope)
      PROVE  RevokedInv(g)'
  <2>1. RevokedInv(g)
    BY <1>0, <1>5 DEF Rotate
  <2>2. req'[r].grant # g
    BY <1>5, <2>1 DEF Rotate, Live, RevokedInv, TypeOK
  <2>3. \A q \in Requests : req'[q] # Absent /\ req'[q].grant = g => pc'[q] = "done"
    BY <1>5, <2>1, <2>2 DEF Rotate, RevokedInv, TypeOK
  <2> QED
    BY <1>5, <2>1, <2>3 DEF Rotate, RevokedInv
<1>6. ASSUME NEW r \in Requests, Generate(r)
      PROVE  RevokedInv(g)'
  <2>1. RevokedInv(g)
    BY <1>0, <1>6 DEF Generate
  <2>2. req[r] # Absent
    BY <1>6 DEF Generate, Progress, ProgressInv
  <2>3. \A q \in Requests : req[q] # Absent /\ req[q].grant = g => pc'[q] = "done"
    BY <1>6, <2>1, <2>2 DEF Generate, RevokedInv, TypeOK
  <2> QED
    BY <1>6, <2>1, <2>3 DEF Generate, RevokedInv
<1>7. ASSUME NEW r \in Requests, Save(r)
      PROVE  RevokedInv(g)'
  <2>1. RevokedInv(g)
    BY <1>0, <1>7 DEF Save
  <2>2. req[r] # Absent /\ made[r] # Absent /\ req[r].grant # g
    BY <1>7, <2>1 DEF Save, Progress, ProgressInv, RevokedInv
  <2>3. \A q \in Requests : req[q] # Absent /\ req[q].grant = g => pc'[q] = "done"
    BY <1>7, <2>1, <2>2 DEF Save, RevokedInv, TypeOK
  <2>4. \A t \in DOMAIN access' : access'[t].grant # g
    BY <1>7, <2>1, <2>2 DEF Save, Stored, AccessEntry, RevokedInv
  <2>5. ASSUME NEW q \in Requests, refresh'[q] # Absent
        PROVE  refresh'[q].grant # g
    <3> DEFINE stored == IF req[r].offline
                           THEN [refresh EXCEPT ![r] = Successor(req[r], made[r])]
                           ELSE refresh
    <3>1. stored \in [Requests -> RefreshEntry \cup {Absent}]
      BY <2>2, SuccessorType DEF TypeOK
    <3>2. req[r].parent \in Requests \cup {Absent}
      BY <2>2 DEF TypeOK, ValidatedRequest
    <3>3. refresh' = Retired(req[r].parent, stored)
      BY <1>7 DEF Save
    <3>4. stored[q] = refresh[q] \/ stored[q].grant = req[r].grant
      BY DEF TypeOK, Successor
    <3> HIDE DEF stored
    <3>5. stored[q] # Absent /\ refresh'[q].grant = stored[q].grant
      BY <2>5, <3>1, <3>2, <3>3, RetiredSame
    <3> QED
      BY <2>1, <2>2, <3>4, <3>5 DEF RevokedInv
  <2> QED
    BY <1>7, <2>1, <2>3, <2>4, <2>5 DEF Save, RevokedInv
<1>8. CASE UNCHANGED vars
  BY <1>0, <1>8 DEF vars, RevokedInv
<1> QED
  BY <1>1, <1>2, <1>3, <1>4, <1>5, <1>6, <1>7, <1>8 DEF Next

\* Names, owners and revoked grants are as they should be in every reachable state.
LEMMA RevocationInvariant == Spec => [](Progress /\ RevocationInv)
<1>1. Init => TypeOK /\ Progress /\ RevocationInv
  <2>1. Init => RevocationInv
    BY DEF Init, RevocationInv, NameInv
  <2> QED
    BY <2>1, TypeInit, ProgressInit
<1>2. TypeOK /\ Progress /\ RevocationInv /\ [Next]_vars => RevocationInv'
  <2> SUFFICES ASSUME TypeOK, Progress, RevocationInv, [Next]_vars
               PROVE  RevocationInv'
    OBVIOUS
  <2>1. \A q \in Requests : NameInv(q)'
    BY NameStep
  <2>2. \A t \in DOMAIN access' : OwnerInv(t)'
    BY OwnerStep
  <2>3. revoked' \subseteq Grants
    BY TypeStep DEF TypeOK
  <2>4. \A g \in revoked' : RevokedInv(g)'
    BY <2>3, RevokedStep
  <2> QED
    BY <2>1, <2>2, <2>4 DEF RevocationInv
<1>3. TypeOK /\ Progress /\ RevocationInv /\ [Next]_vars
        => (TypeOK /\ Progress /\ RevocationInv)'
  BY <1>2, TypeStep, ProgressStep
<1> QED
  BY <1>1, <1>3, PTL DEF Spec

\* What was answered for a revoked grant is good for nothing, but for an access token
\* that a grant which is not revoked was answered too.
THEOREM RevocationIsComplete == Spec => []RevocationReaches
<1>1. Progress /\ RevocationInv => RevocationReaches
  <2> SUFFICES ASSUME RevocationInv, NEW r \in Requests,
                      Answered(r), req[r].grant \in revoked
               PROVE  /\ answer[r].token \in DOMAIN access =>
                           \E q \in Namesakes(r) : req[q].grant \notin revoked
                      /\ refresh[r] = Absent
    BY DEF RevocationReaches, Live
  <2>1. refresh[r] = Absent
    BY DEF RevocationInv, NameInv, RevokedInv
  <2>2. ASSUME answer[r].token \in DOMAIN access
        PROVE  \E q \in Namesakes(r) : req[q].grant \notin revoked
    BY <2>2 DEF RevocationInv, OwnerInv, RevokedInv, Namesakes
  <2> QED
    BY <2>1, <2>2
<1> QED
  BY <1>1, RevocationInvariant, PTL

\* Nothing answered for a revoked grant is good for anything.
NothingOutlives ==
  \A r \in Requests : Answered(r) /\ req[r].grant \in revoked =>
    /\ answer[r].token \in DOMAIN access => ~Live(access[answer[r].token])
    /\ ~Live(refresh[r])

\* Where access tokens have a random part, the exception never applies: what "revoked
\* together with sibling tokens" (routes/token.ts) needs is names, and only names.
THEOREM NamesSuffice ==
  ASSUME RandomNames = TRUE
  PROVE  Spec => []NothingOutlives
<1>1. Progress /\ RevocationInv => \A r, q \in Requests : q \in Namesakes(r) /\ Answered(r) => q = r
  <2> SUFFICES ASSUME Progress, RevocationInv, NEW r \in Requests, NEW q \in Requests,
                      q \in Namesakes(r), Answered(r)
               PROVE  q = r
    OBVIOUS
  <2>1. /\ answer[r] # Absent /\ answer[r] = made[r]
        /\ answer[q] # Absent /\ answer[q] = made[q]
    BY DEF Namesakes, Answered, Progress, ProgressInv
  <2>2. made[r].token.salt = r /\ made[q].token.salt = q
    BY <2>1 DEF RevocationInv, NameInv
  <2> QED
    BY <2>1, <2>2 DEF Namesakes
<1>2. Progress /\ RevocationInv /\ RevocationReaches => NothingOutlives
  BY <1>1 DEF RevocationReaches, NothingOutlives, Namesakes
<1> QED
  BY <1>2, RevocationInvariant, RevocationIsComplete, PTL

-----------------------------------------------------------------------------
(* Introspection and UserInfo: the entry of an access token says what the  *)
(* token says and does not end before it.                                  *)

\* What is made for a request speaks of the request, and ends a lifetime from now
\* at the latest.
StampInv(r) ==
  LET claims == made[r].token.claims
  IN  /\ claims.sub = req[r].subject /\ claims.client = req[r].client
      /\ claims.aud = Audience(req[r]) /\ claims.scope = req[r].scope
      /\ claims.exp \in Nat /\ claims.exp <= now + AccessLifetime

Agrees(entry, claims) ==
  /\ entry.nbf \in Nat /\ entry.nbf <= now
  /\ entry.expiresAt \in Nat /\ claims.exp \in Nat /\ claims.exp <= entry.expiresAt
  /\ entry.subject = claims.sub /\ entry.client = claims.client
  /\ entry.scope = claims.scope /\ entry.audience = claims.aud

\* The tokens of r are out of a revocation's reach.
Unrevoked(r) == \A q \in Namesakes(r) : req[q].grant \notin revoked

FoundInv(r) ==
  Answered(r) /\ Unrevoked(r) =>
    answer[r].token \in DOMAIN access /\ Agrees(access[answer[r].token], answer[r].token.claims)

ActiveInv ==
  \A r \in Requests : (made[r] # Absent => StampInv(r)) /\ FoundInv(r)

\* Time only passes.
LEMMA TimePasses ==
  ASSUME TypeOK, [Next]_vars
  PROVE  now \in Nat /\ now' \in Nat /\ now <= now'
<1>1. now \in Nat
  BY DEF TypeOK
<1>2. now' = now \/ now' = now + 1
  BY DEF Next, vars, Tick, Authorize, RevokeGrant, Redeem, Rotate, Generate, Save
<1> QED
  BY <1>1, <1>2

\* The stamps of what is made stay behind the clock.
LEMMA StampStep ==
  ASSUME TypeOK, Progress, ActiveInv, [Next]_vars, NEW q \in Requests, made'[q] # Absent
  PROVE  StampInv(q)'
<1>0. /\ now \in Nat /\ now' \in Nat /\ now <= now' /\ AccessLifetime \in Nat
      /\ made \in [Requests -> Response \cup {Absent}]
      /\ req \in [Requests -> ValidatedRequest \cup {Absent}]
  BY TimePasses, IssuanceAssumption DEF TypeOK
<1>1. CASE made'[q] = made[q] /\ req'[q] = req[q]
  <2>1. StampInv(q)
    BY <1>1 DEF ActiveInv
  <2>2. ASSUME NEW e \in Nat, NEW t \in Nat, NEW u \in Nat, NEW l \in Nat, e <= t + l, t <= u
        PROVE  e <= u + l
    BY <2>2
  <2> QED
    BY <1>0, <1>1, <2>1, <2>2 DEF StampInv
<1>2. CASE Generate(q)
  <2>1. req[q] \in ValidatedRequest /\ req' = req /\ now' = now
    BY <1>0, <1>2 DEF Generate, Progress, ProgressInv
  <2>2. made'[q].token.claims = Claims(req[q])
    BY <1>0, <1>2 DEF Generate
  <2>3. now + AccessLifetime \in Nat
    BY <1>0
  <2> QED
    BY <2>1, <2>2, <2>3 DEF StampInv, Claims
<1>3. made'[q] # made[q] => Generate(q)
  BY <1>0 DEF Next, vars, Tick, Authorize, RevokeGrant, Redeem, Rotate, Generate, Save
<1>4. made[q] # Absent => req'[q] = req[q]
  <2>1. made[q] # Absent => pc[q] \in {"save", "done"}
    BY DEF Progress, ProgressInv
  <2> QED
    BY <1>0, <2>1 DEF Next, vars, Tick, Authorize, RevokeGrant, Redeem, Rotate, Generate, Save
<1> QED
  BY <1>1, <1>2, <1>3, <1>4

\* Answers and their grants are not touched by what comes after them.
LEMMA AnsweredKeeps ==
  ASSUME TypeOK, Progress, [Next]_vars, NEW q \in Requests, Answered(q)
  PROVE  answer'[q] = answer[q] /\ req'[q] = req[q]
<1>1. answer'[q] = answer[q]
  BY AnswersKeep DEF Answered
<1>2. pc[q] = "done"
  BY DEF Progress, ProgressInv, Answered
<1> QED
  BY <1>1, <1>2
  DEF Next, vars, Tick, Authorize, RevokeGrant, Redeem, Rotate, Generate, Save, TypeOK

\* What was found is found again, unless its grant is revoked.
LEMMA FoundStep ==
  ASSUME TypeOK, Progress, RevocationInv, ActiveInv, [Next]_vars,
         NEW r \in Requests, Answered(r)', Unrevoked(r)'
  PROVE  /\ answer'[r].token \in DOMAIN access'
         /\ \A token, entry : token = answer'[r].token /\ entry = access'[token] =>
              Agrees(entry, token.claims)'
<1> DEFINE Goal == /\ answer'[r].token \in DOMAIN access'
                   /\ \A token, entry : token = answer'[r].token /\ entry = access'[token] =>
                        Agrees(entry, token.claims)'
<1> SUFFICES Goal
  OBVIOUS
<1>0. /\ now \in Nat /\ now' \in Nat /\ now <= now' /\ AccessLifetime \in Nat
      /\ answer \in [Requests -> Response \cup {Absent}]
  BY TimePasses, IssuanceAssumption DEF TypeOK
<1>1. \A entry, claims : Agrees(entry, claims) => Agrees(entry, claims)'
  BY <1>0 DEF Agrees
\* The entry that was there is still there.
<1>2. ASSUME Answered(r), answer[r].token \in DOMAIN access =>
               /\ answer[r].token \in DOMAIN access'
               /\ access'[answer[r].token] = access[answer[r].token],
             revoked \subseteq revoked'
      PROVE  Goal
  <2>1. answer'[r] = answer[r]
    BY <1>2, AnsweredKeeps
  <2>2. Unrevoked(r)
    <3> SUFFICES ASSUME NEW q \in Namesakes(r) PROVE req[q].grant \notin revoked
      BY DEF Unrevoked
    <3>1. q \in Requests /\ Answered(q) /\ answer[q].token = answer[r].token
      BY DEF Namesakes
    <3>2. answer'[q] = answer[q] /\ req'[q] = req[q]
      BY <3>1, AnsweredKeeps
    <3>3. q \in Namesakes(r)'
      BY <3>1, <3>2, <2>1 DEF Namesakes, Answered
    <3> QED
      BY <3>2, <3>3, <1>2 DEF Unrevoked
  <2>3. /\ answer[r].token \in DOMAIN access
        /\ Agrees(access[answer[r].token], answer[r].token.claims)
    BY <1>2, <2>2 DEF ActiveInv, FoundInv
  <2>4. Agrees(access[answer[r].token], answer[r].token.claims)
        => \A e, c : e = access[answer[r].token] /\ c = answer[r].token.claims => Agrees(e, c)'
    BY <1>1
  <2> QED
    BY <2>1, <2>3, <2>4, <1>2
<1>3. ASSUME NEW s \in Requests, Save(s)
      PROVE  Goal
  <2>1. /\ made[s] # Absent /\ StampInv(s) /\ req[s] # Absent /\ now' = now
        /\ answer' = [answer EXCEPT ![s] = made[s]] /\ revoked' = revoked
        /\ access' = Stored(made[s].token, AccessEntry(req[s]))
    BY <1>3 DEF Save, Progress, ProgressInv, ActiveInv
  <2>2. CASE answer'[r].token = made[s].token
    <3>1. /\ answer'[r].token \in DOMAIN access'
          /\ access'[answer'[r].token] = AccessEntry(req[s])
      BY <2>1, <2>2 DEF Stored
    <3>2. now + AccessLifetime \in Nat
      BY <1>0
    <3>3. Agrees(AccessEntry(req[s]), made[s].token.claims)
      BY <2>1, <3>2, <1>0 DEF StampInv, Agrees, AccessEntry
    <3>4. \A e, c : e = AccessEntry(req[s]) /\ c = made[s].token.claims => Agrees(e, c)'
      BY <1>1, <3>3
    <3> QED
      BY <2>2, <3>1, <3>4
  <2>3. CASE answer'[r].token # made[s].token
    <3>1. answer'[r] = answer[r]
      BY <2>1, <2>3, <1>0
    <3>2. Answered(r)
      BY <3>1 DEF Answered
    <3>3. answer[r].token \in DOMAIN access =>
            /\ answer[r].token \in DOMAIN access'
            /\ access'[answer[r].token] = access[answer[r].token]
      BY <2>1, <2>3, <3>1 DEF Stored
    <3> QED
      BY <1>2, <2>1, <3>2, <3>3
  <2> QED
    BY <2>2, <2>3
<1>4. ASSUME NEW g \in Grants, RevokeGrant(g)
      PROVE  Goal
  <2>1. /\ access' = [t \in {t \in DOMAIN access : access[t].grant # g} |-> access[t]]
        /\ answer' = answer /\ revoked' = revoked \cup {g} /\ req' = req
    BY <1>4 DEF RevokeGrant
  <2>2. Answered(r)
    BY <2>1 DEF Answered
  <2>3. ASSUME answer[r].token \in DOMAIN access PROVE access[answer[r].token].grant # g
    <3>1. PICK q \in Requests : /\ Answered(q) /\ answer[q].token = answer[r].token
                                /\ req[q].grant = access[answer[r].token].grant
      BY <2>3 DEF RevocationInv, OwnerInv
    <3>2. q \in Namesakes(r)'
      BY <3>1, <2>1 DEF Namesakes, Answered
    <3> QED
      BY <3>1, <3>2, <2>1 DEF Unrevoked
  <2> QED
    BY <1>2, <2>1, <2>2, <2>3
<1>5. CASE access' = access /\ answer' = answer /\ revoked' = revoked
  <2>1. Answered(r)
    BY <1>5 DEF Answered
  <2> QED
    BY <1>2, <1>5, <2>1
<1>6. \/ access' = access /\ answer' = answer /\ revoked' = revoked
      \/ \E s \in Requests : Save(s)
      \/ \E g \in Grants : RevokeGrant(g)
  BY DEF Next, vars, Tick, Authorize, Redeem, Rotate, Generate
<1> HIDE DEF Goal
<1> QED
  BY <1>3, <1>4, <1>5, <1>6

\* Entries agree with their tokens in every reachable state.
LEMMA ActiveInvariant == Spec => []ActiveInv
<1>1. Init => ActiveInv
  BY DEF Init, ActiveInv, FoundInv, Answered
<1>2. TypeOK /\ Progress /\ RevocationInv /\ ActiveInv /\ [Next]_vars => ActiveInv'
  <2> SUFFICES ASSUME TypeOK, Progress, RevocationInv, ActiveInv, [Next]_vars, NEW r \in Requests
               PROVE  (made'[r] # Absent => StampInv(r)') /\ FoundInv(r)'
    BY DEF ActiveInv
  <2>1. made'[r] # Absent => StampInv(r)'
    BY StampStep
  <2>2. FoundInv(r)'
    BY FoundStep DEF FoundInv
  <2> QED
    BY <2>1, <2>2
<1> QED
  BY <1>1, <1>2, TypeCorrect, RevocationInvariant, PTL DEF Spec

\* An access token that was answered is active with its own content as long as it says
\* itself, however many requests were answered the same token before or after.
THEOREM AnsweredTokensAreActive == Spec => []AnsweredIsActive
<1>1. TypeOK /\ ActiveInv => AnsweredIsActive
  <2> SUFFICES ASSUME TypeOK, ActiveInv, NEW r \in Requests, Answered(r), Unrevoked(r),
                      now < answer[r].token.claims.exp
               PROVE  /\ answer[r].token \in DOMAIN access
                      /\ access[answer[r].token].nbf <= now
                      /\ now < access[answer[r].token].expiresAt
                      /\ access[answer[r].token].subject = answer[r].token.claims.sub
                      /\ access[answer[r].token].client = answer[r].token.claims.client
                      /\ access[answer[r].token].scope = answer[r].token.claims.scope
                      /\ access[answer[r].token].audience = answer[r].token.claims.aud
    BY DEF AnsweredIsActive, Unrevoked
  <2>1. /\ answer[r].token \in DOMAIN access
        /\ Agrees(access[answer[r].token], answer[r].token.claims)
    BY DEF ActiveInv, FoundInv
  <2> QED
    BY <2>1 DEF Agrees, TypeOK
<1> QED
  BY <1>1, TypeCorrect, ActiveInvariant, PTL
=============================================================================
