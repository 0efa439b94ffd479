------------------------- MODULE ConsentCascadeProofs -------------------------
(***************************************************************************)
(* Proofs about ConsentCascade, for any number of requests at either end,  *)
(* any number of users, clients and scopes, and any interleaving: what     *)
(* AuthorizationProofs shows of the front channel and TokenLineageProofs   *)
(* of the token endpoint holds of the two together, and the withdrawal of  *)
(* a consent, which one end makes in the stores of the other, keeps to it. *)
(***************************************************************************)
EXTENDS ConsentCascade, AuthorizationProofs

-----------------------------------------------------------------------------
(* The token endpoint, as TokenLineageProofs knows it.                     *)

TokenSide ==
  INSTANCE TokenLineageProofs
    WITH Grants <- Requests, Requests <- TokenRequests, Scopes <- Scopes \ {OpenId},
         MaxInFlight <- TokenMaxInFlight,
         codes <- tokenCodes, pc <- tokenPc, req <- tokenReq

\* What its theorems assume of its constants holds of those of the cascade.
LEMMA TokenAssumptions == TokenSide!StoresAssumption /\ TokenSide!EndpointAssumption
BY CascadeAssumption
DEF
      Token!CodeEntry, TokenSide!CodeEntry, Token!AccessEntry, TokenSide!AccessEntry,
      Token!RefreshEntry, TokenSide!RefreshEntry, Token!Kinds, TokenSide!Kinds, Token!Grant,
      TokenSide!Grant, Token!Request, TokenSide!Request, Token!StoresAssumption,
      TokenSide!StoresAssumption, Token!EndpointAssumption, TokenSide!EndpointAssumption

\* Token and TokenSide name the same actions of the same module.
LEMMA SameActions ==
  ASSUME NEW r, NEW g, NEW client, NEW scope, NEW store
  PROVE  /\ Token!Init <=> TokenSide!Init
         /\ Token!IssueCode(g, client, scope) <=> TokenSide!IssueCode(g, client, scope)
         /\ Token!Arrive(r) <=> TokenSide!Arrive(r)
         /\ Token!Serve(r) <=> TokenSide!Serve(r)
         /\ Token!Fail(r) <=> TokenSide!Fail(r)
         /\ Token!AfterRevokeByGrant(store, g) = TokenSide!AfterRevokeByGrant(store, g)
<1>3. Token!Arrive(r) <=> TokenSide!Arrive(r)
  <2>1. Token!Cardinality(Token!InFlight) = TokenSide!Cardinality(TokenSide!InFlight)
    <3>1. Token!InFlight = TokenSide!InFlight
      BY DEF Token!InFlight, TokenSide!InFlight, Token!Running, TokenSide!Running
    <3> QED BY <3>1 DEF Token!Cardinality, TokenSide!Cardinality
  <2>2. \A t : Token!Minted(t) <=> TokenSide!Minted(t)
    BY DEF Token!Minted, TokenSide!Minted
  <2> QED BY <2>1, <2>2
          DEF Token!Arrive, Token!StartCode, Token!StartRefresh, Token!StartRevokeAccess,
              Token!StartRevokeRefresh, Token!Start, Token!Goto, TokenSide!Arrive,
              TokenSide!StartCode, TokenSide!StartRefresh, TokenSide!StartRevokeAccess,
              TokenSide!StartRevokeRefresh, TokenSide!Start, TokenSide!Goto
<1> USE DEF
      Token!StoresInit, TokenSide!StoresInit, Token!Fetch, TokenSide!Fetch, Token!AfterGet,
      TokenSide!AfterGet, Token!AfterSet, TokenSide!AfterSet, Token!AfterDelete,
      TokenSide!AfterDelete, Token!Spent, TokenSide!Spent, Token!AfterConsume,
      TokenSide!AfterConsume, Token!KeysOfGrant, TokenSide!KeysOfGrant, Token!ListedOfGrant,
      TokenSide!ListedOfGrant, Token!AfterRevokeByGrant, TokenSide!AfterRevokeByGrant,
      Token!Running, TokenSide!Running, Token!Ended, TokenSide!Ended, Token!Cascading,
      TokenSide!Cascading, Token!Init, TokenSide!Init, Token!IssueCode, TokenSide!IssueCode,
      Token!At, TokenSide!At, Token!Goto, TokenSide!Goto, Token!End, TokenSide!End,
      Token!FindCode, TokenSide!FindCode, Token!ReadCode, TokenSide!ReadCode,
      Token!CodeNotFound, TokenSide!CodeNotFound, Token!CodeReplayed, TokenSide!CodeReplayed,
      Token!CodeProven, TokenSide!CodeProven, Token!CodeRejected, TokenSide!CodeRejected,
      Token!CodeAccepted, TokenSide!CodeAccepted, Token!ConsumeCode, TokenSide!ConsumeCode,
      Token!ConsumeCodeRead, TokenSide!ConsumeCodeRead, Token!ConsumeCodeWrite,
      TokenSide!ConsumeCodeWrite, Token!Recheck, TokenSide!Recheck, Token!FindRefresh,
      TokenSide!FindRefresh, Token!ReadRefresh, TokenSide!ReadRefresh, Token!RefreshNotFound,
      TokenSide!RefreshNotFound, Token!RefreshReplayed, TokenSide!RefreshReplayed,
      Token!ScopeAllowed, TokenSide!ScopeAllowed, Token!NothingAsked, TokenSide!NothingAsked,
      Token!Twins, TokenSide!Twins, Token!AccessNames, TokenSide!AccessNames, Token!Generate,
      TokenSide!Generate, Token!RefreshAllowed,
      TokenSide!RefreshAllowed, Token!RefreshRejected, TokenSide!RefreshRejected,
      Token!RefreshAccepted, TokenSide!RefreshAccepted, Token!GrantHasOfflineAccess,
      TokenSide!GrantHasOfflineAccess, Token!AfterIssuance, TokenSide!AfterIssuance,
      Token!OriginalIssuedAt, TokenSide!OriginalIssuedAt, Token!IssuedAccess,
      TokenSide!IssuedAccess, Token!StoreAccess, TokenSide!StoreAccess, Token!IssuedRefresh,
      TokenSide!IssuedRefresh, Token!StoreRefresh, TokenSide!StoreRefresh, Token!RetireRefresh,
      TokenSide!RetireRefresh, Token!RetireRefreshRead, TokenSide!RetireRefreshRead,
      Token!RetireRefreshWrite, TokenSide!RetireRefreshWrite, Token!Respond, TokenSide!Respond,
      Token!AfterAccessCascade, TokenSide!AfterAccessCascade, Token!CascadeAccess,
      TokenSide!CascadeAccess, Token!ListAccess, TokenSide!ListAccess,
      Token!DeleteListedAccess, TokenSide!DeleteListedAccess, Token!AccessDeleted,
      TokenSide!AccessDeleted, Token!CascadeRefresh, TokenSide!CascadeRefresh,
      Token!ListRefresh, TokenSide!ListRefresh, Token!DeleteListedRefresh,
      TokenSide!DeleteListedRefresh, Token!RefreshDeleted, TokenSide!RefreshDeleted,
      Token!FindAccess, TokenSide!FindAccess, Token!Verdict, TokenSide!Verdict,
      Token!RevokeAccessFind, TokenSide!RevokeAccessFind, Token!RevokeAccess,
      TokenSide!RevokeAccess, Token!RevokeRefreshFind, TokenSide!RevokeRefreshFind,
      Token!RevokeRefresh, TokenSide!RevokeRefresh, Token!SigningFails, TokenSide!SigningFails,
      Token!StoreFails, TokenSide!StoreFails, Token!ResponseLost, TokenSide!ResponseLost,
      Token!RedeemStep, TokenSide!RedeemStep, Token!RotateStep, TokenSide!RotateStep,
      Token!IssueStep, TokenSide!IssueStep, Token!CascadeStep, TokenSide!CascadeStep,
      Token!RevokeStep, TokenSide!RevokeStep, Token!Serve, TokenSide!Serve, Token!Fail,
      TokenSide!Fail
<1>1. Token!Init <=> TokenSide!Init
  OBVIOUS
<1>2. Token!IssueCode(g, client, scope) <=> TokenSide!IssueCode(g, client, scope)
  OBVIOUS
<1>4. Token!Serve(r) <=> TokenSide!Serve(r)
  OBVIOUS
<1>5. Token!Fail(r) <=> TokenSide!Fail(r)
  OBVIOUS
<1>6. Token!AfterRevokeByGrant(store, g) = TokenSide!AfterRevokeByGrant(store, g)
  OBVIOUS
<1> QED BY ONLY <1>1, <1>2, <1>3, <1>4, <1>5, <1>6

-----------------------------------------------------------------------------
(* Every step of the cascade is one of either end, or of both.             *)

\* What the front channel does is what AuthorizationFlow lets it do.
LEMMA FrontSteps == [CascadeNext]_allVars => [Next]_vars
<1> SUFFICES ASSUME CascadeNext PROVE [Next]_vars
  BY DEF allVars, vars
<1>1. CASE Clock
  BY <1>1 DEF Clock, Next
<1>2. ASSUME NEW r \in Requests, ArriveFront(r) PROVE [Next]_vars
  BY <1>2 DEF ArriveFront, Next
<1>3. ASSUME NEW r \in Requests, FrontAlone(r) \/ IssueCode(r) PROVE [Next]_vars
  <2>1. Serve(r)
    BY <1>3 DEF FrontAlone, IssueCode, Serve, CodeStep, WithdrawStep
  <2> QED BY <2>1 DEF Next
<1>4. ASSUME NEW r \in Requests, NEW g \in Requests, RevokeAccessOf(r, g) PROVE [Next]_vars
  BY <1>4 DEF RevokeAccessOf, vars
<1>5. ASSUME NEW r \in Requests, NEW g \in Requests, RevokeRefreshOf(r, g) PROVE [Next]_vars
  BY <1>5 DEF RevokeRefreshOf, Next, Serve, WithdrawStep
<1>6. ASSUME NEW r \in TokenRequests, ArriveToken(r) \/ ServeToken(r) \/ FailToken(r)
      PROVE  [Next]_vars
  BY <1>6 DEF ArriveToken, ServeToken, FailToken, vars
<1> QED BY <1>1, <1>2, <1>3, <1>4, <1>5, <1>6 DEF CascadeNext, ServeFront

\* The revocation of a grant's access tokens, or of its refresh tokens.
TakesAccess(g) ==
  /\ access' = TokenSide!AfterRevokeByGrant(access, g)
  /\ UNCHANGED <<now, tokenCodes, refresh, tokenPc, tokenReq, granted>>

TakesRefresh(g) ==
  /\ refresh' = TokenSide!AfterRevokeByGrant(refresh, g)
  /\ UNCHANGED <<now, tokenCodes, access, tokenPc, tokenReq, granted>>

\* Time passes by itself.
LEMMA ServedInNoTime ==
  ASSUME NEW r \in Requests, Arrive(r) \/ Serve(r)
  PROVE  UNCHANGED now
<1>1. CASE Arrive(r)
  BY <1>1 DEF Arrive, Authorize, StartLogin, StartConsent, StartWithdraw
<1>2. CASE AuthorizeStep(r) \/ FormStep(r)
  BY <1>2 DEF AuthorizeStep, ResolveSession, CheckConsent, HandOff,
              FormStep, FormAccepted, FormRejected, ConsentSession, Drop
<1>3. CASE LoginStep(r)
  BY <1>3 DEF LoginStep, LoginFails, LoginSucceeds, ClearHandoff, ClearSession, SetHandoff,
              SetSession, LoginResponds
<1>4. CASE CodeStep(r)
  BY <1>4 DEF CodeStep, Complete, Issue, RecordConsent, RecordGrant, ReadConsent, PutConsent,
              PutGrant, Clear
<1>5. CASE WithdrawStep(r)
  BY <1>5 DEF WithdrawStep, Withdraw, Detach, Withdrawn, RevokeGrant
<1> QED BY <1>1, <1>2, <1>3, <1>4, <1>5 DEF Serve

\* A code is issued for a client that is registered and a scope that exists.
LEMMA IssuedFor ==
  ASSUME Typed, NEW r \in Requests, pc[r] = "issue"
  PROVE  /\ Asked(r) \in Params /\ Asked(r).client \in Clients
         /\ GrantedScope(Asked(r)) \ {OpenId} \in SUBSET (Scopes \ {OpenId})
<1>1. /\ req[r] # Absent /\ req[r] \in Request
      /\ req[r].kind # "withdraw"
  BY DEF Typed, TypeOK, Control, Knows, KindAt
<1>2. Asked(r) \in Params
  BY <1>1 DEF Typed, TypeOK, Control, Asked, Request
<1>3. Asked(r).client \in Clients /\ Asked(r).scope \in SUBSET Scopes
  BY <1>2 DEF Params
<1> QED BY <1>2, <1>3 DEF GrantedScope

\* What is done in the token-side stores is what the token endpoint lets be done
\* there, or the revocation of a grant.
LEMMA TokenSteps ==
  ASSUME Typed, [CascadeNext]_allVars
  PROVE  \/ [TokenSide!Next]_(TokenSide!vars)
         \/ \E g \in Requests : TakesAccess(g) \/ TakesRefresh(g)
<1> DEFINE Goal == \/ [TokenSide!Next]_(TokenSide!vars)
                   \/ \E g \in Requests : TakesAccess(g) \/ TakesRefresh(g)
<1> SUFFICES Goal
  OBVIOUS
<1>0. CASE UNCHANGED <<now, tokenVars>>
  BY <1>0 DEF tokenVars, TokenSide!vars
<1>1. CASE UNCHANGED allVars
  BY <1>1 DEF allVars, vars, tokenVars, TokenSide!vars
<1>2. CASE Clock
  BY <1>2 DEF Clock, Tick, tokenVars, TokenSide!Next, TokenSide!Clock, TokenSide!Tick
<1>3. ASSUME NEW r \in Requests, IssueCode(r) PROVE Goal
  <2>1. TokenSide!IssueCode(r, Asked(r).client, GrantedScope(Asked(r)) \ {OpenId})
    BY <1>3, SameActions DEF IssueCode
  <2>2. pc[r] = "issue"
    BY <1>3 DEF IssueCode, Issue
  <2> QED BY <2>1, <2>2, IssuedFor DEF TokenSide!Next
<1>4. ASSUME NEW r \in Requests, NEW g \in Requests, RevokeAccessOf(r, g) PROVE Goal
  BY <1>4, SameActions DEF RevokeAccessOf, TakesAccess, vars
<1>5. ASSUME NEW r \in Requests, NEW g \in Requests, RevokeRefreshOf(r, g) PROVE Goal
  BY <1>5, SameActions DEF RevokeRefreshOf, RevokeGrant, TakesRefresh
<1>6. ASSUME NEW r \in TokenRequests, ArriveToken(r) \/ ServeToken(r) \/ FailToken(r)
      PROVE  Goal
  <2>1. TokenSide!Arrive(r) \/ TokenSide!Serve(r) \/ TokenSide!Fail(r)
    BY <1>6, SameActions DEF ArriveToken, ServeToken, FailToken
  <2> QED BY <2>1 DEF TokenSide!Next
<1>7. ASSUME NEW r \in Requests, ArriveFront(r) \/ FrontAlone(r) PROVE Goal
  <2>1. Arrive(r) \/ Serve(r)
    BY <1>7 DEF ArriveFront, FrontAlone, Serve, CodeStep, WithdrawStep
  <2>2. UNCHANGED tokenVars
    BY <1>7 DEF ArriveFront, FrontAlone
  <2> QED BY <1>0, <2>1, <2>2, ServedInNoTime
<1> HIDE DEF Goal
<1> QED BY <1>1, <1>2, <1>3, <1>4, <1>5, <1>6, <1>7 DEF CascadeNext, ServeFront

-----------------------------------------------------------------------------
(* Codes and tokens keep to their life cycle.                              *)

\* A withdrawal only removes tokens.
LEMMA TakingIsGoing ==
  ASSUME TokenSide!Typed, NEW g \in Requests, TakesAccess(g) \/ TakesRefresh(g)
  PROVE  TokenSide!TokensGo
<1>1. /\ access \in [TokenRequests -> TokenSide!AccessEntry \cup {Absent}]
      /\ refresh \in [TokenRequests -> TokenSide!RefreshEntry \cup {Absent}]
  BY DEF TokenSide!Typed, TokenSide!TypeOK, TokenSide!StoresTypeOK
<1> QED BY <1>1 DEF TakesAccess, TakesRefresh, TokenSide!TokensGo,
                    TokenSide!AfterRevokeByGrant, TokenSide!KeysOfGrant

\* What is stored at the token endpoint, and what its requests have read, is safe
\* and can be traced to where it comes from.
TokensSafe == TokenSide!Typed /\ TokenSide!Safe /\ TokenSide!Lineage

\* No step of either end makes it unsafe.
LEMMA TokensSafeKept ==
  ASSUME Typed, TokensSafe, [CascadeNext]_allVars
  PROVE  TokensSafe'
<1> USE TokenAssumptions DEF TokensSafe
<1>1. CASE [TokenSide!Next]_(TokenSide!vars)
  BY <1>1, TokenSide!NextSafe, TokenSide!NextLineage
<1>2. ASSUME NEW g \in Requests, TakesAccess(g) \/ TakesRefresh(g) PROVE TokensSafe'
  BY <1>2, TakingIsGoing, TokenSide!GoingIsSafe
<1> QED BY <1>1, <1>2, TokenSteps

\* The front channel is typed, and the token endpoint safe, throughout.
LEMMA AlwaysSafe == CascadeSpec => [](Typed /\ TokensSafe)
<1>1. CascadeInit => Typed /\ TokensSafe
  BY InitTyped, TokenAssumptions, SameActions, TokenSide!InitTyped, TokenSide!InitSafe,
     TokenSide!InitLineage
  DEF CascadeInit, TokensSafe
<1>2. Typed /\ TokensSafe /\ [CascadeNext]_allVars => (Typed /\ TokensSafe)'
  BY FrontSteps, NextTyped, TokensSafeKept
<1> QED BY <1>1, <1>2, PTL DEF CascadeSpec

\* Token and TokenSide map the endpoint to its life cycle in the same way.
LEMMA SameLifecycle ==
  /\ Token!AbstractCode = TokenSide!AbstractCode
  /\ Token!AbstractLife = TokenSide!AbstractLife
  /\ Token!AbstractParent = TokenSide!AbstractParent
  /\ Token!AbstractCode' = TokenSide!AbstractCode'
  /\ Token!AbstractLife' = TokenSide!AbstractLife'
  /\ Token!AbstractParent' = TokenSide!AbstractParent'
  /\ Token!TokenNames = TokenSide!TokenNames
  /\ Token!RenewableNames = TokenSide!RenewableNames
BY DEF Token!AbstractCode, TokenSide!AbstractCode, Token!AbstractLife, TokenSide!AbstractLife,
       Token!AbstractParent, TokenSide!AbstractParent, Token!TokenNames, TokenSide!TokenNames,
       Token!Closed, TokenSide!Closed, Token!Alive, TokenSide!Alive, Token!Active,
       TokenSide!Active, Token!Usable, TokenSide!Usable, Token!Fetch, TokenSide!Fetch,
       Token!ToCome, TokenSide!ToCome, Token!Unmade, TokenSide!Unmade,
       Token!RenewableNames, TokenSide!RenewableNames

\* With withdrawals revoking tokens from outside the token endpoint, codes and
\* tokens still keep to the abstract life cycle.
THEOREM CascadeImplementsLifecycle == CascadeSpec => ImplementsLifecycle
<1> USE TokenAssumptions
<1>s. /\ Token!Lifecycle!Init <=> TokenSide!Lifecycle!Init
      /\ Token!Lifecycle!Next <=> TokenSide!Lifecycle!Next
  BY SameLifecycle
  DEF Token!Lifecycle!Init, TokenSide!Lifecycle!Init, Token!Lifecycle!Next,
      TokenSide!Lifecycle!Next, Token!Lifecycle!CodeMoves, TokenSide!Lifecycle!CodeMoves,
      Token!Lifecycle!TokenStays, TokenSide!Lifecycle!TokenStays,
      Token!Lifecycle!TokenIsBorn, TokenSide!Lifecycle!TokenIsBorn,
      Token!Lifecycle!TokenGoes, TokenSide!Lifecycle!TokenGoes,
      Token!Lifecycle!TokenDies, TokenSide!Lifecycle!TokenDies
<1>1. CascadeInit => Token!Lifecycle!Init
  BY <1>s, SameActions, TokenSide!LifecycleInit DEF CascadeInit
<1>2. Typed /\ TokensSafe /\ [CascadeNext]_allVars => Token!Lifecycle!Next
  <2> SUFFICES ASSUME Typed, TokensSafe, [CascadeNext]_allVars
               PROVE  TokenSide!Lifecycle!Next
    BY <1>s
  <2> USE DEF TokensSafe
  <2>1. CASE [TokenSide!Next]_(TokenSide!vars)
    BY <2>1, TokenSide!LifecycleStep
  <2>2. ASSUME NEW g \in Requests, TakesAccess(g) \/ TakesRefresh(g)
        PROVE  TokenSide!Lifecycle!Next
    BY <2>2, TakingIsGoing, TokenSide!GoingIsAStep
  <2> QED BY <2>1, <2>2, TokenSteps
<1>3. Typed /\ TokensSafe /\ [CascadeNext]_allVars
        => [Token!Lifecycle!Next]_<<Token!AbstractCode, Token!AbstractLife, Token!AbstractParent>>
  BY <1>2
<1> QED BY <1>1, <1>3, AlwaysSafe, PTL
        DEF CascadeSpec, ImplementsLifecycle, Token!ImplementsLifecycle, Token!Lifecycle!Spec
-----------------------------------------------------------------------------
(* From a token back to the consent form.                                  *)

\* The front channel alone behaves as AuthorizationFlow specifies.
LEMMA FrontIsFlow == CascadeSpec => Spec
<1>1. CascadeInit => Init
  BY DEF CascadeInit
<1> QED BY <1>1, FrontSteps, PTL DEF CascadeSpec, Spec

\* What the token endpoint is told of a code when it is issued.
GrantOf(g) ==
  [client |-> Asked(g).client, scope |-> GrantedScope(Asked(g)) \ {OpenId},
   expiresAt |-> now + CodeLifetime]

\* A grant is recorded by the request that issues its code, and by no other.
LEMMA GrantsByStep ==
  ASSUME Typed, TokensSafe, [CascadeNext]_allVars, NEW g \in Requests
  PROVE  \/ granted'[g] = granted[g]
         \/ Issue(g) /\ granted'[g] = GrantOf(g)
<1>t. granted \in [Requests -> TokenSide!Grant \cup {Absent}]
  BY DEF TokensSafe, TokenSide!Typed, TokenSide!TypeOK
<1>1. CASE UNCHANGED granted
  BY <1>1
<1>2. ASSUME NEW r \in Requests, IssueCode(r)
      PROVE  \/ granted'[g] = granted[g]
             \/ Issue(g) /\ granted'[g] = GrantOf(g)
  <2>1. TokenSide!IssueCode(r, Asked(r).client, GrantedScope(Asked(r)) \ {OpenId})
    BY <1>2, SameActions DEF IssueCode
  <2>2. granted' = [granted EXCEPT ![r] = GrantOf(r)]
    BY <2>1 DEF TokenSide!IssueCode, GrantOf
  <2> QED BY <1>2, <2>2, <1>t DEF IssueCode
<1>3. ASSUME NEW r \in Requests, ArriveFront(r) \/ ServeFront(r), ~IssueCode(r)
      PROVE  UNCHANGED granted
  BY <1>3 DEF ArriveFront, ServeFront, FrontAlone, RevokeAccessOf, RevokeRefreshOf, tokenVars
<1>4. ASSUME NEW r \in TokenRequests, ArriveToken(r) \/ ServeToken(r) \/ FailToken(r)
      PROVE  UNCHANGED granted
  BY <1>4, SameActions, TokenAssumptions, TokenSide!RequestsGrantNothing
  DEF ArriveToken, ServeToken, FailToken
<1>5. CASE Clock \/ UNCHANGED allVars
  BY <1>5, <1>1 DEF Clock, allVars, tokenVars
<1> QED BY <1>1, <1>2, <1>3, <1>4, <1>5 DEF CascadeNext

\* What the token endpoint knows of a grant is what its code says.
GrantsTraced ==
  \A g \in Requests :
    granted[g] # Absent =>
      /\ codes[g] # Absent
      /\ req[g].kind \in {"authorize", "consent"}
      /\ granted[g].client = asked[codes[g].txn].client
      /\ granted[g].scope \subseteq codes[g].scope

\* It stays so: neither end ever writes over a code.
LEMMA GrantsTracedKept ==
  ASSUME Typed, Freshness, Consented, TokensSafe, GrantsTraced, [CascadeNext]_allVars
  PROVE  GrantsTraced'
<1>n. [Next]_vars
  BY FrontSteps
<1> SUFFICES ASSUME NEW g \in Requests, granted'[g] # Absent
             PROVE  /\ codes'[g] # Absent
                    /\ req'[g].kind \in {"authorize", "consent"}
                    /\ granted'[g].client = asked'[codes'[g].txn].client
                    /\ granted'[g].scope \subseteq codes'[g].scope
  BY DEF GrantsTraced
<1>1. CASE granted'[g] = granted[g]
  <2>1. /\ codes[g] # Absent /\ req[g].kind \in {"authorize", "consent"}
        /\ granted[g].client = asked[codes[g].txn].client
        /\ granted[g].scope \subseteq codes[g].scope
    BY <1>1 DEF GrantsTraced
  <2>2. codes'[g] = codes[g] /\ req'[g].kind = req[g].kind
    BY <1>n, <2>1, CodesLast DEF Consented
  <2>3. codes[g] \in Code
    BY <2>1 DEF Typed, TypeOK
  <2>4. asked'[codes[g].txn] = asked[codes[g].txn]
    BY <1>n, <2>3, AskedByStep DEF Freshness, CodesFresh, Code
  <2> QED BY <1>1, <2>1, <2>2, <2>4
<1>2. CASE Issue(g) /\ granted'[g] = GrantOf(g)
  <2>1. /\ codes \in [Requests -> Code \cup {Absent}]
        /\ req \in [Requests -> Request \cup {Absent}]
        /\ codes' \in [Requests -> Code \cup {Absent}] /\ Absent \notin Code
    BY <1>n, CodesByStep, FlowAssumption DEF Typed, TypeOK
  <2>2. /\ codes'[g] = CodeOf(g) /\ UNCHANGED <<req, asked>> /\ pc[g] = "issue"
    BY <1>2, <2>1 DEF Issue, CodeOf
  <2>3. req[g].kind \in {"authorize", "consent"}
    BY <2>2, StandsAt DEF Running, Knows, KindAt
  <2>4. CodeOf(g).txn = req[g].txn /\ CodeOf(g).scope = GrantedScope(Asked(g))
    BY DEF CodeOf
  <2>5. codes'[g] # Absent
    <3>1. req[g].session \in Session /\ req[g].txn \in Requests
      BY <2>2, StandsAt DEF Running, Knows, Answering, Request
    <3>2. CodeOf(g) \in Code
      BY <3>1, <2>2, IssuedFor DEF CodeOf, Code, Session, Params, GrantedScope
    <3> QED BY <2>1, <2>2, <3>2
  <2> QED BY <1>2, <2>2, <2>3, <2>4, <2>5 DEF GrantOf, Asked
<1> QED BY <1>1, <1>2, GrantsByStep

\* A token is one client's, and each of its scopes was approved for that client by
\* the subject of its grant, the codes issued in silence included.
THEOREM TokensDoTraceToConsent == CascadeSpec => []TokensTraceToConsent
<1>1. CascadeInit => GrantsTraced
  BY SameActions DEF CascadeInit, GrantsTraced, TokenSide!Init
<1>2. Typed /\ Freshness /\ Consented /\ TokensSafe /\ GrantsTraced /\ [CascadeNext]_allVars
        => GrantsTraced'
  BY GrantsTracedKept
<1>3. TokensSafe /\ GrantsTraced /\ SilenceHasConsent => TokensTraceToConsent
  <2> SUFFICES ASSUME TokensSafe, GrantsTraced, SilenceHasConsent,
                      NEW t \in TokenRequests, NEW entry \in {access[t], refresh[t]} \ {Absent}
               PROVE  /\ codes[entry.grant] # Absent
                      /\ entry.client = asked[codes[entry.grant].txn].client
                      /\ \A scope \in entry.scope :
                           \E q \in Requests :
                             /\ Approved(q, codes[entry.grant].subject, entry.client)
                             /\ scope \in codes[q].scope
    BY DEF TokensTraceToConsent
  <2>1. \/ entry = access[t] /\ entry \in TokenSide!AccessEntry
        \/ entry = refresh[t] /\ entry \in TokenSide!RefreshEntry
    BY DEF TokensSafe, TokenSide!Typed, TokenSide!TypeOK, TokenSide!StoresTypeOK
  <2>2. entry.grant \in Requests /\ TokenSide!Within(entry)
    <3>1. CASE entry = access[t] /\ entry \in TokenSide!AccessEntry
      BY <3>1 DEF TokensSafe, TokenSide!Safe, TokenSide!AccessSafe, TokenSide!AccessEntry
    <3>2. CASE entry = refresh[t] /\ entry \in TokenSide!RefreshEntry
      BY <3>2 DEF TokensSafe, TokenSide!Safe, TokenSide!RefreshSafe, TokenSide!RefreshEntry
    <3> QED BY <2>1, <3>1, <3>2
  <2> DEFINE g == entry.grant
  <2>3. /\ granted[g] # Absent /\ entry.client = granted[g].client
        /\ entry.scope \subseteq granted[g].scope
    BY <2>2 DEF TokenSide!Within
  <2>4. /\ codes[g] # Absent /\ req[g].kind \in {"authorize", "consent"}
        /\ entry.client = asked[codes[g].txn].client
        /\ entry.scope \subseteq codes[g].scope
    BY <2>2, <2>3 DEF GrantsTraced
  <2>5. CASE req[g].kind = "authorize"
    BY <2>2, <2>4, <2>5 DEF SilenceHasConsent
  <2>6. CASE req[g].kind = "consent"
    BY <2>2, <2>4, <2>6 DEF Approved
  <2> QED BY <2>4, <2>5, <2>6
<1> QED BY <1>1, <1>2, <1>3, FrontIsFlow, AlwaysTyped, AlwaysFresh, AlwaysConsented,
           NothingSilentWithoutConsent, AlwaysSafe, PTL DEF CascadeSpec

-----------------------------------------------------------------------------
(* A grant is in one place: under the consent it was recorded in, on the   *)
(* list of the withdrawal that took it from there, or revoked.             *)

\* Where a request that has recorded its grant can be.
Filed == {"clear"} \cup Ended

DoomedBy(q, g) == req[q] # Absent /\ g \in req[q].doomed

OnePlace ==
  \A g \in Requests :
    /\ g \in revoked => pc[g] \in Filed
    /\ \A q \in Requests : DoomedBy(q, g) => pc[g] \in Filed /\ g \notin revoked
    /\ \A p, q \in Requests : DoomedBy(p, g) /\ DoomedBy(q, g) => p = q
    /\ \A k \in Users \X Clients :
         g \in consents[k].grants =>
           /\ pc[g] \in Filed /\ g \notin revoked
           /\ \A q \in Requests : ~DoomedBy(q, g)
    /\ \A k, l \in Users \X Clients :
         g \in consents[k].grants /\ g \in consents[l].grants => k = l

\* A request records its grant once.
LEMMA FiledLasts ==
  ASSUME Typed, [Next]_vars, NEW g \in Requests, pc[g] \in Filed
  PROVE  pc'[g] \in Filed
<1>1. ~Opens(g) /\ ~Joins(g)
  BY Opened DEF Joins, Filed, Ended
<1>2. CASE Serve(g) \/ Fail(g)
  <2>1. pc[g] = "clear"
    BY <1>2, ServeSteps DEF Steps, Filed, Running, Ended
  <2>2. pc'[g] \in Coded /\ Answers(g)
    BY <1>2, <2>1, AnswersByStep DEF Coded
  <2>3. pc'[g] \notin Late
    BY <2>1, <2>2
    DEF Answers, SilentSession, SignOnSession, CheckConsent, Complete, Issue, RecordConsent,
        PutConsent, ReadConsent, At
  <2> QED BY <2>2, <2>3 DEF Coded, Filed, Ended
<1> QED BY <1>1, <1>2, MovesByStep

\* A withdrawal's list is taken from the consent, and shrinks as it is revoked.
LEMMA DoomedByStep ==
  ASSUME Typed, NoCopies, [Next]_vars, NEW q \in Requests, NEW g \in Requests, DoomedBy(q, g)'
  PROVE  \/ DoomedBy(q, g) /\ ~RevokeGrant(q, g)
         \/ Withdraw(q) /\ g \in consents[ConsentKey(q)].grants
<1> DEFINE Goal == \/ DoomedBy(q, g) /\ ~RevokeGrant(q, g)
                   \/ Withdraw(q) /\ g \in consents[ConsentKey(q)].grants
<1> SUFFICES Goal
  OBVIOUS
<1>t. /\ pc \in [Requests -> Running \cup Ended \cup {"idle"}]
      /\ req \in [Requests -> Request \cup {Absent}]
      /\ Absent \notin Request
      /\ pc[q] = "idle" <=> req[q] = Absent
  BY FlowAssumption DEF Typed, TypeOK, Control
<1>r. ~RevokeGrant(q, g)
  <2> SUFFICES ASSUME RevokeGrant(q, g) PROVE FALSE
    OBVIOUS
  <2>1. req' = [req EXCEPT ![q] = [req[q] EXCEPT !.doomed = req[q].doomed \ {g}]]
    BY DEF RevokeGrant
  <2>2. req[q] \in Request
    BY StandsAt DEF RevokeGrant, Running
  <2>3. req'[q].doomed = req[q].doomed \ {g}
    BY <1>t, <2>1, <2>2 DEF Request
  <2> QED BY <2>3 DEF DoomedBy
<1>1. CASE req'[q] = req[q]
  BY <1>1, <1>r DEF DoomedBy
<1>2. ASSUME NEW e, req[q] # Absent, req' = [req EXCEPT ![q] = e], e.doomed \subseteq req[q].doomed
      PROVE  Goal
  BY <1>2, <1>r, <1>t DEF DoomedBy
<1>3. CASE Arrive(q)
  <2>1. ASSUME NEW kind, NEW txn, NEW allow \in BOOLEAN, NEW user, NEW client, NEW label,
               Start(q, kind, txn, allow, user, client, label)
        PROVE  FALSE
    BY <2>1, <1>t DEF Start, DoomedBy
  <2>2. ASSUME NEW client \in Clients, NEW scope, NEW prompt, NEW maxAge, NEW hint
        PROVE  ~Authorize(q, client, scope, prompt, maxAge, hint)
    BY <2>1 DEF Authorize
  <2>3. \A t \in Requests : ~StartLogin(q, t)
    BY <2>1 DEF StartLogin
  <2>4. \A t \in Requests, allow \in BOOLEAN : ~StartConsent(q, t, allow)
    BY <2>1 DEF StartConsent
  <2>5. \A user \in Users, client \in Clients : ~StartWithdraw(q, user, client)
    BY <2>1 DEF StartWithdraw
  <2> QED BY <1>3, <2>2, <2>3, <2>4, <2>5 DEF Arrive
<1>4. CASE Serve(q) \/ Fail(q)
  <2>t. req[q] \in Request /\ req[q] # Absent
    BY <1>4, ServeSteps, StandsAt, <1>t DEF Steps
  <2>1. CASE UNCHANGED req
    BY <1>1, <2>1
  <2>2. ASSUME NEW s, req' = [req EXCEPT ![q].session = s] PROVE Goal
    BY <1>2, <2>2, <2>t DEF Request
  <2>3. ASSUME NEW s, req' = [req EXCEPT ![q].user = s] PROVE Goal
    BY <1>2, <2>3, <2>t DEF Request
  <2>4. ASSUME NEW s, req' = [req EXCEPT ![q].attempts = s] PROVE Goal
    BY <1>2, <2>4, <2>t DEF Request
  <2>5. ASSUME NEW s, req' = [req EXCEPT ![q].entry = s] PROVE Goal
    BY <1>2, <2>5, <2>t DEF Request
  <2>6. ASSUME NEW h \in Requests, RevokeGrant(q, h) PROVE Goal
    BY <1>2, <2>6, <2>t DEF RevokeGrant, Request
  <2>7. CASE Withdraw(q)
    <3>1. req' = [req EXCEPT ![q] = [req[q] EXCEPT !.doomed = consents[ConsentKey(q)].grants]]
      BY <2>7 DEF Withdraw
    <3>2. req'[q].doomed = consents[ConsentKey(q)].grants
      BY <3>1, <2>t, <1>t DEF Request
    <3> QED BY <2>7, <3>2 DEF DoomedBy
  <2>8. ~Detach(q)
    BY DEF NoCopies, Detach, At
  <2> HIDE DEF Goal
  <2>9. CASE AuthorizeStep(q)
    <3>1. UNCHANGED req \/ \E s : req' = [req EXCEPT ![q].session = s]
      BY <2>9 DEF AuthorizeStep, ResolveSession, NoSession, HintRejected, SilentSession,
                  SignOnSession, CheckConsent, HandOff
    <3> QED BY <2>1, <2>2, <3>1
  <2>10. CASE LoginStep(q)
    <3>1. \/ UNCHANGED req
          \/ \E s : req' = [req EXCEPT ![q].session = s] \/ req' = [req EXCEPT ![q].user = s]
      BY <2>10 DEF LoginStep, LoginFails, LoginSucceeds, ClearHandoff, ClearSession,
                   SetHandoff, SetSession, LoginResponds
    <3> QED BY <2>1, <2>2, <2>3, <3>1
  <2>11. CASE FormStep(q)
    <3>1. \/ UNCHANGED req
          \/ \E s : req' = [req EXCEPT ![q].session = s] \/ req' = [req EXCEPT ![q].attempts = s]
      BY <2>11 DEF FormStep, FormAccepted, FormRejected, ConsentSession, Drop
    <3> QED BY <2>1, <2>2, <2>4, <3>1
  <2>12. CASE CodeStep(q)
    <3>1. UNCHANGED req \/ \E s : req' = [req EXCEPT ![q].entry = s]
      BY <2>12 DEF CodeStep, Complete, Issue, RecordConsent, RecordGrant, ReadConsent,
                   PutConsent, PutGrant, Clear
    <3> QED BY <2>1, <2>5, <3>1
  <2>13. CASE WithdrawStep(q) \/ Fail(q)
    <3>1. \/ UNCHANGED req \/ Withdraw(q) \/ Detach(q)
          \/ \E h \in Requests : RevokeGrant(q, h)
      BY <2>13 DEF WithdrawStep, Withdrawn, Fail, StoreFails, CookieLost
    <3> QED BY <2>1, <2>6, <2>7, <2>8, <3>1
  <2> QED BY <1>4, <2>9, <2>10, <2>11, <2>12, <2>13 DEF Serve
<1> HIDE DEF Goal
<1>5. ASSUME NEW r \in Requests, Arrive(r) \/ Serve(r) \/ Fail(r), r # q PROVE Goal
  <2>1. req' = [req EXCEPT ![r] = req'[r]]
    BY <1>5, ServeSteps, Arrived, Opened DEF Steps, Joins
  <2> QED BY <1>1, <1>5, <2>1, <1>t
<1> QED BY <1>1, <1>3, <1>4, <1>5 DEF Next, Tick, vars

\* A grant is filed under a consent by the request that issued it.
LEMMA FiledByStep ==
  ASSUME Typed, NoCopies, [Next]_vars, NEW g \in Requests, NEW k \in Users \X Clients,
         g \in consents'[k].grants
  PROVE  \/ g \in consents[k].grants /\ \A q \in Requests : Withdraw(q) => k # ConsentKey(q)
         \/ RecordGrant(g) /\ k = ConsentKey(g)
<1>t. consents \in [Users \X Clients -> Consent]
  BY DEF Typed, TypeOK
<1>1. \A q \in Requests : Withdraw(q) => k # ConsentKey(q)
  <2> SUFFICES ASSUME NEW q \in Requests, Withdraw(q), k = ConsentKey(q) PROVE FALSE
    OBVIOUS
  <2>1. consents'[k] = NoConsent
    BY <1>t DEF Withdraw
  <2> QED BY <2>1 DEF NoConsent
<1>2. \A q \in Requests : ~Detach(q) /\ ~PutConsent(q) /\ ~PutGrant(q)
  BY DEF NoCopies, Detach, PutConsent, PutGrant, At
<1>3. CASE consents'[k] = consents[k]
  BY <1>1, <1>3
<1>4. ASSUME NEW q \in Requests, ConsentKey(q) = k, Withdraw(q) PROVE FALSE
  BY <1>1, <1>4
<1>5. ASSUME NEW q \in Requests, consents'[k] = WithScopes(consents[k], GrantedScope(Asked(q)))
      PROVE  g \in consents[k].grants
  BY <1>5, <1>t DEF WithScopes, Consent
<1>6. ASSUME NEW q \in Requests, consents'[k] = WithGrant(consents[k], q)
      PROVE  g \in consents[k].grants \/ g = q
  BY <1>6, <1>t DEF WithGrant, Consent
<1> QED BY <1>1, <1>2, <1>3, <1>4, <1>5, <1>6, ConsentsByStep

\* No step puts a grant in two places.
LEMMA OnePlaceKept ==
  ASSUME Typed, NoCopies, OnePlace, [Next]_vars
  PROVE  OnePlace'
<1>t. /\ pc \in [Requests -> Running \cup Ended \cup {"idle"}]
      /\ req \in [Requests -> Request \cup {Absent}]
      /\ consents \in [Users \X Clients -> Consent]
  BY DEF Typed, TypeOK
<1>1. ASSUME NEW q \in Requests, NEW g \in Requests, RevokeGrant(q, g)
      PROVE  DoomedBy(q, g) /\ UNCHANGED consents
  BY <1>1, <1>t DEF RevokeGrant, DoomedBy, Typed, Control
<1>2. ASSUME NEW g \in Requests, g \in revoked', g \notin revoked
      PROVE  \E q \in Requests : RevokeGrant(q, g)
  BY <1>2, WritesByStep DEF Writes, RevokeGrant
<1>3. ASSUME NEW q \in Requests, Withdraw(q)
      PROVE  UNCHANGED revoked /\ ConsentKey(q) \in Users \X Clients
  BY <1>3, ConsentHas DEF Withdraw, At
<1>4. ASSUME NEW p \in Requests, NEW q \in Requests, Withdraw(p), Withdraw(q) PROVE p = q
  BY <1>4, <1>t DEF Withdraw, At, Goto
<1>5. ASSUME NEW g \in Requests, RecordGrant(g)
      PROVE  pc[g] \notin Filed /\ pc'[g] \in Filed /\ UNCHANGED <<req, revoked>>
  BY <1>5, <1>t DEF RecordGrant, AfterRecord, Goto, Filed, Ended
<1> SUFFICES ASSUME NEW g \in Requests
             PROVE  /\ g \in revoked' => pc'[g] \in Filed
                    /\ \A q \in Requests :
                         DoomedBy(q, g)' => pc'[g] \in Filed /\ g \notin revoked'
                    /\ \A p, q \in Requests : DoomedBy(p, g)' /\ DoomedBy(q, g)' => p = q
                    /\ \A k \in Users \X Clients :
                         g \in consents'[k].grants =>
                           /\ pc'[g] \in Filed /\ g \notin revoked'
                           /\ \A q \in Requests : ~DoomedBy(q, g)'
                    /\ \A k, l \in Users \X Clients :
                         g \in consents'[k].grants /\ g \in consents'[l].grants => k = l
  BY DEF OnePlace, DoomedBy
<1> USE DEF OnePlace
<1>6. g \in revoked' => pc'[g] \in Filed
  BY <1>1, <1>2, FiledLasts
<1>7. ASSUME NEW q \in Requests, DoomedBy(q, g)' PROVE pc'[g] \in Filed /\ g \notin revoked'
  <2>1. CASE DoomedBy(q, g) /\ ~RevokeGrant(q, g)
    BY <1>1, <1>2, <2>1, FiledLasts
  <2>2. CASE Withdraw(q) /\ g \in consents[ConsentKey(q)].grants
    BY <1>3, <2>2, FiledLasts
  <2> QED BY <1>7, <2>1, <2>2, DoomedByStep
<1>8. ASSUME NEW p \in Requests, NEW q \in Requests, DoomedBy(p, g)', DoomedBy(q, g)'
      PROVE  p = q
  <2>1. \/ DoomedBy(p, g)
        \/ Withdraw(p) /\ g \in consents[ConsentKey(p)].grants
    BY <1>8, DoomedByStep
  <2>2. \/ DoomedBy(q, g)
        \/ Withdraw(q) /\ g \in consents[ConsentKey(q)].grants
    BY <1>8, DoomedByStep
  <2> QED BY <1>3, <1>4, <2>1, <2>2
<1>9. ASSUME NEW k \in Users \X Clients, g \in consents'[k].grants
      PROVE  /\ pc'[g] \in Filed /\ g \notin revoked'
             /\ \A q \in Requests : ~DoomedBy(q, g)'
  <2>1. CASE g \in consents[k].grants /\ \A q \in Requests : Withdraw(q) => k # ConsentKey(q)
    <3>1. pc'[g] \in Filed /\ g \notin revoked'
      BY <1>1, <1>2, <2>1, FiledLasts
    <3>2. ASSUME NEW q \in Requests, DoomedBy(q, g)' PROVE FALSE
      BY <1>3, <2>1, <3>2, DoomedByStep
    <3> QED BY <3>1, <3>2
  <2>2. CASE RecordGrant(g) /\ k = ConsentKey(g)
    <3>1. pc'[g] \in Filed /\ g \notin revoked'
      BY <1>5, <2>2
    <3>2. ASSUME NEW q \in Requests, DoomedBy(q, g)' PROVE FALSE
      BY <1>5, <2>2, <3>2 DEF DoomedBy
    <3> QED BY <3>1, <3>2
  <2> QED BY <1>9, <2>1, <2>2, FiledByStep
<1>10. ASSUME NEW k \in Users \X Clients, NEW l \in Users \X Clients,
              g \in consents'[k].grants, g \in consents'[l].grants
       PROVE  k = l
  BY <1>5, <1>10, FiledByStep
<1> QED BY <1>6, <1>7, <1>8, <1>9, <1>10

\* Each grant is in one place throughout.
LEMMA AlwaysOnePlace == Spec => [](NoCopies /\ OnePlace)
<1>a. AtomicStore
  BY CascadeAssumption
<1>1. Init => NoCopies /\ OnePlace
  BY DEF Init, NoCopies, OnePlace, DoomedBy, NoConsent
<1>2. Typed /\ NoCopies /\ OnePlace /\ [Next]_vars => (NoCopies /\ OnePlace)'
  BY <1>a, NoCopiesKept, OnePlaceKept
<1> QED BY <1>1, <1>2, AlwaysTyped, PTL DEF Spec

-----------------------------------------------------------------------------
(* A withdrawal that meets no request takes a grant back for good.         *)

\* A withdrawal between the two halves of a grant still has the grant on its list.
MidwayDoomed ==
  \A q \in Requests :
    midway[q] # Absent =>
      midway[q] \in Requests /\ pc[q] = "cascade" /\ DoomedBy(q, midway[q])

\* A request that revokes does nothing else as long as there is something on its list.
LEMMA DoomedStays ==
  ASSUME Typed, NEW q \in Requests, NEW g \in Requests, pc[q] = "cascade", DoomedBy(q, g),
         NEW r \in Requests, ArriveFront(r) \/ FrontAlone(r) \/ IssueCode(r)
  PROVE  pc'[q] = "cascade" /\ DoomedBy(q, g)'
<1>t. /\ pc \in [Requests -> Running \cup Ended \cup {"idle"}]
      /\ req \in [Requests -> Request \cup {Absent}]
  BY DEF Typed, TypeOK
<1>1. CASE r # q
  <2>1. pc' = [pc EXCEPT ![r] = pc'[r]] /\ req' = [req EXCEPT ![r] = req'[r]]
    <3>1. Arrive(r) \/ Serve(r)
      BY DEF ArriveFront, FrontAlone, IssueCode, Serve, CodeStep, WithdrawStep
    <3> QED BY <3>1, ServeSteps, Arrived, Opened DEF Steps, Joins
  <2>2. pc'[q] = pc[q] /\ req'[q] = req[q]
    BY <1>1, <1>t, <2>1
  <2> QED BY <2>2 DEF DoomedBy
<1>2. CASE r = q
  <2>1. ~Arrive(q)
    BY Arrived, Opened DEF Joins
  <2>2. ~AuthorizeStep(q) /\ ~LoginStep(q) /\ ~FormStep(q)
    BY DEF AuthorizeStep, ResolveSession, NoSession, HintRejected, SilentSession, SignOnSession,
           CheckConsent, HandOff, LoginStep, LoginFails, LoginSucceeds, ClearHandoff,
           ClearSession, SetHandoff, SetSession, LoginResponds, FormStep, FormAccepted,
           FormRejected, ConsentSession, Drop, At
  <2>3. /\ ~Complete(q) /\ ~Issue(q) /\ ~RecordConsent(q) /\ ~RecordGrant(q) /\ ~Clear(q)
        /\ ~Withdraw(q) /\ ~Withdrawn(q)
    BY DEF Complete, Issue, RecordConsent, RecordGrant, Clear, ReadConsent, PutConsent, PutGrant,
           Withdraw, Withdrawn, DoomedBy, At
  <2> QED BY <1>2, <2>1, <2>2, <2>3 DEF ArriveFront, FrontAlone, IssueCode
<1> QED BY <1>1, <1>2

\* Between its halves a withdrawal does nothing else.
LEMMA MidwayKept ==
  ASSUME Typed, MidwayDoomed, midway \in [Requests -> Requests \cup {Absent}],
         [CascadeNext]_allVars
  PROVE  MidwayDoomed' /\ midway' \in [Requests -> Requests \cup {Absent}]
<1> DEFINE Goal == MidwayDoomed' /\ midway' \in [Requests -> Requests \cup {Absent}]
<1> SUFFICES Goal
  OBVIOUS
<1>t. /\ req \in [Requests -> Request \cup {Absent}]
      /\ Absent \notin Requests
  BY FlowAssumption DEF Typed, TypeOK
<1>1. CASE UNCHANGED <<pc, req, midway>>
  BY <1>1 DEF MidwayDoomed, DoomedBy
<1>2. ASSUME NEW r \in Requests, NEW g \in Requests, RevokeAccessOf(r, g) PROVE Goal
  <2>1. /\ UNCHANGED <<pc, req>> /\ midway' = [midway EXCEPT ![r] = g]
        /\ pc[r] = "cascade" /\ g \in req[r].doomed
    BY <1>2 DEF RevokeAccessOf, vars
  <2>2. req[r] # Absent
    BY <2>1 DEF Typed, Control
  <2> QED BY <2>1, <2>2 DEF MidwayDoomed, DoomedBy
<1>3. ASSUME NEW r \in Requests, NEW g \in Requests, RevokeRefreshOf(r, g) PROVE Goal
  <2>1. /\ midway' = [midway EXCEPT ![r] = Absent]
        /\ pc' = pc /\ \A q \in Requests \ {r} : req'[q] = req[q]
    BY <1>3, <1>t DEF RevokeRefreshOf, RevokeGrant
  <2> QED BY <2>1 DEF MidwayDoomed, DoomedBy
<1>4. ASSUME NEW r \in Requests, ArriveFront(r) \/ FrontAlone(r) \/ IssueCode(r) PROVE Goal
  <2>1. midway' = midway
    BY <1>4 DEF ArriveFront, FrontAlone, IssueCode
  <2>2. ASSUME NEW q \in Requests, midway'[q] # Absent
        PROVE  midway'[q] \in Requests /\ pc'[q] = "cascade" /\ DoomedBy(q, midway[q])'
    BY <1>4, <2>1, <2>2, DoomedStays DEF MidwayDoomed
  <2> QED BY <2>1, <2>2 DEF MidwayDoomed, DoomedBy
<1>5. ASSUME NEW r \in TokenRequests, ArriveToken(r) \/ ServeToken(r) \/ FailToken(r)
      PROVE  UNCHANGED <<pc, req, midway>>
  BY <1>5 DEF ArriveToken, ServeToken, FailToken, vars
<1>6. CASE Clock \/ UNCHANGED allVars
  BY <1>1, <1>6 DEF Clock, Tick, allVars, vars
<1> HIDE DEF Goal
<1> QED BY <1>1, <1>2, <1>3, <1>4, <1>5, <1>6 DEF CascadeNext, ServeFront

\* A grant that was revoked while nobody was at the token endpoint yields nothing more,
\* but for the refresh tokens of a withdrawal between its halves, which nobody has
\* come for since.
SettledBarren ==
  \A g \in settled :
    /\ g \in Requests /\ TokenSide!Barren(g)
    /\ \/ TokenSide!Fallow(g)
       \/ TokenSide!InFlight = {} /\ \E q \in Requests : midway[q] = g

\* Tokens that are revoked do not make a grant yield.
LEMMA BarrenStays ==
  ASSUME TokensSafe, NEW h \in Requests, TakesAccess(h) \/ TakesRefresh(h),
         NEW g \in Requests, TokenSide!Barren(g)
  PROVE  /\ TokenSide!Barren(g)'
         /\ TokenSide!Fallow(g) => TokenSide!Fallow(g)'
         /\ TakesRefresh(h) /\ g = h => TokenSide!Fallow(g)'
<1>1. TokenSide!TokensGo
  BY TakingIsGoing DEF TokensSafe
<1>2. TokenSide!Barren(g)'
  BY <1>1 DEF TokenSide!TokensGo, TokenSide!Barren, TokenSide!Closed
<1>3. TokenSide!Fallow(g) => TokenSide!Fallow(g)'
  BY <1>1, <1>2 DEF TokenSide!TokensGo, TokenSide!Fallow
<1>4. ASSUME TakesRefresh(g) PROVE TokenSide!Fallow(g)'
  <2>1. refresh \in [TokenRequests -> TokenSide!RefreshEntry \cup {Absent}]
    BY DEF TokensSafe, TokenSide!Typed, TokenSide!TypeOK, TokenSide!StoresTypeOK
  <2> QED BY <1>2, <1>4, <2>1
          DEF TakesRefresh, TokenSide!Fallow, TokenSide!AfterRevokeByGrant, TokenSide!KeysOfGrant
<1> QED BY <1>2, <1>3, <1>4

\* A quiet grant yields nothing more once its access tokens are revoked.
LEMMA QuietIsBarren ==
  ASSUME TokensSafe, NEW g \in Requests, Quiet(g), TakesAccess(g)
  PROVE  TokenSide!Barren(g)' /\ TokenSide!InFlight' = {}
<1>t. /\ access \in [TokenRequests -> TokenSide!AccessEntry \cup {Absent}]
      /\ tokenPc \in [TokenRequests -> TokenSide!Running \cup TokenSide!Ended \cup {"idle"}]
  BY DEF TokensSafe, TokenSide!Typed, TokenSide!TypeOK, TokenSide!StoresTypeOK
<1>1. tokenCodes[g] # Absent /\ tokenCodes[g].used /\ granted[g] # Absent
  BY DEF Quiet, TokensSafe, TokenSide!Safe, TokenSide!CodeSafe, TokenSide!Matches
<1>2. TokenSide!InFlight = {}
  BY DEF Quiet, Token!InFlight, TokenSide!InFlight, Token!Running, TokenSide!Running
<1>3. \A t \in TokenRequests : tokenPc[t] \notin TokenSide!Running
  BY <1>2 DEF TokenSide!InFlight
<1> QED BY <1>t, <1>1, <1>2, <1>3
        DEF TakesAccess, TokenSide!Barren, TokenSide!Closed, TokenSide!InFlight,
            TokenSide!Yielding, TokenSide!Running, TokenSide!AfterRevokeByGrant,
            TokenSide!KeysOfGrant

\* The codes that are issued to others leave a grant as it is.
LEMMA BarrenWaits ==
  ASSUME NEW g \in Requests, TokenSide!Barren(g), TokensSafe,
         \/ UNCHANGED tokenVars /\ now' \in {now, now + 1}
         \/ \E r \in Requests : IssueCode(r)
  PROVE  /\ TokenSide!Barren(g)' /\ UNCHANGED <<access, refresh, tokenPc>>
         /\ TokenSide!InFlight' = TokenSide!InFlight
         /\ TokenSide!Fallow(g) => TokenSide!Fallow(g)'
<1>t. /\ granted \in [Requests -> TokenSide!Grant \cup {Absent}]
      /\ now \in Nat
      /\ tokenCodes \in [Requests -> TokenSide!CodeEntry \cup {Absent}]
  BY DEF TokensSafe, TokenSide!Typed, TokenSide!TypeOK, TokenSide!StoresTypeOK
<1>g. granted[g] # Absent => granted[g].expiresAt \in Nat
  BY <1>t DEF TokenSide!Grant
<1>1. CASE UNCHANGED tokenVars /\ now' \in {now, now + 1}
  BY <1>t, <1>g, <1>1 DEF tokenVars, TokenSide!Barren, TokenSide!Fallow, TokenSide!Closed,
                    TokenSide!InFlight
<1>2. ASSUME NEW r \in Requests, IssueCode(r)
      PROVE  /\ TokenSide!Barren(g)' /\ UNCHANGED <<access, refresh, tokenPc>>
             /\ TokenSide!InFlight' = TokenSide!InFlight
             /\ TokenSide!Fallow(g) => TokenSide!Fallow(g)'
  <2>1. TokenSide!IssueCode(r, Asked(r).client, GrantedScope(Asked(r)) \ {OpenId})
    BY <1>2, SameActions DEF IssueCode
  <2>2. /\ r # g /\ granted'[g] = granted[g] /\ tokenCodes'[g] = tokenCodes[g]
        /\ UNCHANGED <<now, access, refresh, tokenPc, tokenReq>>
    BY <1>t, <2>1 DEF TokenSide!IssueCode, TokenSide!Barren, TokenSide!Closed, TokenSide!AfterSet
  <2> QED BY <2>2 DEF TokenSide!Barren, TokenSide!Fallow, TokenSide!Closed, TokenSide!InFlight
<1> QED BY <1>1, <1>2

\* What a step adds to the settled grants, and what is left of them.
LEMMA SettledKept ==
  ASSUME Typed, TokensSafe, MidwayDoomed, midway \in [Requests -> Requests \cup {Absent}],
         SettledBarren, [CascadeNext]_allVars
  PROVE  SettledBarren'
<1> DEFINE Good(g) == /\ g \in Requests /\ TokenSide!Barren(g)'
                      /\ \/ TokenSide!Fallow(g)'
                         \/ /\ TokenSide!InFlight' = {}
                            /\ \E q \in Requests : midway'[q] = g
<1> SUFFICES \A g \in settled' : Good(g)
  BY DEF SettledBarren
<1>a. Absent \notin Requests /\ AtomicStore
  BY FlowAssumption, CascadeAssumption
<1>1. ASSUME settled' = settled, midway' = midway,
             \/ UNCHANGED tokenVars /\ now' \in {now, now + 1}
             \/ \E r \in Requests : IssueCode(r)
      PROVE  \A g \in settled' : Good(g)
  BY <1>1, BarrenWaits DEF SettledBarren
<1>2. ASSUME NEW r \in Requests, NEW h \in Requests, RevokeAccessOf(r, h)
      PROVE  \A g \in settled' : Good(g)
  <2>1. /\ TakesAccess(h)
        /\ midway[r] = Absent /\ midway' = [midway EXCEPT ![r] = h]
        /\ settled' = IF Quiet(h) THEN settled \cup {h} ELSE settled
    BY <1>2, SameActions DEF RevokeAccessOf, TakesAccess, vars
  <2>2. CASE Quiet(h)
    <3>1. Good(h)
      BY <2>1, <2>2, QuietIsBarren
    <3>2. ASSUME NEW g \in settled PROVE Good(g)
      <4>1. TokenSide!InFlight' = TokenSide!InFlight
        BY <2>1 DEF TakesAccess, TokenSide!InFlight
      <4> QED BY <1>a, <2>1, <4>1, BarrenStays DEF SettledBarren
    <3> QED BY <2>1, <3>1, <3>2
  <2>3. ASSUME NEW g \in settled PROVE Good(g)
    <3>1. TokenSide!InFlight' = TokenSide!InFlight
      BY <2>1 DEF TakesAccess, TokenSide!InFlight
    <3> QED BY <1>a, <2>1, <3>1, BarrenStays DEF SettledBarren
  <2> QED BY <2>1, <2>2, <2>3
<1>3. ASSUME NEW r \in Requests, NEW h \in Requests, RevokeRefreshOf(r, h)
      PROVE  \A g \in settled' : Good(g)
  <2>1. /\ TakesRefresh(h) /\ settled' = settled
        /\ midway[r] = h /\ midway' = [midway EXCEPT ![r] = Absent]
    BY <1>3, SameActions DEF RevokeRefreshOf, RevokeGrant, TakesRefresh
  <2>2. TokenSide!InFlight' = TokenSide!InFlight
    BY <2>1 DEF TakesRefresh, TokenSide!InFlight
  <2>3. ASSUME NEW g \in settled PROVE Good(g)
    <3>1. CASE g = h
      BY <2>1, <3>1, BarrenStays DEF SettledBarren
    <3>2. CASE g # h
      BY <2>1, <2>2, <3>2, BarrenStays DEF SettledBarren
    <3> QED BY <3>1, <3>2
  <2> QED BY <2>1, <2>3
<1>4. ASSUME NEW r \in TokenRequests, ArriveToken(r) \/ ServeToken(r) \/ FailToken(r)
      PROVE  \A g \in settled' : Good(g)
  <2>1. TokenSide!Arrive(r) \/ TokenSide!Serve(r) \/ TokenSide!Fail(r)
    BY <1>4, SameActions DEF ArriveToken, ServeToken, FailToken
  <2>2. ASSUME NEW g \in settled' PROVE g \in settled /\ TokenSide!Fallow(g)
    <3>1. CASE ArriveToken(r)
      BY <2>2, <3>1 DEF ArriveToken, SettledBarren
    <3>2. CASE ServeToken(r) \/ FailToken(r)
      <4>1. TokenSide!Serve(r) \/ TokenSide!Fail(r)
        BY <3>2, SameActions DEF ServeToken, FailToken
      <4>2. tokenPc[r] \in TokenSide!Running
        BY <4>1, TokenAssumptions, TokenSide!ServedRuns
      <4>3. TokenSide!InFlight # {}
        BY <4>2 DEF TokenSide!InFlight
      <4> QED BY <2>2, <3>2, <4>3 DEF ServeToken, FailToken, SettledBarren
    <3> QED BY <1>4, <3>1, <3>2
  <2>3. ASSUME NEW g \in settled' PROVE g \in Requests /\ TokenSide!Fallow(g)'
    BY <1>a, <2>1, <2>2, <2>3, TokenAssumptions, TokenSide!FallowKept
    DEF TokensSafe, TokenSide!Next, SettledBarren
  <2> QED BY <2>3 DEF TokenSide!Fallow
<1>5. ASSUME NEW r \in Requests, ArriveFront(r) \/ FrontAlone(r)
      PROVE  \A g \in settled' : Good(g)
  <2>1. Arrive(r) \/ Serve(r)
    BY <1>5 DEF ArriveFront, FrontAlone, Serve, CodeStep, WithdrawStep
  <2>2. UNCHANGED <<tokenVars, midway, settled>>
    BY <1>5 DEF ArriveFront, FrontAlone
  <2> QED BY <1>1, <2>1, <2>2, ServedInNoTime
<1>6. ASSUME NEW r \in Requests, IssueCode(r) PROVE \A g \in settled' : Good(g)
  BY <1>1, <1>6 DEF IssueCode
<1>7. CASE Clock \/ UNCHANGED allVars
  BY <1>1, <1>7 DEF Clock, Tick, allVars, vars
<1> HIDE DEF Good
<1> QED BY <1>2, <1>3, <1>4, <1>5, <1>6, <1>7 DEF CascadeNext, ServeFront

\* Whoever withdraws a consent after its code was redeemed and while no request is at
\* the token endpoint takes all access back for good.
THEOREM WithdrawalsAreFinal == CascadeSpec => []WithdrawalIsFinal
<1> DEFINE Midway == MidwayDoomed /\ midway \in [Requests -> Requests \cup {Absent}]
<1>1. CascadeInit => Midway /\ SettledBarren
  BY DEF CascadeInit, MidwayDoomed, SettledBarren
<1>2. Typed /\ TokensSafe /\ Midway /\ SettledBarren /\ [CascadeNext]_allVars
        => (Midway /\ SettledBarren)'
  <2> SUFFICES ASSUME Typed, TokensSafe, Midway, SettledBarren, [CascadeNext]_allVars
               PROVE  Midway' /\ SettledBarren'
    OBVIOUS
  <2>1. Midway'
    BY MidwayKept
  <2>2. SettledBarren'
    BY SettledKept
  <2> QED BY <2>1, <2>2
<1>3. OnePlace /\ Midway /\ SettledBarren => WithdrawalIsFinal
  <2> SUFFICES ASSUME OnePlace, MidwayDoomed, SettledBarren,
                      NEW g \in settled \cap revoked, NEW t \in TokenRequests
               PROVE  ~LiveOf(g, t)
    BY DEF WithdrawalIsFinal
  <2>1. \A q \in Requests : midway[q] # g
    <3> SUFFICES ASSUME NEW q \in Requests, midway[q] = g, g \in Requests PROVE FALSE
      BY DEF SettledBarren
    <3>1. g # Absent
      BY FlowAssumption
    <3> QED BY <3>1 DEF MidwayDoomed, OnePlace
  <2>2. TokenSide!Fallow(g)
    BY <2>1 DEF SettledBarren
  <2> QED BY <2>2 DEF LiveOf, Token!Active, Token!Usable, Token!Fetch, TokenSide!Fallow,
                      TokenSide!Barren
<1> HIDE DEF Midway
<1> QED BY <1>1, <1>2, <1>3, FrontIsFlow, AlwaysOnePlace, AlwaysSafe, PTL DEF CascadeSpec
=============================================================================
