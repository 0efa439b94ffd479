---------------------------- MODULE ConsentCascade ----------------------------
(***************************************************************************)
(* The front channel and the token endpoint over the same stores: a code   *)
(* issued by AuthorizationFlow is redeemed at TokenEndpoint, and the       *)
(* withdrawal of a consent revokes, grant by grant, what is stored there   *)
(* (revokeConsentAndTokens).  The stores are those in memory.              *)
(*                                                                         *)
(* A front-channel request that issues a code names its grant.  The token  *)
(* endpoint leaves openid out of a scope, as TokenStores does.             *)
(***************************************************************************)
EXTENDS AuthorizationProperties

CONSTANTS
  TokenRequests,    \* HTTP requests to the token and revocation endpoints
  TokenMaxInFlight, \* bound on those served at the same time
  CodeLifetime, AccessLifetime, RefreshLifetime,   \* see TokenStores
  RefreshClients, AccessTokenFormat                \* see TokenEndpoint

VARIABLES
  tokenCodes, access, refresh,    \* the stores of TokenStores
  tokenPc, tokenReq, granted,     \* requests and history of TokenEndpoint
  midway,           \* of each withdrawal: the grant whose access tokens are
                    \* revoked and whose refresh tokens are not yet
  settled           \* history: grants revoked when their code had been redeemed
                    \* and no request to the token endpoint was under way

tokenVars == <<tokenCodes, access, refresh, tokenPc, tokenReq, granted>>
allVars == <<vars, tokenVars, midway, settled>>

Token ==
  INSTANCE TokenProperties
    WITH Grants <- Requests, Requests <- TokenRequests, Scopes <- Scopes \ {OpenId},
         MaxInFlight <- TokenMaxInFlight,
         codes <- tokenCodes, pc <- tokenPc, req <- tokenReq

ASSUME CascadeAssumption ==
  /\ AtomicStore
  /\ TokenRequests \cap Requests = {}
  /\ Token!StoresAssumption
  /\ Token!EndpointAssumption

CascadeInit ==
  /\ Init
  /\ Token!Init
  /\ midway = [r \in Requests |-> Absent]
  /\ settled = {}

-----------------------------------------------------------------------------
(* The front channel.                                                      *)

\* One store call writes the code for both: its grant id is minted with it.
IssueCode(r) ==
  /\ Issue(r)
  /\ Token!IssueCode(r, Asked(r).client, GrantedScope(Asked(r)) \ {OpenId})
  /\ UNCHANGED <<midway, settled>>

\* A grant whose code was redeemed, while nothing is under way.
Quiet(g) == tokenCodes[g] # Absent /\ tokenCodes[g].used /\ Token!InFlight = {}

\* revokeTokensByGrantId of one grant after the other: access tokens first.
RevokeAccessOf(r, g) ==
  /\ pc[r] = "cascade" /\ g \in req[r].doomed
  /\ midway[r] = Absent
  /\ midway' = [midway EXCEPT ![r] = g]
  /\ access' = Token!AfterRevokeByGrant(access, g)
  /\ settled' = IF Quiet(g) THEN settled \cup {g} ELSE settled
  /\ UNCHANGED <<vars, tokenCodes, refresh, tokenPc, tokenReq, granted>>

\* Mutant: the refresh tokens are left to expire.
RevokeRefreshOf_Skips(r, g) ==
  /\ midway[r] = g
  /\ midway' = [midway EXCEPT ![r] = Absent]
  /\ RevokeGrant(r, g)
  /\ UNCHANGED <<tokenVars, settled>>

RevokeRefreshOf(r, g) ==
  /\ midway[r] = g
  /\ midway' = [midway EXCEPT ![r] = Absent]
  /\ RevokeGrant(r, g)
  /\ refresh' = Token!AfterRevokeByGrant(refresh, g)
  /\ UNCHANGED <<tokenCodes, access, tokenPc, tokenReq, granted, settled>>

\* Everything else leaves the token-side stores alone.
FrontAlone(r) ==
  /\ \/ AuthorizeStep(r) \/ LoginStep(r) \/ FormStep(r)
     \/ Complete(r) \/ RecordConsent(r) \/ RecordGrant(r) \/ Clear(r)
     \/ Withdraw(r) \/ Withdrawn(r)
  /\ UNCHANGED <<tokenVars, midway, settled>>

ServeFront(r) ==
  \/ FrontAlone(r) \/ IssueCode(r)
  \/ \E g \in Requests : RevokeAccessOf(r, g) \/ RevokeRefreshOf(r, g)

ArriveFront(r) == Arrive(r) /\ UNCHANGED <<tokenVars, midway, settled>>

-----------------------------------------------------------------------------
(* The token endpoint.                                                     *)

\* A client knows a code once the redirection that carries it was answered.
Delivered(g) == pc[g] = "done"

\* A request that comes between the two halves of a cascade finds refresh
\* tokens: its grant was not quiet then.
ArriveToken(r) ==
  /\ Token!Arrive(r)
  /\ tokenReq'[r].kind = "code" => Delivered(tokenReq'[r].grant)
  /\ settled' = settled \ {midway[q] : q \in Requests}
  /\ UNCHANGED <<vars, midway>>

ServeToken(r) == Token!Serve(r) /\ UNCHANGED <<vars, midway, settled>>

FailToken(r) == Token!Fail(r) /\ UNCHANGED <<vars, midway, settled>>

Clock == Tick /\ UNCHANGED <<tokenVars, midway, settled>>

CascadeNext ==
  \/ Clock
  \/ \E r \in Requests : ArriveFront(r) \/ ServeFront(r)
  \/ \E r \in TokenRequests : ArriveToken(r) \/ ServeToken(r) \/ FailToken(r)

CascadeSpec == CascadeInit /\ [][CascadeNext]_allVars

-----------------------------------------------------------------------------
(* Properties.                                                             *)

LiveOf(g, t) ==
  \/ Token!Active(t) /\ access[t].grant = g
  \/ Token!Usable(t) /\ refresh[t].grant = g

\* Whoever withdraws a consent after its code was redeemed and while no request is
\* at the token endpoint takes all access back for good: no code, refresh token or
\* request that comes later yields another token ("a user-initiated 'remove access'
\* operation can revoke the complete AT/RT families": ConsentStore).
WithdrawalIsFinal ==
  \A g \in settled \cap revoked, t \in TokenRequests : ~LiveOf(g, t)

\* From the consent form to the last token of a family: a token is one client's, and
\* each of its scopes was approved for that client by the subject of its grant, the
\* codes that single sign-on and prompt=none issued included.
TokensTraceToConsent ==
  \A t \in TokenRequests :
    \A entry \in {access[t], refresh[t]} \ {Absent} :
      LET code == codes[entry.grant]
      IN  /\ code # Absent
          /\ entry.client = asked[code.txn].client
          /\ \A scope \in entry.scope :
               \E q \in Requests :
                 /\ Approved(q, code.subject, entry.client)
                 /\ scope \in codes[q].scope

\* With withdrawals revoking tokens from outside the token endpoint, codes and
\* tokens still keep to the abstract life cycle, whatever a request still holds of what
\* it had read: of the tokens that were taken back only a JWT can come again, in the
\* second it was made in.
ImplementsLifecycle == Token!ImplementsLifecycle
=============================================================================
