------------------------- MODULE AuthorizationRequest -------------------------
(***************************************************************************)
(* What /authorize makes of the parameters it is sent, before anything is  *)
(* stored: validateAuthorizationRequest with the Request Object it may     *)
(* carry, and where its answer goes.  Pure: a parameter list in, an answer *)
(* out.                                                                    *)
(*                                                                         *)
(* A parameter is its parsed value, or Absent: scope and prompt are sets,  *)
(* max_age is what Number() makes of the text (-1 for whatever is not a    *)
(* non-negative integer, 0 for the empty text).  A claim of a Request      *)
(* Object that is an array or an object is Structured.                     *)
(***************************************************************************)
EXTENDS Integers, FiniteSets, SequencesExt

CONSTANTS
  LoopbackHosts,    \* localhost, [::1], 127.0.0.0/8
  Absent,           \* undefined
  Structured        \* a claim that no query parameter could hold

\* Parameters that a Request Object supersedes.
Overridable ==
  {"redirect_uri", "scope", "state", "prompt", "display", "max_age", "nonce",
   "code_challenge", "code_challenge_method", "claims"}

PromptValues == {"none", "login", "consent", "select_account"}
DisplayValues == {"page", "popup", "touch", "wap"}
DangerousSchemes == {"javascript", "data", "file", "vbscript", "blob"}

-----------------------------------------------------------------------------
(* Redirect URIs: [scheme, host, port, path, fragment].  path is all that  *)
(* the comparison of loopback URIs looks at beyond scheme and host, port   *)
(* is what it ignores; a text without a colon has the scheme "".           *)

RegisteredUriSound(uri) ==
  /\ ~uri.fragment
  /\ uri.scheme \notin DangerousSchemes \cup {""}
  /\ uri.scheme = "http" => uri.host \in LoopbackHosts

\* Mutant: any client may come back on another port.
MatchesRegistered_AnyClient(uri, client) ==
  \/ uri \in client.redirectUris
  \/ /\ uri.host \in LoopbackHosts
     /\ \E known \in client.redirectUris : [uri EXCEPT !.port = known.port] = known

\* A native application listens on whatever port it gets.
MatchesRegistered(uri, client) ==
  \/ uri \in client.redirectUris
  \/ /\ client.type = "public"
     /\ uri.host \in LoopbackHosts
     /\ \E known \in client.redirectUris : [uri EXCEPT !.port = known.port] = known

\* The address the answer goes to, or Absent when there is none to trust.
ResolvedUri(asked, client) ==
  IF asked # Absent
    THEN IF ~asked.fragment /\ MatchesRegistered(asked, client)
           THEN asked ELSE Absent
    ELSE IF Cardinality(client.redirectUris) = 1
           THEN CHOOSE uri \in client.redirectUris : TRUE ELSE Absent

-----------------------------------------------------------------------------
(* Request Objects: [jws, alg, kid, signer, claims]; signer is the key that *)
(* made the signature, or Absent if there is none.                         *)

\* A key without a use for the algorithm is passed over, not an error.
Verifies(jwk, object) ==
  jwk.alg \in {Absent, object.alg} /\ jwk.key = object.signer

\* Mutant: a kid that matches nothing falls back on every key.
Candidates_Fallback(jwks, object) ==
  IF \E jwk \in jwks : jwk.kid = object.kid
    THEN {jwk \in jwks : jwk.kid = object.kid} ELSE jwks

Candidates(jwks, object) ==
  IF object.kid = Absent THEN jwks ELSE {jwk \in jwks : jwk.kid = object.kid}

\* parseRequestObject returns the claims; every other way it throws.
ObjectTrusted(object, client, config) ==
  /\ object.jws
  /\ \/ /\ object.alg = "none"
        /\ config.allowUnsigned
        /\ object.signer = Absent
     \/ /\ object.alg \in config.signingAlgs
        /\ \E jwk \in Candidates(client.jwks, object) : Verifies(jwk, object)

\* The object's claims, where the feature is on.
ObjectClaims(p, config) ==
  IF p.request # Absent /\ config.requestSupported
    THEN p.request.claims ELSE [k \in {} |-> Absent]

Stated(claims, k) == k \in DOMAIN claims /\ claims[k] # Structured

\* Mutant: the query has the last word.
Effective_QueryWins(p, config) ==
  LET claims == ObjectClaims(p, config)
  IN  [k \in DOMAIN p |->
         IF k \in Overridable /\ p[k] = Absent /\ Stated(claims, k)
           THEN claims[k] ELSE p[k]]

\* What the object states supersedes the query; client_id and response_type
\* stay those of the query.
Effective(p, config) ==
  LET claims == ObjectClaims(p, config)
  IN  [k \in DOMAIN p |->
         IF k \in Overridable /\ Stated(claims, k) THEN claims[k] ELSE p[k]]

Contradicts(p, config, k) ==
  Stated(ObjectClaims(p, config), k) /\ ObjectClaims(p, config)[k] # p[k]

-----------------------------------------------------------------------------
(* The checks on the effective parameters, in the order they are made.     *)

\* Mutant: any client may leave PKCE out in the compatibility mode.
PkceSound_AnyClient(e, client, config) ==
  \/ /\ e.code_challenge = Absent /\ e.code_challenge_method = Absent
     /\ config.allowNonPkce
  \/ e.code_challenge = "digest" /\ e.code_challenge_method = "S256"

\* "digest" stands for 43 characters of base64url.
PkceSound(e, client, config) ==
  \/ /\ e.code_challenge = Absent /\ e.code_challenge_method = Absent
     /\ config.allowNonPkce /\ client.type = "confidential"
  \/ e.code_challenge = "digest" /\ e.code_challenge_method = "S256"

PromptSound(prompt) ==
  /\ prompt \subseteq PromptValues
  /\ "none" \in prompt => prompt = {"none"}

OrEmpty(value) == IF value = Absent THEN {} ELSE value

MaxAge(e, client) ==
  IF e.max_age = Absent THEN client.defaultMaxAge ELSE e.max_age

\* A broken registration is the provider's fault: told to nobody but the user.
Check(passed, error) == [passed |-> passed, error |-> error, told |-> TRUE]
Untold(passed, error) == [passed |-> passed, error |-> error, told |-> FALSE]

Checks(p, e, client, config) ==
  <<Check(p.request = Absent \/ config.requestSupported, "request_not_supported"),
    Check(~p.request_uri, "request_uri_not_supported"),
    Check(~p.registration, "registration_not_supported"),
    Check(~Contradicts(p, config, "response_type"), "invalid_request"),
    Check(~Contradicts(p, config, "client_id"), "invalid_request"),
    Check(p.response_type # Absent, "invalid_request"),
    Check(p.response_type = "code", "unsupported_response_type"),
    Check(p.response_type \in client.responseTypes, "unauthorized_client"),
    Check(p.scope \notin {Absent, {}}, "invalid_request"),
    Check("openid" \in OrEmpty(e.scope), "invalid_scope"),
    Check(PkceSound(e, client, config), "invalid_request"),
    Check(PromptSound(OrEmpty(e.prompt)), "invalid_request"),
    Check(e.display \in DisplayValues \cup {Absent}, "invalid_request"),
    Check(e.max_age = Absent \/ e.max_age >= 0, "invalid_request"),
    Untold(MaxAge(e, client) = Absent \/ MaxAge(e, client) >= 0, "server_error"),
    Check(e.claims \in {Absent, "object"}, "invalid_request")>>

\* Mutant: the scope is taken as it was asked for.
GrantableScope_AsAsked(e) == e.scope

\* offline_access is dropped from a request without prompt=consent.
GrantableScope(e) ==
  IF "consent" \in OrEmpty(e.prompt) THEN e.scope ELSE e.scope \ {"offline_access"}

\* createAuthTransaction copies all of this.
Accepted(p, e, client, uri) ==
  [kind |-> "accepted", client |-> client.clientId, uri |-> uri,
   explicit |-> e.redirect_uri # Absent, scope |-> GrantableScope(e),
   prompt |-> OrEmpty(e.prompt), maxAge |-> MaxAge(e, client),
   challenge |-> e.code_challenge, state |-> e.state, nonce |-> e.nonce]

\* An error page of the provider, or JSON; never a redirection.
Direct(error) == [kind |-> "direct", error |-> error]

Redirected(error, uri, state) ==
  [kind |-> "redirected", error |-> error, uri |-> uri, state |-> state]

\* The redirection is settled, for better or worse: the first check that fails
\* decides.
AnswerTo(p, client, config) ==
  LET e == Effective(p, config)
      uri == ResolvedUri(e.redirect_uri, client)
      checks == Checks(p, e, client, config)
      first == SelectInSeq(checks, LAMBDA check : ~check.passed)
  IN  IF uri = Absent THEN Direct("invalid_request")
      ELSE IF first = 0 THEN Accepted(p, e, client, uri)
      ELSE IF checks[first].told THEN Redirected(checks[first].error, uri, e.state)
      ELSE Direct(checks[first].error)

\* The endpoint: no redirection before client, registration and object hold.
Answer(p, registry, config) ==
  IF p.repeated \/ p.client_id \notin DOMAIN registry THEN Direct("invalid_request")
  ELSE LET client == registry[p.client_id]
       IN  IF \/ client.clientId # p.client_id
              \/ \E uri \in client.redirectUris : ~RegisteredUriSound(uri)
             THEN Direct("server_error")
           ELSE IF /\ p.request # Absent /\ config.requestSupported
                   /\ ~ObjectTrusted(p.request, client, config)
             THEN Direct("invalid_request")
           ELSE AnswerTo(p, client, config)
=============================================================================
