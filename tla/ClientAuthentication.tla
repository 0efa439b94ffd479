------------------------- MODULE ClientAuthentication -------------------------
(***************************************************************************)
(* Who a request to the token, revocation or introspection endpoint is     *)
(* from: authenticateClient, and the grant_type checks of the token        *)
(* endpoint that follow it.                                                *)
(*                                                                         *)
(* Credentials are [basic, id, secret]: the Authorization header, Absent   *)
(* if it is not of the scheme Basic, and the two body parameters.  A       *)
(* header that cannot be decoded names nobody: its id is Absent.           *)
(***************************************************************************)
CONSTANTS
  NotSent           \* undefined

Shown(cred) ==
  IF cred.basic # NotSent THEN cred.basic ELSE [id |-> cred.id, secret |-> cred.secret]

UsedMethod(cred) ==
  IF cred.basic # NotSent THEN "client_secret_basic" ELSE "client_secret_post"

TwoMethods(cred) ==
  cred.basic # NotSent /\ (cred.id # NotSent \/ cred.secret # NotSent)

\* A public client shows its name and nothing that looks like a secret.
PublicProven(cred) == cred.basic = NotSent /\ cred.secret = NotSent

\* Mutant: whichever way the secret came.
SecretProven_AnyMethod(cred, client) ==
  /\ Shown(cred).secret \notin {NotSent, ""}
  /\ Shown(cred).secret = client.secret

\* A client registered without a secret is compared with the empty text, which
\* no request gets as far as.
SecretProven(cred, client) ==
  /\ Shown(cred).secret \notin {NotSent, ""}
  /\ UsedMethod(cred) = client.method
  /\ Shown(cred).secret = (IF client.secret = NotSent THEN "" ELSE client.secret)

Proven(cred, client) ==
  IF client.method = "none" THEN PublicProven(cred) ELSE SecretProven(cred, client)

\* Mutant: a stranger is told apart from a wrong secret.
AuthenticationError_TellsStrangers(cred, registry) ==
  IF TwoMethods(cred) THEN "invalid_request"
  ELSE IF Shown(cred).id \notin DOMAIN registry THEN "unauthorized_client"
  ELSE IF ~Proven(cred, registry[Shown(cred).id]) THEN "invalid_client"
  ELSE "none"

AuthenticationError(cred, registry) ==
  IF TwoMethods(cred) THEN "invalid_request"
  ELSE IF Shown(cred).id \notin DOMAIN registry THEN "invalid_client"
  ELSE IF ~Proven(cred, registry[Shown(cred).id]) THEN "invalid_client"
  ELSE "none"

\* validateTokenRequest, up to the dispatch on the grant type.
GrantTypeError(grantType, client, supported) ==
  IF grantType = "" THEN "invalid_request"
  ELSE IF grantType \notin supported \cap {"authorization_code", "refresh_token"}
    THEN "unsupported_grant_type"
  ELSE IF grantType \notin client.grantTypes THEN "unauthorized_client"
  ELSE "none"

\* The answer of the token endpoint's door: an error, or on behalf of whom the
\* grant is looked at.
Admission(cred, grantType, wellFormed, registry, supported) ==
  LET authentication == AuthenticationError(cred, registry)
      client == registry[Shown(cred).id]
      dispatch == GrantTypeError(grantType, client, supported)
  IN  IF ~wellFormed \/ grantType = NotSent THEN [error |-> "invalid_request"]
      ELSE IF authentication # "none" THEN [error |-> authentication]
      ELSE IF dispatch # "none" THEN [error |-> dispatch]
      ELSE [admitted |-> Shown(cred).id]
=============================================================================
