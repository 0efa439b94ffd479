---------------------------- MODULE MCRequestChecks ----------------------------
(***************************************************************************)
(* Seven registrations and three settings; for each endpoint the           *)
(* parameters of a sound request and what each may be replaced by.         *)
(***************************************************************************)
EXTENDS RequestChecks, TLC

Uri(scheme, host, port) ==
  [scheme |-> scheme, host |-> host, port |-> port, path |-> "/cb",
   fragment |-> FALSE]

WebUri == Uri("https", "app", 443)
OtherUri == Uri("https", "other", 443)
LocalUri == Uri("http", "localhost", 80)

Key(kid, alg, key) == [kid |-> kid, alg |-> alg, key |-> key]

Registration(id, uris, type, method, secret) ==
  [clientId |-> id, redirectUris |-> uris, type |-> type, method |-> method,
   secret |-> secret, responseTypes |-> {"code"}, grantTypes |-> {"authorization_code"},
   defaultMaxAge |-> Absent, userinfoAlg |-> Absent,
   jwks |-> {Key("k1", "RS256", "mine"), Key("k2", "PS256", "second"),
             Key("k3", Absent, "third")}]

\* web: confidential.  native: public, on a loopback address.  post: the other
\* method, a default max_age.  broken: a registration no request can succeed with
\* at /authorize (an unusable default) and none at /token (no secret).
TheRegistry ==
  [web |-> [Registration("web", {WebUri}, "confidential", "client_secret_basic", "s1")
              EXCEPT !.grantTypes = {"authorization_code", "refresh_token"}],
   native |-> Registration("native", {LocalUri, WebUri}, "public", "none", Absent),
   post |-> [Registration("post", {WebUri, LocalUri}, "confidential",
                          "client_secret_post", "s2")
               EXCEPT !.defaultMaxAge = 2, !.userinfoAlg = "RS256"],
   broken |-> [Registration("broken", {WebUri}, "confidential",
                            "client_secret_post", Absent)
                 EXCEPT !.defaultMaxAge = -1],
   silent |-> [Registration("silent", {WebUri}, "unstated", "client_secret_basic", "s1")
                 EXCEPT !.responseTypes = {}, !.jwks = {}, !.userinfoAlg = "ES256"],
   unsafe |-> Registration("unsafe", {Uri("http", "app", 80)}, "public", "none", Absent),
   alias |-> Registration("web", {WebUri}, "confidential", "client_secret_basic", "s1")]

Setting(requestSupported, allowUnsigned, allowNonPkce, grantTypes, evicts) ==
  [evicts |-> evicts, requestSupported |-> requestSupported, allowUnsigned |-> allowUnsigned,
   allowNonPkce |-> allowNonPkce, grantTypes |-> grantTypes,
   signingAlgs |-> {"RS256"}, keyAlgs |-> {"RS256"}]

BothGrants == {"authorization_code", "refresh_token"}

\* The defaults, the conformance settings, and Request Objects turned off over stores
\* of somebody else's that do not evict.
TheConfigs ==
  {Setting(TRUE, FALSE, FALSE, BothGrants, TRUE),
   Setting(TRUE, TRUE, TRUE, BothGrants, TRUE),
   Setting(FALSE, FALSE, FALSE, {"authorization_code"}, FALSE)}

NoCredentials == [basic |-> Absent, id |-> Absent, secret |-> Absent]
Basic(id, secret) ==
  [NoCredentials EXCEPT !.basic = [id |-> id, secret |-> secret]]
Post(id, secret) == [NoCredentials EXCEPT !.id = id, !.secret = secret]

TheScopeClaims == [profile |-> {"name"}, email |-> {"email", "email_verified"}]

AccessToken ==
  [client |-> "web", subject |-> "u1", scope |-> {"openid", "profile"}, expiresAt |-> 2,
   nbf |-> 1, audience |-> {"userinfo"}, claims |-> Absent]

RefreshToken ==
  [client |-> "web", subject |-> "u1", scope |-> {"openid"}, expiresAt |-> 2,
   used |-> FALSE]

TheUser == [sub |-> "u1", name |-> "a", email |-> "b"]

TheSound ==
  [authorize |->
     [repeated |-> FALSE, client_id |-> "web", redirect_uri |-> WebUri,
      response_type |-> "code", scope |-> {"openid", "offline_access"},
      state |-> "s", nonce |-> "n", prompt |-> {"consent"}, display |-> Absent,
      max_age |-> Absent, code_challenge |-> "digest",
      code_challenge_method |-> "S256", claims |-> Absent, request |-> Absent,
      request_uri |-> FALSE, registration |-> FALSE],
   token |->
     [wellFormed |-> TRUE, grant_type |-> "authorization_code",
      cred |-> Basic("web", "s1")],
   userinfo |->
     [header |-> "token", form |-> Absent, post |-> TRUE, stored |-> AccessToken,
      revoked |-> FALSE, user |-> TheUser, now |-> 1, pause |-> 0, delay |-> 0],
   introspect |->
     [wellFormed |-> TRUE, cred |-> Basic("web", "s1"), token |-> "token",
      hint |-> Absent, access |-> AccessToken, refresh |-> Absent,
      now |-> 1, delay |-> 0]]

NoClaims == [k \in {} |-> Absent]

Object(alg, kid, signer, claims) ==
  [jws |-> TRUE, alg |-> alg, kid |-> kid, signer |-> signer, claims |-> claims]

Claims == [redirect_uri |-> LocalUri, state |-> "r", max_age |-> 1,
           prompt |-> {"login"}]

Objects ==
  {Object("RS256", "k1", "mine", Claims),
   Object("RS256", "k1", "stolen", Claims),
   Object("RS256", "k9", "mine", Claims),
   Object("RS256", Absent, "third", [state |-> "r", nonce |-> Structured]),
   Object("RS256", Absent, "second", [state |-> "r"]),
   Object("PS256", "k2", "second", NoClaims),
   Object("none", Absent, Absent, [scope |-> {"openid"}, state |-> "r"]),
   Object("none", Absent, "mine", [state |-> "r"]),
   Object("RS256", "k1", "mine", [client_id |-> "post", code_challenge |-> "short"]),
   Object("RS256", "k1", "mine", [client_id |-> Structured, response_type |-> "token",
                                  claims |-> "object"]),
   [Object("RS256", "k1", "mine", NoClaims) EXCEPT !.jws = FALSE]}

AnyCredentials ==
  {NoCredentials, [NoCredentials EXCEPT !.basic = [id |-> Absent, secret |-> Absent]],
   [Basic("web", "s1") EXCEPT !.id = "web"]}
  \cup {Basic(id, secret) : id \in DOMAIN TheRegistry \cup {"nobody"},
                            secret \in {"s1", "s2", "wrong", ""}}
  \cup {Post(id, secret) : id \in DOMAIN TheRegistry \cup {"nobody", Absent},
                           secret \in {"s1", "s2", "wrong", "", Absent}}

\* Narrowed, of clients who want their answers signed, asking for claims, at the end
\* of their life, and of no client or resource this provider serves.
AccessTokens ==
  {Absent,
   [AccessToken EXCEPT !.scope = {"profile"}],
   [AccessToken EXCEPT !.client = "post", !.claims = [email |-> AnyValue]],
   [AccessToken EXCEPT !.client = "silent"],
   [AccessToken EXCEPT !.client = "nobody", !.audience = Absent],
   [AccessToken EXCEPT !.audience = {"other"}],
   [AccessToken EXCEPT !.expiresAt = 1],
   [AccessToken EXCEPT !.claims = [email |-> {"b"}, email_verified |-> AnyValue]],
   [AccessToken EXCEPT !.claims = [email |-> {"x", "y"}, sub |-> {"u2"}]]}

TheAlternatives ==
  [authorize |->
     [repeated |-> {TRUE},
      client_id |-> (DOMAIN TheRegistry \ {"web"}) \cup {"nobody", Absent},
      redirect_uri |-> {OtherUri, LocalUri, Uri("http", "localhost", 8080),
                        [WebUri EXCEPT !.fragment = TRUE], Absent},
      response_type |-> {"token", Absent},
      scope |-> {{"openid"}, {"email"}, {}, Absent},
      state |-> {Absent},
      prompt |-> {Absent, {}, {"none"}, {"none", "login"}, {"later"}},
      display |-> {"page", "neon"},
      max_age |-> {-1, 0},
      code_challenge |-> {Absent, "short"},
      code_challenge_method |-> {Absent, "plain"},
      claims |-> {"object", "malformed", "oversized"},
      request |-> Objects,
      request_uri |-> {TRUE},
      registration |-> {TRUE}],
   token |->
     [wellFormed |-> {FALSE},
      grant_type |-> {"refresh_token", "password", "", Absent},
      cred |-> AnyCredentials],
   userinfo |->
     [header |-> {Absent}, form |-> {"token"}, post |-> {FALSE},
      stored |-> AccessTokens, revoked |-> {TRUE}, pause |-> {1}, delay |-> {1},
      user |-> {Absent, [sub |-> "u1", email |-> "c"]}],
   introspect |->
     [wellFormed |-> {FALSE}, token |-> {Absent}, cred |-> AnyCredentials, delay |-> {1},
      hint |-> {"access_token", "refresh_token", "other"},
      access |-> {Absent, [AccessToken EXCEPT !.expiresAt = 1]},
      refresh |-> {RefreshToken, [RefreshToken EXCEPT !.expiresAt = 1],
                   [RefreshToken EXCEPT !.used = TRUE]}]]
=============================================================================
