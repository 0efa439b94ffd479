----------------------------- MODULE RequestChecks -----------------------------
(***************************************************************************)
(* Every request that differs from a sound one in at most MaxChanges       *)
(* parameters, as the authorization endpoint, the door of the token        *)
(* endpoint, UserInfo and introspection answer it: enough for any two or   *)
(* three of their checks to disagree about which of them speaks first.  A  *)
(* client puts a request together parameter by parameter and sends it; the *)
(* endpoints know clients by one registry.  What the stores hold of the    *)
(* token presented is enumerated with the request.                         *)
(***************************************************************************)
EXTENDS AuthorizationRequest

CONSTANTS
  Registry,         \* client id -> registration (ClientResolver.findClient)
  Configs,          \* settings of the provider
  Sound,            \* door -> a request that is accepted there
  Alternatives,     \* door -> parameter -> other values it may be sent with
  MaxChanges,       \* bound on the parameters that differ from Sound
  ScopeClaims,      \* see TokenReaders
  AnyValue          \* see TokenReaders

INSTANCE ClientAuthentication WITH NotSent <- Absent
INSTANCE TokenReaders WITH Missing <- Absent

VARIABLES config, door, request, answer

vars == <<config, door, request, answer>>

Doors == {"authorize", "token", "userinfo", "introspect"}

ASSUME ChecksAssumption ==
  /\ MaxChanges \in Nat
  /\ DOMAIN Sound = Doors
  /\ \A d \in Doors : DOMAIN Alternatives[d] \subseteq DOMAIN Sound[d]

\* What a parameter may be sent as.
Sendable(d, k) ==
  {Sound[d][k]} \cup (IF k \in DOMAIN Alternatives[d] THEN Alternatives[d][k] ELSE {})

\* What a URI is parsed into, and what a header or a body may hold of credentials.
Addresses ==
  [scheme : STRING, host : STRING, port : Nat, path : STRING, fragment : BOOLEAN]

Names == STRING \cup DOMAIN Registry \cup {"nobody"}

Shows == [id : Names \cup {Absent}, secret : STRING \cup {Absent}]

Credentials ==
  [basic : Shows \cup {Absent}, id : Names \cup {Absent}, secret : STRING \cup {Absent}]

\* (To the provers no literal is known to be a STRING.)
ASSUME SentinelsAssumption ==
  Absent \notin Addresses \cup Shows \cup Int \cup STRING \cup {"code", "refresh_token"}

\* The types of RegisteredClient, for what has a type.
ASSUME RegistryAssumption ==
  \A id \in DOMAIN Registry :
    LET client == Registry[id]
    IN  /\ client.redirectUris \subseteq Addresses
        /\ IsFiniteSet(client.redirectUris)
        /\ client.defaultMaxAge \in Int \cup {Absent}
        /\ client.method \in {"none", "client_secret_basic", "client_secret_post"}

\* The parameters of an authorization request, and of the claims of its object those
\* that are parsed.
ASSUME AuthorizeAssumption ==
  LET claimed == {object.claims : object \in Sendable("authorize", "request") \ {Absent}}
      Said(k) == {claims[k] : claims \in {c \in claimed : k \in DOMAIN c}} \ {Structured}
  IN  /\ DOMAIN Sound["authorize"] =
           {"repeated", "client_id", "response_type", "request", "request_uri",
            "registration"} \cup Overridable
      /\ Sendable("authorize", "redirect_uri") \subseteq Addresses \cup {Absent}
      /\ Sendable("authorize", "max_age") \subseteq Int \cup {Absent}
      /\ Said("redirect_uri") \subseteq Addresses
      /\ Said("max_age") \subseteq Int
      /\ Absent \notin Said("scope")

ASSUME CredentialsAssumption ==
  /\ DOMAIN Sound["token"] = {"wellFormed", "grant_type", "cred"}
  /\ Sendable("token", "cred") \subseteq Credentials

\* A token is read after it was stored, at a time its nbf does not lie beyond, time
\* does not run backwards, and the resolver of users answers for the subject it is
\* asked about.
ASSUME StoredAssumption ==
  LET Issued(tokens, times) ==
        \A token \in tokens \ {Absent} :
          /\ token.expiresAt \in Int
          /\ token.nbf # Absent => \A time \in times : token.nbf \in Int /\ token.nbf <= time
  IN  /\ DOMAIN Sound["userinfo"] =
           {"header", "form", "post", "stored", "revoked", "user", "now", "pause", "delay"}
      /\ DOMAIN Sound["introspect"] =
           {"wellFormed", "cred", "token", "hint", "access", "refresh", "now", "delay"}
      /\ Sendable("userinfo", "now") \cup Sendable("introspect", "now") \subseteq Int
      /\ Sendable("userinfo", "pause") \cup Sendable("userinfo", "delay")
           \cup Sendable("introspect", "delay") \subseteq Nat
      /\ Issued(Sendable("userinfo", "stored"), Sendable("userinfo", "now"))
      /\ Issued(Sendable("introspect", "access"), Sendable("introspect", "now"))
      /\ \A token \in Sendable("introspect", "refresh") \ {Absent} :
           token.expiresAt \in Int /\ token.used \in BOOLEAN
      /\ \A user \in Sendable("userinfo", "user") \ {Absent},
           token \in Sendable("userinfo", "stored") \ {Absent} :
             "sub" \in DOMAIN user /\ user["sub"] = token.subject

Init ==
  /\ config \in Configs
  /\ door \in Doors
  /\ request = Sound[door]
  /\ answer = Absent

Changed(candidate) ==
  {k \in DOMAIN candidate : candidate[k] # Sound[door][k]}

Change(k, value) ==
  /\ answer = Absent
  /\ LET candidate == [request EXCEPT ![k] = value]
     IN  /\ Cardinality(Changed(candidate)) <= MaxChanges
         /\ request' = candidate
  /\ UNCHANGED <<config, door, answer>>

\* What a store answers when it is asked: those of the samples drop what has expired,
\* which the resolvers of core do not ask of a store (createApp's storage).
Found(stored, time) == IF config.evicts THEN Kept(stored, time) ELSE stored

\* UserInfo asks the store twice, and reads the clock for its own test of the expiry
\* once the second answer is there.
ReadAt == request.now + request.pause
JudgedAt == ReadAt + request.delay

\* The second read of UserInfo finds less than the first when the token expired or
\* was revoked in between.
SecondRead == IF request.revoked THEN Absent ELSE Found(request.stored, ReadAt)

AnswerOfUserInfo ==
  LET token == Presented(request.header, request.form, request.post)
  IN  IF TwoTokens(request.header, request.form, request.post)
        THEN Refused("invalid_request")
      ELSE IF token = Absent THEN Refused("invalid_token")
      ELSE UserInfoAnswer(Found(request.stored, request.now), SecondRead, request.user,
                          Registry, config.keyAlgs, "userinfo", JudgedAt)

\* Introspection reads the clock first and asks the stores afterwards.
AnswerOfIntrospection ==
  LET authentication == AuthenticationError(request.cred, Registry)
      askedAt == request.now + request.delay
  IN  IF ~request.wellFormed THEN Refused("invalid_request")
      ELSE IF authentication # "none" THEN Refused(authentication)
      ELSE IF request.token = Absent THEN Refused("invalid_request")
      ELSE Introspected(request.hint, Found(request.access, askedAt),
                        Found(request.refresh, askedAt), request.now)

AnswerAtDoor ==
  CASE door = "authorize"  -> Answer(request, Registry, config)
    [] door = "token"      -> Admission(request.cred, request.grant_type,
                                        request.wellFormed, Registry, config.grantTypes)
    [] door = "userinfo"   -> AnswerOfUserInfo
    [] door = "introspect" -> AnswerOfIntrospection

Send ==
  /\ answer = Absent
  /\ answer' = AnswerAtDoor
  /\ UNCHANGED <<config, door, request>>

Next ==
  \/ \E k \in DOMAIN Alternatives[door] :
       \E value \in Alternatives[door][k] : Change(k, value)
  \/ Send

Spec == Init /\ [][Next]_vars

-----------------------------------------------------------------------------
(* The authorization endpoint.                                             *)

Answered(d) == door = d /\ answer # Absent

Accepts == Answered("authorize") /\ answer.kind = "accepted"
Redirects == Answered("authorize") /\ answer.kind \in {"accepted", "redirected"}

Client == Registry[request.client_id]

\* Whatever the endpoint sends by redirection, a code to come or an error, goes
\* to an address the client registered, or for a native application to one that
\* differs from it in a loopback port; never over plain http to another host.
\* (Errors without such an address stay with the user: routes/authorize.ts.)
AnswersReachTheClient ==
  Redirects =>
    \E known \in Client.redirectUris :
      /\ known.scheme = "http" => known.host \in LoopbackHosts
      /\ ~answer.uri.fragment
      /\ \A part \in DOMAIN known :
           \/ answer.uri[part] = known[part]
           \/ part = "port" /\ Client.type = "public" /\ known.host \in LoopbackHosts

\* The value the client asked for: the Request Object's where it has one.
Wanted(k) ==
  IF request.request = Absent \/ ~config.requestSupported THEN request[k]
  ELSE IF k \in DOMAIN request.request.claims /\ request.request.claims[k] # Structured
    THEN request.request.claims[k] ELSE request[k]

\* A parameter of the Request Object supersedes the one of the query, in the
\* transaction and in the state that comes back with an error alike; no default
\* of the registration stands in for a max_age the object states.
ObjectSupersedes ==
  /\ Redirects => /\ answer.state = Wanted("state")
                  /\ Wanted("redirect_uri") \in {Absent, answer.uri}
  /\ Accepts =>
       /\ answer.nonce = Wanted("nonce")
       /\ answer.challenge = Wanted("code_challenge")
       /\ Wanted("max_age") \in {Absent, answer.maxAge}
       /\ answer.explicit = (Wanted("redirect_uri") # Absent)

\* Nothing that was signed with a key the client has not registered, or under a
\* kid that is not that key's, has any say in where the answer goes or in what
\* it carries.
ObjectIsTheClients ==
  (Redirects /\ request.request # Absent /\ config.requestSupported) =>
    \/ request.request.signer = Absent /\ config.allowUnsigned
    \/ \E jwk \in Client.jwks :
         /\ jwk.key = request.request.signer
         /\ request.request.kid \in {Absent, jwk.kid}
         /\ jwk.alg \in {Absent, request.request.alg}
         /\ request.request.alg \in config.signingAlgs

\* The steps behind the endpoint may take for granted what AuthorizationFlow
\* assumes of a transaction: openid, a prompt without contradiction, no
\* offline_access without prompt=consent, and a max_age that is a duration.
FlowMayAssume ==
  Accepts =>
    /\ "openid" \in answer.scope
    /\ "offline_access" \in answer.scope => "consent" \in answer.prompt
    /\ "none" \in answer.prompt => answer.prompt = {"none"}
    /\ answer.maxAge \in Nat \cup {Absent}

\* A reference without an order: what a client, its registration and the
\* settings must look like for a request to be accepted at all.
Acceptable ==
  /\ ~request.repeated /\ ~request.request_uri /\ ~request.registration
  /\ request.client_id \in DOMAIN Registry
  /\ Client.clientId = request.client_id
  /\ \A uri \in Client.redirectUris : RegisteredUriSound(uri)
  /\ request.request # Absent =>
       /\ config.requestSupported
       /\ ObjectTrusted(request.request, Client, config)
       /\ \A k \in {"client_id", "response_type"} : Wanted(k) = request[k]
  /\ \/ Wanted("redirect_uri") = Absent /\ Cardinality(Client.redirectUris) = 1
     \/ Wanted("redirect_uri") # Absent /\ ~Wanted("redirect_uri").fragment
        /\ MatchesRegistered(Wanted("redirect_uri"), Client)
  /\ request.response_type = "code" /\ "code" \in Client.responseTypes
  /\ request.scope \notin {Absent, {}} /\ "openid" \in Wanted("scope")
  /\ \/ <<Wanted("code_challenge"), Wanted("code_challenge_method")>>
          = <<"digest", "S256">>
     \/ /\ {Wanted("code_challenge"), Wanted("code_challenge_method")} = {Absent}
        /\ Client.type = "confidential" /\ config.allowNonPkce
  /\ Wanted("prompt") \in {Absent, {"none"}} \cup SUBSET (PromptValues \ {"none"})
  /\ Wanted("display") \in DisplayValues \cup {Absent}
  /\ Wanted("claims") \in {Absent, "object"}
  /\ IF Wanted("max_age") = Absent
       THEN Client.defaultMaxAge \in Nat \cup {Absent}
       ELSE Wanted("max_age") \in Nat

\* The checks, in whatever order they speak, accept what the reference accepts:
\* PKCE is left out only by a confidential client where the provider allows it.
AcceptsWhatIsAcceptable == Answered("authorize") => (Accepts <=> Acceptable)

-----------------------------------------------------------------------------
(* The token endpoint.                                                     *)

\* A client is admitted by the one method it registered and by nothing weaker:
\* no secret moved from the header to the body, no public client with a secret,
\* no empty secret for a client registered without one (authenticateClient).
NoDowngrade ==
  (Answered("token") /\ "admitted" \in DOMAIN answer) =>
    LET client == Registry[answer.admitted]
        cred == request.cred
    IN  CASE client.method = "none" ->
               cred = [basic |-> Absent, id |-> answer.admitted, secret |-> Absent]
          [] client.method = "client_secret_basic" ->
               /\ client.secret \notin {Absent, ""}
               /\ cred = [basic |-> [id |-> answer.admitted, secret |-> client.secret],
                          id |-> Absent, secret |-> Absent]
          [] client.method = "client_secret_post" ->
               /\ client.secret \notin {Absent, ""}
               /\ cred = [basic |-> Absent, id |-> answer.admitted,
                          secret |-> client.secret]

\* The same credentials in another's name.
Renamed(cred, id) ==
  IF cred.basic # Absent THEN [cred EXCEPT !.basic.id = id] ELSE [cred EXCEPT !.id = id]

\* The error of a refusal does not tell whether the client exists: the same
\* credentials in any name, known or not, are refused with the same code and status.
\* (The texts that describe the error are left out, and do differ by check.)
StrangersLookLikeClients ==
  Answered("token") =>
    \A id \in DOMAIN Registry \cup {"nobody"} :
      LET own == AuthenticationError(request.cred, Registry)
          other == AuthenticationError(Renamed(request.cred, id), Registry)
      IN  (own # "none" /\ other # "none" /\ Shown(request.cred).id # Absent)
            => own = other

-----------------------------------------------------------------------------
(* UserInfo and introspection.                                             *)

Tells == Answered("userinfo") /\ "claims" \in DOMAIN answer

\* UserInfo answers for a token exactly when introspection calls it active at that
\* time, also after a revocation between UserInfo's two reads, but for the one second
\* of its expiry: UserInfo tests expiresAt < now and introspection expiresAt <= now,
\* and get() of the stores makes up for it only where it evicts, and only if no
\* second passes between the get and UserInfo's own clock.  UserInfo refuses an
\* active token only for a reason of its own (scope, audience, a subject that is
\* gone, no key to sign with, two tokens at once).
ReadersAgree ==
  Answered("userinfo") =>
    LET found == SecondRead
        report == Introspected(Absent, found, Absent, JudgedAt)
    IN  /\ (Tells /\ ~report.active) =>
             /\ found.expiresAt = JudgedAt
             /\ ~config.evicts \/ JudgedAt > ReadAt
        /\ (report.active /\ answer = Refused("invalid_token")) =>
             \/ Presented(request.header, request.form, request.post) = Absent
             \/ request.user = Absent
             \/ found.audience = Absent \/ "userinfo" \notin found.audience

\* A claim is told only of the token's subject, and only if a scope of the token
\* stands for it or the authorization request asked for it and, where it named
\* values, for the value it has ("if it does not match, it is left out":
\* handleUserInfoRequest).
ClaimsAreCalledFor ==
  Tells =>
    /\ answer.claims["sub"] = request.stored.subject
    /\ \A k \in DOMAIN answer.claims \ {"sub"} :
         /\ answer.claims[k] = request.user[k]
         /\ \/ \E scope \in request.stored.scope \cap DOMAIN ScopeClaims :
                  k \in ScopeClaims[scope]
            \/ /\ request.stored.claims # Absent
               /\ k \in DOMAIN request.stored.claims
               /\ request.stored.claims[k] # AnyValue =>
                    answer.claims[k] \in request.stored.claims[k]

\* The hint never decides: the answer is that of the store that has the token, a
\* token that is spent, or expired when the request arrives or when an evicting store
\* is asked, is inactive, and nothing else is told of it.
HintIsOnlyAHint ==
  (Answered("introspect") /\ "active" \in DOMAIN answer
     /\ Absent \in {request.access, request.refresh}) =>
    LET stored == IF request.access # Absent THEN request.access ELSE request.refresh
        usable == /\ stored # Absent
                  /\ stored.expiresAt > request.now
                  /\ config.evicts => stored.expiresAt > request.now + request.delay
                  /\ request.refresh # Absent => ~stored.used
    IN  /\ answer.active <=> usable
        /\ answer.active => /\ answer.client = stored.client
                            /\ answer.exp = stored.expiresAt
        /\ ~answer.active => DOMAIN answer = {"active"}
=============================================================================
