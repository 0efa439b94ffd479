-------------------------- MODULE RequestChecksProofs --------------------------
(***************************************************************************)
(* What the checks of the four endpoints promise, proved for every registry *)
(* and setting and for every request, however many of its parameters are   *)
(* out of the ordinary: the values a parameter may be sent with are a      *)
(* constant, and so is the number of those that may differ.  The argument  *)
(* is one invariant, that a request stays made of such values and that an  *)
(* answer is the answer to it, and a lemma for each step of a check.       *)
(***************************************************************************)
EXTENDS RequestChecks, TLAPS, FiniteSetTheorems, WellFoundedInduction

\* The request is one that can be sent, and what was answered is the answer to it.
AnswersTheRequest ==
  /\ door \in Doors
  /\ DOMAIN request = DOMAIN Sound[door]
  /\ \A k \in DOMAIN request : request[k] \in Sendable(door, k)
  /\ answer \in {Absent, AnswerAtDoor}

\* Every client puts together what it can send and is answered once.
LEMMA AlwaysAnswersTheRequest == Spec => []AnswersTheRequest
<1>1. Init => AnswersTheRequest
  BY DEF Init, AnswersTheRequest, Sendable
<1>2. AnswersTheRequest /\ [Next]_vars => AnswersTheRequest'
  <2> SUFFICES ASSUME AnswersTheRequest, [Next]_vars PROVE AnswersTheRequest'
    OBVIOUS
  <2>1. ASSUME NEW k \in DOMAIN Alternatives[door], NEW value \in Alternatives[door][k],
               Change(k, value)
        PROVE  AnswersTheRequest'
    <3>1. /\ request' = [request EXCEPT ![k] = value]
          /\ door' = door /\ answer' = Absent
      BY <2>1 DEF Change
    <3>2. value \in Sendable(door, k)
      BY DEF Sendable
    <3>3. \A j \in DOMAIN request' : request'[j] \in Sendable(door, j)
      BY <3>1, <3>2 DEF AnswersTheRequest
    <3> QED
      BY <3>1, <3>3 DEF AnswersTheRequest, Sendable
  <2>2. ASSUME UNCHANGED <<config, door, request>> PROVE AnswerAtDoor' = AnswerAtDoor
    BY <2>2 DEF AnswerAtDoor, AnswerOfUserInfo, AnswerOfIntrospection, SecondRead, Found,
                    ReadAt, JudgedAt
  <2>3. CASE Send
    BY <2>2, <2>3 DEF Send, AnswersTheRequest, Sendable
  <2>4. CASE UNCHANGED vars
    BY <2>2, <2>4 DEF vars, AnswersTheRequest, Sendable
  <2> QED
    BY <2>1, <2>3, <2>4 DEF Next
<1> QED
  BY <1>1, <1>2, PTL DEF Spec

-----------------------------------------------------------------------------
(* The authorization endpoint.                                             *)

\* An authorization request has its parameters, and those that are parsed their types.
LEMMA AuthorizeTyped ==
  ASSUME AnswersTheRequest, door = "authorize"
  PROVE  /\ DOMAIN request =
              {"repeated", "client_id", "response_type", "request", "request_uri",
               "registration"} \cup Overridable
         /\ request.redirect_uri \in Addresses \cup {Absent}
         /\ request.max_age \in Int \cup {Absent}
         /\ \A k \in {"redirect_uri", "max_age", "scope"} :
              (request.request # Absent /\ Stated(request.request.claims, k)) =>
                /\ k = "redirect_uri" => request.request.claims[k] \in Addresses
                /\ k = "max_age" => request.request.claims[k] \in Int
                /\ k = "scope" => request.request.claims[k] # Absent
<1>1. DOMAIN request = DOMAIN Sound["authorize"]
  BY DEF AnswersTheRequest
<1>2. \A k \in DOMAIN request : request[k] \in Sendable("authorize", k)
  BY DEF AnswersTheRequest
<1>3. "redirect_uri" \in DOMAIN request /\ "max_age" \in DOMAIN request
      /\ "request" \in DOMAIN request
  BY <1>1, AuthorizeAssumption DEF Overridable
<1>4. request.redirect_uri \in Addresses \cup {Absent} /\ request.max_age \in Int \cup {Absent}
  BY <1>2, <1>3, AuthorizeAssumption
<1>5. ASSUME NEW k, request.request # Absent, Stated(request.request.claims, k)
      PROVE  request.request.claims[k] \in
               {claims[k] : claims \in
                  {c \in {object.claims :
                            object \in Sendable("authorize", "request") \ {Absent}} :
                     k \in DOMAIN c}} \ {Structured}
  BY <1>2, <1>3, <1>5 DEF Stated
<1> QED
  BY <1>1, <1>4, <1>5, AuthorizeAssumption

\* The parameter that counts is the one that was asked for, and is parsed.
LEMMA EffectiveIsWanted ==
  ASSUME AnswersTheRequest, door = "authorize"
  PROVE  /\ \A k \in Overridable : Effective(request, config)[k] = Wanted(k)
         /\ Wanted("redirect_uri") \in Addresses \cup {Absent}
         /\ Wanted("max_age") \in Int \cup {Absent}
         /\ (request.scope # Absent => Wanted("scope") # Absent)
<1>1. Overridable \subseteq DOMAIN request
  BY AuthorizeTyped
<1>2. \A k \in Overridable : Effective(request, config)[k] = Wanted(k)
  BY <1>1 DEF Effective, ObjectClaims, Stated, Wanted
<1> QED
  BY <1>2, AuthorizeTyped DEF Wanted, Stated

\* An address that is resolved is one of the client's, as far as it need be.
LEMMA ResolvedIsRegistered ==
  ASSUME NEW client, client.redirectUris \subseteq Addresses,
         IsFiniteSet(client.redirectUris),
         NEW asked \in Addresses \cup {Absent}, ResolvedUri(asked, client) # Absent
  PROVE  LET uri == ResolvedUri(asked, client)
         IN  /\ asked \in {Absent, uri}
             /\ asked # Absent => ~uri.fragment /\ MatchesRegistered(uri, client)
             /\ asked = Absent => uri \in client.redirectUris
<1>1. CASE asked = Absent
  <2>1. Cardinality(client.redirectUris) = 1
    BY <1>1 DEF ResolvedUri
  <2>2. client.redirectUris # {}
    BY <2>1, FS_EmptySet
  <2> QED
    BY <1>1, <2>1, <2>2 DEF ResolvedUri
<1>2. CASE asked # Absent
  BY <1>2 DEF ResolvedUri
<1> QED
  BY <1>1, <1>2

\* A set of natural numbers that is not empty has a least.
LEMMA LeastOfNaturals ==
  ASSUME NEW S \in SUBSET Nat, S # {}
  PROVE  Min(S) \in S
<1> DEFINE R == {ss \in Nat \X Nat : ss[1] < ss[2]}
<1>1. IsWellFoundedOn(R, Nat)
  BY NatLessThanWellFounded DEF OpToRel
<1>2. \A i, j \in S : <<j, i>> \notin R => i =< j
  OBVIOUS
<1> HIDE DEF R
<1>3. \E i \in S : \A j \in S : ~(<<j, i>> \in R)
  BY <1>1, WFMin
<1> QED
  BY <1>2, <1>3 DEF Min

\* SelectInSeq, which finds the first check that fails, spelled out.
FirstFailing(checks) ==
  LET I == {i \in 1..Len(checks) : ~checks[i].passed}
  IN  IF I # {} THEN Min(I) ELSE 0

\* The first check that fails is found exactly when one fails.
LEMMA FirstFailure ==
  ASSUME NEW checks, Len(checks) \in Nat
  PROVE  FirstFailing(checks) = 0 <=> \A i \in 1..Len(checks) : checks[i].passed
<1> DEFINE Failing == {i \in 1..Len(checks) : ~checks[i].passed}
<1>1. Failing \in SUBSET Nat /\ 0 \notin Failing
  OBVIOUS
<1>2. Failing # {} => Min(Failing) \in Failing
  <2> HIDE DEF Failing
  <2> QED
    BY <1>1, LeastOfNaturals
<1> QED
  BY <1>1, <1>2 DEF FirstFailing

\* What holds of a request whose answer is sent by redirection.
Settled(p, e, client) ==
  /\ ~p.repeated /\ p.client_id \in DOMAIN Registry
  /\ client.clientId = p.client_id
  /\ \A uri \in client.redirectUris : RegisteredUriSound(uri)
  /\ (p.request # Absent /\ config.requestSupported) =>
       ObjectTrusted(p.request, client, config)
  /\ ResolvedUri(e.redirect_uri, client) # Absent

\* The two answers that are redirections, and when a request is accepted.
LEMMA RedirectionIsSettled ==
  ASSUME AnswersTheRequest, Answered("authorize")
  PROVE  LET e == Effective(request, config)
             checks == Checks(request, e, Client, config)
             sound == \A i \in 1..16 : checks[i].passed
         IN  /\ Redirects => /\ Settled(request, e, Client)
                             /\ answer.uri = ResolvedUri(e.redirect_uri, Client)
                             /\ answer.state = e.state
             /\ Accepts <=> Settled(request, e, Client) /\ sound
             /\ Accepts => answer = Accepted(request, e, Client,
                                             ResolvedUri(e.redirect_uri, Client))
<1> DEFINE e == Effective(request, config)
           checks == Checks(request, e, Client, config)
           first == FirstFailing(checks)
           uri == ResolvedUri(e.redirect_uri, Client)
<1>1. answer = Answer(request, Registry, config)
  BY DEF AnswersTheRequest, Answered, AnswerAtDoor
<1>2. Len(checks) = 16
  BY DEF Checks
<1>3. AnswerTo(request, Client, config) =
        IF uri = Absent THEN Direct("invalid_request")
        ELSE IF first = 0 THEN Accepted(request, e, Client, uri)
        ELSE IF checks[first].told THEN Redirected(checks[first].error, uri, e.state)
        ELSE Direct(checks[first].error)
  BY DEF AnswerTo, SelectInSeq, FirstFailing
<1> HIDE DEF checks
<1>4. first = 0 <=> \A i \in 1..16 : checks[i].passed
  <2>1. Len(checks) \in Nat
    BY <1>2
  <2>2. FirstFailing(checks) = 0 <=> \A i \in 1..Len(checks) : checks[i].passed
    BY <2>1, FirstFailure
  <2> QED
    BY <1>2, <2>2
<1> HIDE DEF first
<1>5. CASE Settled(request, e, Client)
  <2>1. answer = AnswerTo(request, Client, config)
    BY <1>1, <1>5 DEF Answer, Settled, Client
  <2>2. uri # Absent
    BY <1>5 DEF Settled
  <2> QED
    BY <1>3, <1>4, <1>5, <2>1, <2>2
       DEF Accepts, Redirects, Answered, Accepted, Redirected, Direct, checks
<1>6. CASE ~Settled(request, e, Client)
  <2>1. answer.kind = "direct"
    <3>1. \/ answer = Direct("invalid_request") \/ answer = Direct("server_error")
      BY <1>1, <1>3, <1>6 DEF Answer, Settled, Client
    <3> QED
      BY <3>1 DEF Direct
  <2> QED
    BY <1>6, <2>1 DEF Accepts, Redirects
<1> QED
  BY <1>5, <1>6

\* The client of a redirection is registered, with the types of a registration.
LEMMA ClientTyped ==
  ASSUME request.client_id \in DOMAIN Registry
  PROVE  /\ Client.redirectUris \subseteq Addresses
         /\ IsFiniteSet(Client.redirectUris)
         /\ Client.defaultMaxAge \in Int \cup {Absent}
BY RegistryAssumption DEF Client

\* Of the address a request is answered at: the client's, or its loopback host's.
LEMMA AddressIsTheClients ==
  ASSUME AnswersTheRequest, Redirects PROVE AnswersReachTheClient
<1> DEFINE asked == Effective(request, config).redirect_uri
<1>1. Answered("authorize") /\ door = "authorize"
  BY DEF Redirects, Answered
<1>2. /\ Settled(request, Effective(request, config), Client)
      /\ answer.uri = ResolvedUri(asked, Client)
  BY <1>1, RedirectionIsSettled
<1>3. asked \in Addresses \cup {Absent}
  BY <1>1, EffectiveIsWanted DEF Overridable
<1>4. /\ Client.redirectUris \subseteq Addresses
      /\ IsFiniteSet(Client.redirectUris)
      /\ \A known \in Client.redirectUris : RegisteredUriSound(known)
  BY <1>2, ClientTyped DEF Settled
<1>5. /\ answer.uri # Absent
      /\ asked \in {Absent, answer.uri}
      /\ asked # Absent => ~answer.uri.fragment /\ MatchesRegistered(answer.uri, Client)
      /\ asked = Absent => answer.uri \in Client.redirectUris
  BY <1>2, <1>3, <1>4, ResolvedIsRegistered DEF Settled
<1> HIDE DEF asked
<1>6. CASE answer.uri \in Client.redirectUris
  BY <1>4, <1>6 DEF AnswersReachTheClient, RegisteredUriSound
<1>7. CASE answer.uri \notin Client.redirectUris
  <2>1. /\ answer.uri \in Addresses
        /\ ~answer.uri.fragment
        /\ Client.type = "public"
        /\ answer.uri.host \in LoopbackHosts
    BY <1>3, <1>5, <1>7 DEF MatchesRegistered
  <2>2. PICK known \in Client.redirectUris :
          [answer.uri EXCEPT !.port = known.port] = known
    BY <1>5, <1>7 DEF MatchesRegistered
  <2>3. \A part \in DOMAIN known : part # "port" => answer.uri[part] = known[part]
    BY <2>1, <2>2 DEF Addresses
  <2>4. known.host = answer.uri.host
    BY <1>4, <2>3 DEF Addresses
  <2> QED
    BY <1>4, <2>1, <2>3, <2>4 DEF AnswersReachTheClient, RegisteredUriSound
<1> QED
  BY <1>6, <1>7

\* Whatever is sent by redirection goes to an address that the client registered,
\* in the native application's case up to a loopback port (AnswersReachTheClient).
THEOREM RedirectionsReachTheClient == Spec => []AnswersReachTheClient
<1>1. AnswersTheRequest => AnswersReachTheClient
  BY AddressIsTheClients DEF AnswersReachTheClient
<1> QED
  BY <1>1, AlwaysAnswersTheRequest, PTL

\* The parameters of a Request Object supersede those of the query, in the
\* transaction and in the state of an error alike (ObjectSupersedes).
THEOREM ObjectsSupersede == Spec => []ObjectSupersedes
<1>1. ASSUME AnswersTheRequest, Redirects PROVE ObjectSupersedes
  <2> DEFINE e == Effective(request, config)
  <2>1. Answered("authorize") /\ door = "authorize"
    BY <1>1 DEF Redirects, Answered
  <2>2. \A k \in Overridable : e[k] = Wanted(k)
    BY <1>1, <2>1, EffectiveIsWanted
  <2>3. /\ e.state = Wanted("state") /\ e.nonce = Wanted("nonce")
        /\ e.redirect_uri = Wanted("redirect_uri") /\ e.max_age = Wanted("max_age")
        /\ e.code_challenge = Wanted("code_challenge")
    BY <2>2 DEF Overridable
  <2>4. /\ answer.state = e.state
        /\ answer.uri = ResolvedUri(e.redirect_uri, Client)
        /\ ResolvedUri(e.redirect_uri, Client) # Absent
        /\ Accepts => answer = Accepted(request, e, Client, answer.uri)
    BY <1>1, <2>1, RedirectionIsSettled DEF Settled
  <2> HIDE DEF e
  <2>5. e.redirect_uri \in {Absent, answer.uri}
    BY <2>4 DEF ResolvedUri
  <2>6. ASSUME Accepts
        PROVE  /\ answer.nonce = e.nonce /\ answer.challenge = e.code_challenge
               /\ e.max_age \in {Absent, answer.maxAge}
               /\ answer.explicit = (e.redirect_uri # Absent)
    BY <2>4, <2>6 DEF Accepted, MaxAge
  <2> QED
    BY <2>3, <2>4, <2>5, <2>6 DEF ObjectSupersedes
<1>2. ~Redirects => ObjectSupersedes
  BY DEF ObjectSupersedes, Accepts, Redirects
<1>3. AnswersTheRequest => ObjectSupersedes
  BY <1>1, <1>2
<1> QED
  BY <1>3, AlwaysAnswersTheRequest, PTL

\* No object has a say that was not signed with a registered key under its kid, or
\* left unsigned where that is allowed (ObjectIsTheClients).
THEOREM ObjectsAreTheClients == Spec => []ObjectIsTheClients
<1>1. ASSUME AnswersTheRequest, Redirects, request.request # Absent,
             config.requestSupported
      PROVE  ObjectIsTheClients
  <2>1. ObjectTrusted(request.request, Client, config)
    BY <1>1, RedirectionIsSettled DEF Settled, Redirects
  <2> QED
    BY <2>1 DEF ObjectTrusted, Candidates, Verifies, ObjectIsTheClients
<1>2. AnswersTheRequest => ObjectIsTheClients
  BY <1>1 DEF ObjectIsTheClients
<1> QED
  BY <1>2, AlwaysAnswersTheRequest, PTL

\* The conditions that the sixteen checks test, one by one.
AllPass(p, e, client) ==
  /\ p.request = Absent \/ config.requestSupported
  /\ ~p.request_uri /\ ~p.registration
  /\ ~Contradicts(p, config, "response_type")
  /\ ~Contradicts(p, config, "client_id")
  /\ p.response_type # Absent
  /\ p.response_type = "code" /\ p.response_type \in client.responseTypes
  /\ p.scope \notin {Absent, {}} /\ "openid" \in OrEmpty(e.scope)
  /\ PkceSound(e, client, config)
  /\ PromptSound(OrEmpty(e.prompt))
  /\ e.display \in DisplayValues \cup {Absent}
  /\ e.max_age = Absent \/ e.max_age >= 0
  /\ MaxAge(e, client) = Absent \/ MaxAge(e, client) >= 0
  /\ e.claims \in {Absent, "object"}

\* No check of the sixteen fails exactly when the conditions hold.
LEMMA ChecksSpelledOut ==
  ASSUME NEW p, NEW e, NEW client
  PROVE  (\A i \in 1..16 : Checks(p, e, client, config)[i].passed) <=> AllPass(p, e, client)
<1> DEFINE checks == Checks(p, e, client, config)
<1>1. /\ checks[1].passed <=> (p.request = Absent \/ config.requestSupported)
      /\ checks[2].passed <=> (~p.request_uri)
      /\ checks[3].passed <=> (~p.registration)
      /\ checks[4].passed <=> (~Contradicts(p, config, "response_type"))
      /\ checks[5].passed <=> (~Contradicts(p, config, "client_id"))
      /\ checks[6].passed <=> (p.response_type # Absent)
      /\ checks[7].passed <=> (p.response_type = "code")
      /\ checks[8].passed <=> (p.response_type \in client.responseTypes)
      /\ checks[9].passed <=> (p.scope \notin {Absent, {}})
      /\ checks[10].passed <=> ("openid" \in OrEmpty(e.scope))
      /\ checks[11].passed <=> (PkceSound(e, client, config))
      /\ checks[12].passed <=> (PromptSound(OrEmpty(e.prompt)))
      /\ checks[13].passed <=> (e.display \in DisplayValues \cup {Absent})
      /\ checks[14].passed <=> (e.max_age = Absent \/ e.max_age >= 0)
      /\ checks[15].passed <=> (MaxAge(e, client) = Absent \/ MaxAge(e, client) >= 0)
      /\ checks[16].passed <=> (e.claims \in {Absent, "object"})
  BY DEF Checks, Check, Untold
<1> HIDE DEF checks
<1>2. (\A i \in 1..16 : checks[i].passed) <=>
        /\ checks[1].passed /\ checks[2].passed /\ checks[3].passed
        /\ checks[4].passed /\ checks[5].passed /\ checks[6].passed
        /\ checks[7].passed /\ checks[8].passed /\ checks[9].passed
        /\ checks[10].passed /\ checks[11].passed /\ checks[12].passed
        /\ checks[13].passed /\ checks[14].passed /\ checks[15].passed
        /\ checks[16].passed
  OBVIOUS
<1>3. (\A i \in 1..16 : checks[i].passed) <=> AllPass(p, e, client)
  BY <1>1, <1>2 DEF AllPass
<1> QED
  BY <1>3 DEF checks

\* An accepted transaction has openid, a prompt that does not contradict itself, no
\* offline_access without prompt=consent and a max_age that is a duration: what
\* AuthorizationFlow takes for granted (FlowMayAssume).
THEOREM FlowIsRightToAssume == Spec => []FlowMayAssume
<1>1. ASSUME AnswersTheRequest, Accepts PROVE FlowMayAssume
  <2> DEFINE e == Effective(request, config)
  <2>1. Answered("authorize") /\ door = "authorize"
    BY <1>1 DEF Accepts, Answered
  <2>2. /\ \A i \in 1..16 : Checks(request, e, Client, config)[i].passed
        /\ answer = Accepted(request, e, Client, ResolvedUri(e.redirect_uri, Client))
        /\ request.client_id \in DOMAIN Registry
    BY <1>1, <2>1, RedirectionIsSettled DEF Settled
  <2>3. AllPass(request, e, Client)
    BY <2>2, ChecksSpelledOut
  <2>4. e.max_age \in Int \cup {Absent} /\ Client.defaultMaxAge \in Int \cup {Absent}
    BY <1>1, <2>1, <2>2, EffectiveIsWanted, ClientTyped DEF Overridable
  <2>5. MaxAge(e, Client) \in Nat \cup {Absent}
    BY <2>3, <2>4 DEF AllPass, MaxAge
  <2> HIDE DEF e
  <2>6. "openid" \in e.scope
    BY <2>3 DEF AllPass, OrEmpty
  <2>7. /\ "openid" \in GrantableScope(e)
        /\ "offline_access" \in GrantableScope(e) => "consent" \in OrEmpty(e.prompt)
    BY <2>6 DEF GrantableScope
  <2>8. "none" \in OrEmpty(e.prompt) => OrEmpty(e.prompt) = {"none"}
    BY <2>3 DEF AllPass, PromptSound
  <2> QED
    BY <2>2, <2>5, <2>7, <2>8 DEF Accepted, FlowMayAssume
<1>2. AnswersTheRequest => FlowMayAssume
  BY <1>1 DEF FlowMayAssume
<1> QED
  BY <1>2, AlwaysAnswersTheRequest, PTL

\* The parts of the reference that a check states in other words.
AlikeWanted == \A k \in {"client_id", "response_type"} : Wanted(k) = request[k]

PkceWanted ==
  \/ <<Wanted("code_challenge"), Wanted("code_challenge_method")>> = <<"digest", "S256">>
  \/ /\ {Wanted("code_challenge"), Wanted("code_challenge_method")} = {Absent}
     /\ Client.type = "confidential" /\ config.allowNonPkce

PromptWanted ==
  Wanted("prompt") \in {Absent, {"none"}} \cup SUBSET (PromptValues \ {"none"})

AgeWanted ==
  IF Wanted("max_age") = Absent
    THEN Client.defaultMaxAge \in Nat \cup {Absent} ELSE Wanted("max_age") \in Nat

\* Of the reference's conditions, those on the parameters are those of the checks.
LEMMA ConditionsAgree ==
  ASSUME AnswersTheRequest, door = "authorize", request.client_id \in DOMAIN Registry
  PROVE  LET e == Effective(request, config)
         IN  AllPass(request, e, Client) <=>
               /\ ~request.request_uri /\ ~request.registration
               /\ request.request # Absent =>
                    /\ config.requestSupported
                    /\ AlikeWanted
               /\ request.response_type = "code" /\ "code" \in Client.responseTypes
               /\ request.scope \notin {Absent, {}} /\ "openid" \in Wanted("scope")
               /\ PkceWanted
               /\ PromptWanted
               /\ Wanted("display") \in DisplayValues \cup {Absent}
               /\ Wanted("claims") \in {Absent, "object"}
               /\ AgeWanted
<1> DEFINE e == Effective(request, config)
<1>1. \A k \in Overridable : e[k] = Wanted(k)
  BY EffectiveIsWanted
<1>2. /\ e.scope = Wanted("scope") /\ e.code_challenge = Wanted("code_challenge")
      /\ e.code_challenge_method = Wanted("code_challenge_method")
      /\ e.prompt = Wanted("prompt") /\ e.display = Wanted("display")
      /\ e.claims = Wanted("claims") /\ e.max_age = Wanted("max_age")
  BY <1>1 DEF Overridable
<1> HIDE DEF e
<1>3. (request.request = Absent \/ config.requestSupported) =>
        (/\ ~Contradicts(request, config, "response_type")
         /\ ~Contradicts(request, config, "client_id"))
          <=> (request.request # Absent => AlikeWanted)
  BY DEF AlikeWanted, Contradicts, ObjectClaims, Stated, Wanted
<1>4. request.scope \notin {Absent, {}} =>
        ("openid" \in OrEmpty(e.scope) <=> "openid" \in Wanted("scope"))
  BY <1>2, EffectiveIsWanted DEF OrEmpty
<1>5. PkceSound(e, Client, config) <=> PkceWanted
  BY <1>2 DEF PkceSound, PkceWanted
<1>6. PromptSound(OrEmpty(e.prompt)) <=> PromptWanted
  <2>1. CASE e.prompt = Absent
    BY <1>2, <2>1 DEF PromptSound, OrEmpty, PromptWanted
  <2>2. CASE e.prompt # Absent
    <3>1. OrEmpty(e.prompt) = Wanted("prompt")
      BY <1>2, <2>2 DEF OrEmpty
    <3>2. {"none"} \subseteq PromptValues
      BY DEF PromptValues
    <3> QED
      BY <1>2, <2>2, <3>1, <3>2 DEF PromptSound, PromptWanted
  <2> QED
    BY <2>1, <2>2
<1>7. /\ e.max_age = Absent \/ e.max_age >= 0
      /\ MaxAge(e, Client) = Absent \/ MaxAge(e, Client) >= 0
      <=> AgeWanted
  BY <1>2, EffectiveIsWanted, ClientTyped DEF MaxAge, AgeWanted
<1> QED
  BY <1>2, <1>3, <1>4, <1>5, <1>6, <1>7, SentinelsAssumption DEF AllPass, e

\* An address is resolved where the reference finds one, and only there.
LEMMA AddressesAgree ==
  ASSUME AnswersTheRequest, door = "authorize", request.client_id \in DOMAIN Registry
  PROVE  ResolvedUri(Wanted("redirect_uri"), Client) # Absent <=>
           \/ Wanted("redirect_uri") = Absent /\ Cardinality(Client.redirectUris) = 1
           \/ Wanted("redirect_uri") # Absent /\ ~Wanted("redirect_uri").fragment
              /\ MatchesRegistered(Wanted("redirect_uri"), Client)
<1>1. ASSUME Cardinality(Client.redirectUris) = 1
      PROVE  (CHOOSE uri \in Client.redirectUris : TRUE) # Absent
  <2>1. Client.redirectUris # {}
    BY <1>1, ClientTyped, FS_EmptySet
  <2> QED
    BY <2>1, ClientTyped, SentinelsAssumption
<1> QED
  BY <1>1 DEF ResolvedUri

\* The checks, in their order, accept what the reference accepts and nothing else
\* (AcceptsWhatIsAcceptable).
THEOREM AcceptableIsAccepted == Spec => []AcceptsWhatIsAcceptable
<1>1. ASSUME AnswersTheRequest, Answered("authorize") PROVE Accepts <=> Acceptable
  <2> DEFINE e == Effective(request, config)
             known == request.client_id \in DOMAIN Registry
             given == request.request # Absent
             trusted == ObjectTrusted(request.request, Client, config)
  <2>1. door = "authorize"
    BY <1>1 DEF Answered
  <2>2. e.redirect_uri = Wanted("redirect_uri")
    BY <1>1, <2>1, EffectiveIsWanted DEF Overridable
  <2>3. Accepts <=> Settled(request, e, Client) /\ AllPass(request, e, Client)
    BY <1>1, RedirectionIsSettled, ChecksSpelledOut
  <2> HIDE DEF e, known, trusted
  <2>4. CASE known
    BY <1>1, <2>1, <2>2, <2>3, <2>4, ConditionsAgree, AddressesAgree
       DEF Settled, Acceptable, AlikeWanted, PkceWanted, PromptWanted, AgeWanted,
           known, trusted, e
  <2>5. CASE ~known
    BY <2>3, <2>5 DEF Settled, Acceptable, known
  <2> QED
    BY <2>4, <2>5
<1>2. AnswersTheRequest => AcceptsWhatIsAcceptable
  BY <1>1 DEF AcceptsWhatIsAcceptable
<1> QED
  BY <1>2, AlwaysAnswersTheRequest, PTL

-----------------------------------------------------------------------------
(* The token endpoint.                                                     *)

\* Credentials have their three parts.
LEMMA CredentialsTyped ==
  ASSUME AnswersTheRequest, door = "token"
  PROVE  request.cred \in Credentials
<1>1. "cred" \in DOMAIN request
  BY CredentialsAssumption DEF AnswersTheRequest
<1> QED
  BY <1>1, CredentialsAssumption DEF AnswersTheRequest

\* A client is admitted by the method it registered and by nothing weaker
\* (NoDowngrade).
THEOREM MethodsAreKept == Spec => []NoDowngrade
<1>1. ASSUME AnswersTheRequest, Answered("token"), "admitted" \in DOMAIN answer
      PROVE  NoDowngrade
  <2> DEFINE cred == request.cred
             client == Registry[answer.admitted]
  <2>1. door = "token" /\ cred \in Credentials
    BY <1>1, CredentialsTyped DEF Answered
  <2>2. answer = Admission(cred, request.grant_type, request.wellFormed, Registry,
                           config.grantTypes)
    BY <1>1, <2>1 DEF AnswersTheRequest, Answered, AnswerAtDoor
  <2>3. /\ AuthenticationError(cred, Registry) = "none"
        /\ answer.admitted = Shown(cred).id
    BY <1>1, <2>2 DEF Admission
  <2>4. /\ ~TwoMethods(cred) /\ Proven(cred, client)
        /\ answer.admitted \in DOMAIN Registry
    BY <2>3 DEF AuthenticationError
  <2>5. client.method \in {"none", "client_secret_basic", "client_secret_post"}
    BY <2>4, RegistryAssumption
  <2> HIDE DEF cred, client
  <2>6. cred = [basic |-> cred.basic, id |-> cred.id, secret |-> cred.secret]
    BY <2>1 DEF Credentials
  <2>7. CASE client.method = "none"
    <3>1. cred.basic = Absent /\ cred.secret = Absent /\ answer.admitted = cred.id
      BY <2>3, <2>4, <2>7 DEF Proven, PublicProven, Shown
    <3> QED
      BY <2>6, <2>7, <3>1 DEF NoDowngrade, cred, client
  <2>8. ASSUME client.method # "none"
        PROVE  /\ UsedMethod(cred) = client.method
               /\ client.secret \notin {Absent, ""}
               /\ Shown(cred).secret = client.secret
    BY <2>4, <2>8 DEF Proven, SecretProven
  <2>9. CASE client.method = "client_secret_basic"
    <3>1. cred.basic # Absent /\ cred.id = Absent /\ cred.secret = Absent
      BY <2>4, <2>8, <2>9 DEF UsedMethod, TwoMethods
    <3>2. cred.basic = [id |-> answer.admitted, secret |-> client.secret]
      BY <2>1, <2>3, <2>8, <2>9, <3>1 DEF Credentials, Shows, Shown
    <3> QED
      BY <2>6, <2>8, <2>9, <3>1, <3>2 DEF NoDowngrade, cred, client
  <2>10. CASE client.method = "client_secret_post"
    <3>1. cred.basic = Absent
      BY <2>8, <2>10 DEF UsedMethod
    <3>2. cred.id = answer.admitted /\ cred.secret = client.secret
      BY <2>3, <2>8, <2>10, <3>1 DEF Shown
    <3> QED
      BY <2>6, <2>8, <2>10, <3>1, <3>2 DEF NoDowngrade, cred, client
  <2> QED
    BY <2>5, <2>7, <2>9, <2>10
<1>2. AnswersTheRequest => NoDowngrade
  BY <1>1 DEF NoDowngrade
<1> QED
  BY <1>2, AlwaysAnswersTheRequest, PTL

\* Another name leaves the method and the number of methods as they are.
LEMMA RenamedKeepsMethods ==
  ASSUME NEW cred \in Credentials, NEW id \in Names
  PROVE  Shown(cred).id # Absent => (TwoMethods(Renamed(cred, id)) <=> TwoMethods(cred))
<1>1. CASE cred.basic # Absent
  <2>1. cred.basic \in Shows
    BY <1>1 DEF Credentials
  <2>2. Renamed(cred, id) = [cred EXCEPT !.basic = [cred.basic EXCEPT !.id = id]]
    BY <1>1, <2>1 DEF Renamed, Credentials
  <2>3. [cred.basic EXCEPT !.id = id] \in Shows
    BY <2>1 DEF Shows
  <2>4. /\ Renamed(cred, id).basic # Absent /\ Renamed(cred, id).id = cred.id
        /\ Renamed(cred, id).secret = cred.secret
    BY <2>2, <2>3, SentinelsAssumption DEF Credentials
  <2> QED
    BY <1>1, <2>4 DEF TwoMethods
<1>2. CASE cred.basic = Absent
  <2>1. Renamed(cred, id).basic = Absent
    BY <1>2 DEF Renamed, Credentials
  <2> QED
    BY <1>2, <2>1 DEF TwoMethods
<1> QED
  BY <1>1, <1>2

\* The error of a refusal does not tell whether the client exists
\* (StrangersLookLikeClients).
THEOREM StrangersCannotBeTold == Spec => []StrangersLookLikeClients
<1>1. ASSUME AnswersTheRequest, Answered("token") PROVE StrangersLookLikeClients
  <2>1. request.cred \in Credentials
    BY <1>1, CredentialsTyped DEF Answered
  <2>2. \A cred : AuthenticationError(cred, Registry) # "none" =>
          AuthenticationError(cred, Registry) =
            IF TwoMethods(cred) THEN "invalid_request" ELSE "invalid_client"
    BY DEF AuthenticationError
  <2>3. ASSUME NEW id \in DOMAIN Registry \cup {"nobody"}, Shown(request.cred).id # Absent
        PROVE  TwoMethods(Renamed(request.cred, id)) <=> TwoMethods(request.cred)
    <3>1. id \in Names
      BY DEF Names
    <3> QED
      BY <2>1, <2>3, <3>1, RenamedKeepsMethods
  <2> QED
    BY <2>2, <2>3 DEF StrangersLookLikeClients
<1>2. AnswersTheRequest => StrangersLookLikeClients
  BY <1>1 DEF StrangersLookLikeClients
<1> QED
  BY <1>2, AlwaysAnswersTheRequest, PTL

-----------------------------------------------------------------------------
(* UserInfo and introspection.                                             *)

\* What is stored was issued before it is read, and a user is the token's subject.
LEMMA UserInfoTyped ==
  ASSUME AnswersTheRequest, door = "userinfo"
  PROVE  /\ request.now \in Int /\ request.pause \in Nat /\ request.delay \in Nat
         /\ request.stored # Absent =>
              /\ request.stored.expiresAt \in Int
              /\ request.stored.nbf # Absent =>
                   request.stored.nbf \in Int /\ request.stored.nbf <= request.now
         /\ (request.user # Absent /\ request.stored # Absent) =>
              "sub" \in DOMAIN request.user /\ request.user["sub"] = request.stored.subject
<1>1. \A k \in {"stored", "user", "now", "pause", "delay"} :
        request[k] \in Sendable("userinfo", k)
  BY StoredAssumption DEF AnswersTheRequest
<1>2. /\ request.now \in Int /\ request.pause \in Nat /\ request.delay \in Nat
  BY <1>1, StoredAssumption
<1> QED
  BY <1>1, <1>2, StoredAssumption

\* UserInfo tells of a token that its second read finds, and refuses it as invalid
\* for no reason but those of UserInfo's own.
LEMMA UserInfoTells ==
  ASSUME AnswersTheRequest, Answered("userinfo")
  PROVE  LET first == Found(request.stored, request.now)
             asked == IF first = Absent \/ first.claims = Absent
                        THEN [k \in {} |-> AnyValue] ELSE first.claims
         IN  /\ Tells =>
                  /\ SecondRead # Absent /\ request.user # Absent
                  /\ ~(SecondRead.expiresAt < JudgedAt)
                  /\ answer.claims =
                       [k \in Disclosed(SecondRead, asked, request.user) |-> request.user[k]]
             /\ answer = Refused("invalid_token") =>
                  \/ Presented(request.header, request.form, request.post) = Absent
                  \/ SecondRead = Absent \/ SecondRead.expiresAt < JudgedAt
                  \/ request.user = Absent \/ SecondRead.audience = Absent
                  \/ "userinfo" \notin SecondRead.audience
<1> DEFINE first == Found(request.stored, request.now)
           asked == IF first = Absent \/ first.claims = Absent
                      THEN [k \in {} |-> AnyValue] ELSE first.claims
           told == UserInfo(SecondRead, asked, request.user, "userinfo", JudgedAt)
           token == Presented(request.header, request.form, request.post)
<1>1. answer = AnswerOfUserInfo
  BY DEF AnswersTheRequest, Answered, AnswerAtDoor
<1>2. \/ answer = Refused("invalid_request")
      \/ answer = Refused("invalid_token") /\ token = Absent
      \/ "error" \in DOMAIN told /\ answer = told
      \/ "error" \notin DOMAIN told /\ answer = Refused("server_error")
      \/ "error" \notin DOMAIN told /\ "claims" \in DOMAIN answer
           /\ answer.claims = told.claims
  BY <1>1 DEF AnswerOfUserInfo, UserInfoAnswer
<1>3. CASE \E error \in {"invalid_token", "insufficient_scope"} : told = Refused(error)
  <2>1. "error" \in DOMAIN told /\ "claims" \notin DOMAIN told
    BY <1>3 DEF Refused
  <2> HIDE DEF told, token
  <2>2. ~Tells
    BY <1>2, <2>1 DEF Refused, Tells
  <2>3. ASSUME answer = Refused("invalid_token"), token # Absent
        PROVE  told = Refused("invalid_token")
    BY <1>2, <2>1, <2>3 DEF Refused
  <2>4. told = Refused("invalid_token") =>
          \/ SecondRead = Absent \/ SecondRead.expiresAt < JudgedAt
          \/ request.user = Absent \/ SecondRead.audience = Absent
          \/ "userinfo" \notin SecondRead.audience
    BY DEF told, UserInfo, Refused
  <2> QED
    BY <2>2, <2>3, <2>4 DEF token
<1>4. CASE ~\E error \in {"invalid_token", "insufficient_scope"} : told = Refused(error)
  <2>1. /\ SecondRead # Absent /\ request.user # Absent
        /\ ~(SecondRead.expiresAt < JudgedAt)
        /\ told = [claims |-> [k \in Disclosed(SecondRead, asked, request.user) |->
                                request.user[k]]]
    BY <1>4 DEF UserInfo
  <2>2. "error" \notin DOMAIN told
        /\ told.claims = [k \in Disclosed(SecondRead, asked, request.user) |-> request.user[k]]
    BY <2>1
  <2> HIDE DEF told, token
  <2>3. answer = Refused("invalid_token") => token = Absent
    BY <1>2, <2>2 DEF Refused
  <2>4. Tells => answer.claims = told.claims
    BY <1>2, <2>2 DEF Refused, Tells
  <2> QED
    BY <2>1, <2>2, <2>3, <2>4 DEF token
<1> QED
  BY <1>3, <1>4

\* UserInfo answers for a token exactly when introspection calls it active at the same
\* time, but in the one second of its expiry where the store did not drop it, and
\* unless UserInfo has a reason of its own (ReadersAgree).
THEOREM ReadersDoAgree == Spec => []ReadersAgree
<1>1. ASSUME AnswersTheRequest, Answered("userinfo") PROVE ReadersAgree
  <2> DEFINE report == Introspected(Absent, SecondRead, Absent, JudgedAt)
  <2>1. /\ ReadAt \in Int /\ JudgedAt \in Int
        /\ request.now <= ReadAt /\ ReadAt <= JudgedAt
    BY <1>1, UserInfoTyped DEF Answered, ReadAt, JudgedAt
  <2>2. SecondRead # Absent =>
          /\ SecondRead = request.stored
          /\ SecondRead.expiresAt \in Int
          /\ SecondRead.nbf # Absent => SecondRead.nbf <= JudgedAt
    BY <1>1, <2>1, UserInfoTyped DEF Answered, SecondRead, Found, Kept
  <2>3. (SecondRead # Absent /\ config.evicts) => ~(SecondRead.expiresAt <= ReadAt)
    BY DEF SecondRead, Found, Kept
  <2>4. report.active => SecondRead # Absent /\ SecondRead.expiresAt > JudgedAt
    BY DEF Introspected, AccessReport, AccessActive, Inactive
  <2>5. (SecondRead # Absent /\ SecondRead.expiresAt > JudgedAt) => report.active
    BY <2>2 DEF Introspected, AccessReport, AccessActive, Report
  <2> HIDE DEF report
  <2>6. ASSUME Tells, ~report.active
        PROVE  /\ SecondRead.expiresAt = JudgedAt
               /\ ~config.evicts \/ JudgedAt > ReadAt
    <3>1. SecondRead # Absent /\ ~(SecondRead.expiresAt < JudgedAt)
      BY <1>1, <2>6, UserInfoTells
    <3>2. SecondRead.expiresAt = JudgedAt
      BY <2>1, <2>2, <2>5, <2>6, <3>1
    <3>3. config.evicts => JudgedAt > ReadAt
      BY <2>1, <2>3, <3>1, <3>2
    <3> QED
      BY <3>2, <3>3
  <2>7. ASSUME report.active, answer = Refused("invalid_token")
        PROVE  \/ Presented(request.header, request.form, request.post) = Absent
               \/ request.user = Absent
               \/ SecondRead.audience = Absent \/ "userinfo" \notin SecondRead.audience
    <3>1. SecondRead # Absent /\ ~(SecondRead.expiresAt < JudgedAt)
      BY <2>1, <2>2, <2>4, <2>7
    <3> QED
      BY <1>1, <2>7, <3>1, UserInfoTells
  <2> QED
    BY <2>6, <2>7 DEF ReadersAgree, report
<1>2. AnswersTheRequest => ReadersAgree
  BY <1>1 DEF ReadersAgree
<1> QED
  BY <1>2, AlwaysAnswersTheRequest, PTL

\* A claim that is told is of the token's subject, and stood for by a scope of the
\* token or asked for with the value it has (ClaimsAreCalledFor).
THEOREM ClaimsWereCalledFor == Spec => []ClaimsAreCalledFor
<1>1. ASSUME AnswersTheRequest, Tells PROVE ClaimsAreCalledFor
  <2> DEFINE stored == request.stored
             first == Found(stored, request.now)
             asked == IF first = Absent \/ first.claims = Absent
                        THEN [k \in {} |-> AnyValue] ELSE first.claims
             told == Disclosed(stored, asked, request.user)
  <2>1. Answered("userinfo") /\ door = "userinfo"
    BY <1>1 DEF Tells, Answered
  <2>2. /\ stored # Absent /\ request.user # Absent
        /\ answer.claims = [k \in told |-> request.user[k]]
    BY <1>1, <2>1, UserInfoTells DEF SecondRead, Found, Kept
  <2>3. "sub" \in DOMAIN request.user /\ request.user["sub"] = stored.subject
    BY <1>1, <2>1, <2>2, UserInfoTyped
  <2>4. asked = [k \in {} |-> AnyValue] \/ (stored.claims # Absent /\ asked = stored.claims)
    BY DEF Found, Kept
  <2> HIDE DEF asked, stored
  <2>5. ASSUME NEW k \in told \ {"sub"}
        PROVE  \/ \E scope \in stored.scope \cap DOMAIN ScopeClaims : k \in ScopeClaims[scope]
               \/ /\ stored.claims # Absent
                  /\ k \in DOMAIN stored.claims
                  /\ stored.claims[k] # AnyValue => request.user[k] \in stored.claims[k]
    <3>1. k \in ByScope(stored.scope) \/ k \in ByRequest(asked, request.user)
      BY DEF Disclosed
    <3>2. CASE k \in ByScope(stored.scope)
      BY <3>2 DEF ByScope
    <3>3. CASE k \in ByRequest(asked, request.user)
      <4>1. k \in DOMAIN asked /\ (asked[k] = AnyValue \/ request.user[k] \in asked[k])
        BY <3>3 DEF ByRequest, Matches
      <4> QED
        BY <2>4, <4>1
    <3> QED
      BY <3>1, <3>2, <3>3
  <2>6. "sub" \in told
    BY DEF Disclosed
  <2> HIDE DEF told
  <2> QED
    BY <2>2, <2>3, <2>5, <2>6 DEF ClaimsAreCalledFor, stored
<1>2. AnswersTheRequest => ClaimsAreCalledFor
  BY <1>1 DEF ClaimsAreCalledFor
<1> QED
  BY <1>2, AlwaysAnswersTheRequest, PTL

\* What an introspection finds was issued before.
LEMMA IntrospectionTyped ==
  ASSUME AnswersTheRequest, door = "introspect"
  PROVE  /\ request.now \in Int /\ request.delay \in Nat
         /\ request.access # Absent =>
              /\ request.access.expiresAt \in Int
              /\ request.access.nbf # Absent => request.access.nbf <= request.now
         /\ request.refresh # Absent =>
              request.refresh.expiresAt \in Int /\ request.refresh.used \in BOOLEAN
<1>1. \A k \in {"access", "refresh", "now", "delay"} : request[k] \in Sendable("introspect", k)
  BY StoredAssumption DEF AnswersTheRequest
<1> QED
  BY <1>1, StoredAssumption

\* The answer is that of the store that has the token, whatever the hint
\* (HintIsOnlyAHint).
THEOREM HintsAreOnlyHints == Spec => []HintIsOnlyAHint
<1>1. ASSUME AnswersTheRequest, Answered("introspect"), "active" \in DOMAIN answer,
             Absent \in {request.access, request.refresh}
      PROVE  HintIsOnlyAHint
  <2> DEFINE stored == IF request.access # Absent THEN request.access ELSE request.refresh
             usable == /\ stored # Absent
                       /\ stored.expiresAt > request.now
                       /\ config.evicts => stored.expiresAt > request.now + request.delay
                       /\ request.refresh # Absent => ~stored.used
             askedAt == request.now + request.delay
  <2>1. door = "introspect"
    BY <1>1 DEF Answered
  <2>2. answer = Introspected(request.hint, Found(request.access, askedAt),
                              Found(request.refresh, askedAt), request.now)
    BY <1>1, <2>1 DEF AnswersTheRequest, Answered, AnswerAtDoor, AnswerOfIntrospection,
                      Refused
  <2>3. CASE usable
    <3>1. \E type : answer = Report(stored, type)
      <4>1. CASE request.access # Absent
        <5>1. /\ Found(request.refresh, askedAt) = Absent
              /\ Found(request.access, askedAt) = request.access
              /\ AccessActive(request.access, request.now)
          BY <1>1, <2>1, <2>3, <4>1, IntrospectionTyped DEF Found, Kept, AccessActive
        <5> QED
          BY <2>2, <4>1, <5>1 DEF Introspected, AccessReport
      <4>2. CASE request.access = Absent
        <5>1. /\ Found(request.access, askedAt) = Absent
              /\ Found(request.refresh, askedAt) = request.refresh
              /\ request.refresh # Absent
              /\ RefreshActive(request.refresh, request.now)
          BY <1>1, <2>1, <2>3, <4>2, IntrospectionTyped DEF Found, Kept, RefreshActive
        <5> QED
          BY <2>2, <4>2, <5>1 DEF Introspected, RefreshReport
      <4> QED
        BY <4>1, <4>2
    <3> QED
      BY <2>3, <3>1 DEF HintIsOnlyAHint, Report
  <2>4. CASE ~usable
    <3>1. answer = Inactive
      <4>1. CASE request.access # Absent
        <5>1. /\ Found(request.refresh, askedAt) = Absent
              /\ \/ Found(request.access, askedAt) = Absent
                 \/ /\ Found(request.access, askedAt) = request.access
                    /\ ~AccessActive(request.access, request.now)
          BY <1>1, <2>1, <2>4, <4>1, IntrospectionTyped DEF Found, Kept, AccessActive
        <5> QED
          BY <2>2, <5>1 DEF Introspected, AccessReport
      <4>2. CASE request.access = Absent
        <5>1. Found(request.access, askedAt) = Absent
          BY <4>2 DEF Found, Kept
        <5>2. \/ Found(request.refresh, askedAt) = Absent
              \/ /\ Found(request.refresh, askedAt) = request.refresh
                 /\ ~RefreshActive(request.refresh, request.now)
          BY <1>1, <2>1, <2>4, <4>2, IntrospectionTyped DEF Found, Kept, RefreshActive
        <5> QED
          BY <2>2, <5>1, <5>2 DEF Introspected, RefreshReport
      <4> QED
        BY <4>1, <4>2
    <3> QED
      BY <2>4, <3>1 DEF HintIsOnlyAHint, Inactive
  <2> QED
    BY <2>3, <2>4
<1>2. AnswersTheRequest => HintIsOnlyAHint
  BY <1>1 DEF HintIsOnlyAHint
<1> QED
  BY <1>2, AlwaysAnswersTheRequest, PTL
=============================================================================
