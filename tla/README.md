# Verification of maronn-oidc

TLA+ models of the OpenID Provider in this repository, the TLC configurations that check
them on small instances, and theorems, among them every safety property that a run checks, that TLAPS
proves for every value of the constants.

The provider is a library of validation functions (`packages/core/src`) and a set of HTTP
handlers and stores that the CLI generates from templates
(`packages/cli/src/frameworks/*/templates.ts`). What runs is the generated code; the models
follow its checked-in copy, `samples/hono-cloudflare/src/oidc-provider`, together with the
core functions it calls. Paths below are relative to those two directories.

## 1. Inventory

### Components

| Component | State | Operations | Modelled in |
|---|---|---|---|
| Authorization code, access token and refresh token stores (`store.ts`) | one map each, entries with `expiresAt`, `used`, `grantId` | `get` (evicts what expired), `set`, `consume`, `delete`/`revoke`, `revokeByGrantId`, in two implementations: synchronous maps, and `Json*Store` classes over a remote key-value backend | `TokenStores` |
| Token endpoint (`routes/token.ts`, `authorization-code-grant.ts`, `refresh-token-grant.ts`) | none of its own | `authorization_code` and `refresh_token` grants, reuse detection, cascade | `TokenEndpoint` |
| Revocation endpoint (`routes/revocation.ts`, `revocation.ts`) | none | revoke an access token; revoke a refresh token and the access tokens of its grant | `TokenEndpoint` |
| Authorization endpoint (`routes/authorize.ts`, `auth-transaction.ts`) | transaction store (ten-minute entries with `failedAttempts`) | open a transaction; `prompt=none`; single sign-on; send to a form | `AuthorizationFlow` |
| Login and consent forms (`routes/login.ts`, `routes/consent.ts`) | `AuthSessionStore` (subject handed from login to consent), `BrowserSessionStore` and its cookie | failed login, login, consent, denial | `AuthorizationFlow` |
| Consent store (`store.ts`, `resolvers.ts`) | scopes and grant ids by subject and client | `grant`, `hasConsent`, `recordGrant`, `revoke`, `revokeConsentAndTokens` | `AuthorizationFlow`, with the token endpoint in `ConsentCascade` |
| Authorization request validation, Request Objects (`authorization-request.ts`, `request-object.ts`) | none | a pipeline of checks on the query merged with a signed object | `AuthorizationRequest` |
| Client authentication (`client-auth.ts`, `token-request.ts`) | none | a decision over header, body and registration | `ClientAuthentication` |
| UserInfo, introspection (`userinfo.ts`, `introspection.ts` and their routes) | none | read the token stores, disclose claims, report | `TokenReaders` |
| Signing keys, JWKS (`signing-key.ts`, `routes/jwks.ts`, the middleware of `app.ts`) | per worker: active key and key list, each with an expiry | load, refill, sign, publish | `SigningKeyCache` |
| Discovery, key export and strength checks | none | pure functions of configuration and keys | not modelled |
| Token response, ID Token, access token issuers (`token-response.ts`, `access-token-issuer.ts`) | none | resolve acr, assemble, sign | `TokenIssuance`; failure (`SigningFails`) and choice of key (`Sign`) |
| Provider assembly, configuration, views | none at run time | wiring, HTML | key reads (`SigningKeyCache`), shared stores (`ConsentCascade`) |
| CLI generator | none | code generation | not modelled; its output is |

### How they interact

A browser reaches `/authorize`, which stores a transaction and either answers at once (a
code, or an error) or redirects to the login or consent form. The forms and `/authorize` share
the transaction, the hand-over and the browser session. A code joins the front channel to the
token endpoint: its entry is written by `/authorize` or the consent form, and read and
consumed by the token endpoint. The grant id minted with the code is carried into every
access and refresh token, which is how reuse detection, revocation and withdrawal of a consent
find a whole family (`revokeByGrantId`). All sharing is through the stores; there are no
callbacks, queues or background jobs, and expiry happens only when an entry is read.

Before any handler runs, the middleware of `createApp` reads the signing keys, from a cache of
its worker or from the secret store behind it. `/userinfo` and `/introspect` read what the token
endpoint stores; `/token`, `/revoke` and `/introspect` share one client authentication.

### What is hard here

Every handler is an async function and every store call an `await`. Requests therefore
interleave at store calls, and almost every guarantee is a check on an entry followed some
awaits later by a write that presumes it: code single use, refresh rotation, the login
attempt limit, one code per transaction, the union of approved scopes. Store calls can fail
between two writes; nothing is transactional. The JSON backend makes `consume`, `grant`,
`recordGrant`, `revoke` and `revokeByGrantId` sequences of calls where the in-memory stores
make one. Each worker caches keys that an operator rotates, with an await between the test of
an expiry and the refill. What an ID Token says is copied from transaction to code to request to
refresh token and so on; times are read twice; a JWT access token has no name but its own text.
The stateless endpoints are long sequences of checks in which the
order decides what is believed and who is told. Lifetimes are compared in whole seconds, with
`max_age=0` a special case. The list, with its lines, is under `hazards` in
`PROJECT.json`; a hazard without a property has a note that says why: mostly because the code does go wrong
there, and what it still promises is stated by a property about requests that do not meet the hazard.

### What makes each component correct

* Stores and token endpoint: tokens stay within what was granted; a replayed code or refresh
  token is recognised; the lifetime of a family is absolute; a failed rotation leaves a
  usable refresh token; what is dead stays dead; a replay kills the family; a code is
  redeemed once. (A JWT access token is an exception to "stays dead" for as long as it takes to make
  the same one again: a second.)
* Front channel: a code's subject and `auth_time` are from a login recent enough for the
  request; silence carries only approved scopes; a transaction yields one code and does not
  come back; the attempt limit holds.
* Consent: every grant can be withdrawn; a withdrawal is complete and final; every token traces
  back to an approval.
* Stateless checks: answers reach only the client; only what the client signed supersedes the
  query; a client is admitted by its registered method alone; UserInfo and introspection agree on
  a token but for the second of its expiry, and disclose what a scope or a request calls for.
* Issuance: tokens speak of the authorization they come from, whatever was refreshed and narrowed
  in between; an access token is active as long as it says, and revocable with its grant.
* Signing keys: rotation is picked up in bounded time; access tokens verify until they
  expire where the secret store lists its keys, and after a rotation has settled where it does not.

## 2. Modules

| Module | What it is |
|---|---|
| `TokenStores` | state and calls of the three token-side stores |
| `TokenEndpoint` (extends it) | token and revocation endpoints, one process per HTTP request |
| `TokenLifecycle` | abstract specification: codes close, tokens are born and die, and what is dead stays dead; only a `Renewable` token may come and go before it dies |
| `TokenProperties` | properties of `TokenEndpoint`, and the mapping to `TokenLifecycle` |
| `TokenEndpointProofs` | its types and the safety of what is stored, proved |
| `TokenLineageProofs` (extends it) | where tokens come from; the refinement of `TokenLifecycle`, proved |
| `TokenSerialProofs` (extends it) | what holds when requests are served one at a time, proved |
| `AuthorizationFlow` | authorization endpoint, forms, sessions, consents, withdrawal |
| `AuthorizationProperties` | its properties |
| `AuthorizationProofs` | its theorems |
| `ConsentCascade` (extends it, and takes `TokenProperties` by INSTANCE) | front channel and token endpoint over shared stores |
| `ConsentCascadeProofs` (takes `TokenLineageProofs` by INSTANCE) | its theorems, from those of both ends |
| `SigningKeyCache` | key rotation, the caches of several workers, signing and publishing |
| `SigningKeyCacheProofs` | its theorems |
| `TokenIssuance` | what is put into tokens and stored with them, along chains of refreshes |
| `TokenIssuanceProofs` | its theorems |
| `AuthorizationRequest`, `ClientAuthentication`, `TokenReaders` | the stateless checks, as operators |
| `RequestChecks` | every request that differs from a sound one in a few parameters, at the four endpoints that use them, and the properties of their answers |
| `RequestChecksProofs` | its theorems |
| `MCTokenEndpoint`, `MCAuthorizationFlow`, `MCConsentCascade`, `MCSigningKeyCache`, `MCTokenIssuance`, `MCRequestChecks` | symmetry and value sets for TLC |

### How state and actions correspond to the code

A request is a process. `pc[r]` names the store call it is about to make, `req[r]` holds the
local variables that live across an `await`, and the code from one `await` to the next is one
action. The end labels tell how it ended: `done`, `denied`, `replayed` (the error after a
cascade), `page` (sent on to a form), `lost` (no answer, or only a server error) and `cut`
(lost inside a cascade).

Names stand for random strings. A code and its grant id are one to one, so `TokenEndpoint`
calls both by a member of `Grants`; a refresh token is named by the request that minted it, a
transaction by the authorization request that opened it, a browser session by the login that
created it, and in `AuthorizationFlow` a code and its grant by the request that issued it.

An access token is named by the first request that made it, and `AccessTokenFormat` says whether another
may make it again. An opaque token is random. A JWT, the default, is a function of its payload and key:
`token-response.ts:328-338` puts no `jti` into it, RS256 is deterministic, and the text is the key of
its entry (`routes/token.ts:280`). So a request may make any string that a request for the same client
and scope made in that second (`Twins`, `AccessNames`): a refresh right after a redemption or
a `/revoke`, say. "May", because whether two are the same also depends on what the model leaves out (subject,
audience, the key that signed); the setting `"jwt"` has the behaviours of `"opaque"` among its own.
`req[r].minted` is that name and `madeAt` the second, both chosen by `Generate`.

`AtomicStore` chooses the backend. With it, `ConsumeCode`, `RetireRefresh`, `CascadeAccess`,
`CascadeRefresh`, `RecordConsent`, `RecordGrant` and `Withdraw` take one step. Without it the
same operations are the reads and writes of the `Json*Store` classes
(`ConsumeCodeRead`/`ConsumeCodeWrite`, `ListAccess`/`DeleteListedAccess`, `ReadConsent`/
`PutConsent`, ...), and `StoreFails` may end a request at any call.

The token endpoint, in the order of `routes/token.ts`: `CodeNotFound`, `CodeReplayed`,
`CodeRejected` or `CodeAccepted` is `validateAuthorizationCodeGrant`; `ConsumeCode*` marks the code
used; `Recheck` is the handler's second read; `Generate` is `generateTokenResponse`, where the clock
is read and the signatures are awaited; `StoreAccess` and `StoreRefresh` store the new tokens;
`RetireRefresh*` marks the presented refresh token used, after its successor was stored; `Respond`
delivers. The `Cascade`, `List` and `DeleteListed` actions are `revokeTokensByGrantId`, and the
`Revoke*` actions the revocation endpoint.

The front channel: `Authorize` stores the transaction; `ResolveSession`, `CheckConsent` and
`HandOff` are the silent and single sign-on paths; `FormAccepted`/`FormRejected` are
`getAuthTransaction` and `validateCsrfToken` of both forms; `LoginFails` to `LoginResponds` the
login; `ConsentSession`, `Complete`, `Issue`, `Record*`, `Clear` the consent and the code;
`Withdraw`, `Detach`, `RevokeGrant` are `revokeConsentAndTokens`. After `validatePrompt` has
refused `none` beside another value, the branch of `authorize.ts` (lines 182-186) that tests for
it again is never taken, so the model has no such transaction.

`ConsentCascade` runs both next-state relations over one history. Its `IssueCode` is
`AuthorizationFlow`'s `Issue` and `TokenEndpoint`'s `IssueCode` in one step: one call writes the
code for both. `RevokeAccessOf` and `RevokeRefreshOf` are the two store calls per grant that
`RevokeGrant` stands for. A code can be redeemed once the response that carries it was sent
(`Delivered`).

In `SigningKeyCache` a request reads `Reads` in order; `HitKey`/`HitKeys` answer from the cache,
`Miss` asks the secret store (`KeyList`: its list, or its active key where it has no
`getSigningKeys`, which is optional: `listsKeys`), `FillKey`/`FillKeys` are the continuation after
its await, which overwrite whatever another request has cached meanwhile. `Advertise`, `Activate`
and `Withdraw` are the operator, who has nothing to advertise where `listsKeys` is FALSE and then
switches keys at will.

In `TokenIssuance` a token request takes three steps: `Redeem` or `Rotate` is what
`validateTokenRequest` returns, `Generate` is `generateTokenResponse`, and `Save` is the rest of
the handler. Time passes between `Generate` and `Save`, which read the clock by themselves. An
access token is a record of its claims, and that record is the key of its entry; `salt` stands for
the random part that an ECDSA signature or an opaque token has and a JWT signed with RS256 has not
(`RandomNames`). `AcrResolver` is the policy the host application injects, an arbitrary function.

`RequestChecks` has a request in one variable and its answer in another. `Change` edits a
parameter; `Send` applies the endpoint's function. A UserInfo request has three times: `now`, when the store
is first asked, `pause` later when it is asked again (`ReadAt`), and `delay` after that, when
`handleUserInfoRequest` reads its own clock (`JudgedAt`); introspection reads the clock first and asks the
stores `delay` later. `config.evicts` says whether `get` drops what has expired, as the stores of
`store.ts` do; the resolvers that core declares need not. `Checks` of `AuthorizationRequest` lists the
checks in the order of the source, and `AnswerTo` takes the first that fails.

### Abstractions

* Creating a transaction and storing it are one step; nothing else can see it in between.
* There is one browser with many tabs: a request carries the cookie the browser holds when it
  is sent, and responses may arrive in any order.
* A wrong CSRF token, redirect URI or PKCE verifier is a choice (`FormRejected`, `proven`).
* An in-memory transaction is an object that requests share even after its deletion, so
  failures are counted in `failures`; the JSON backend gives each request a copy (`attempts`).
* `get` of the JSON stores deletes an expired entry in a second call; both are one step, since
  an expired entry is never returned either way.
* `Promise.all` of a JSON cascade deletes the listed keys in any order. If one call rejects the
  others still run; the model lets them run before the rejection or not at all.
* The idle timeout of refresh tokens is opt-in and no generated provider turns it on; it is
  left out. Nonce, audience, `acr` and the tokens' text are in `TokenIssuance` only.
* `TokenIssuance` saves in one step and revokes a grant when no request is in flight: what happens
  between store calls is the subject of `TokenEndpoint`. `acr` stands for the pair of `acr` and
  `amr`, which are resolved, stored and repeated together. Profile claims, `at_hash` and the
  requested `claims` other than `acr` are left out of it; so is that the entry of a string made twice keeps
  the claims request of the later response only.
* `AuthorizationFlow` reduces "revoke the tokens of grant g" to one step (`revoked`);
  `ConsentCascade` gives it its two store calls.
* `ConsentCascade` uses in-memory stores, and leaves `openid` out of token scopes as
  `TokenStores` does. A refresh that asks for `openid` alone is one that asks for the empty set.
* Of the middleware's six reads of keys, `SigningKeyCache` keeps the three whose results are
  used when key lists are not empty; the others may refill a cache too, as another request's
  read does in the model. All keys are RS256, and one provider serves all purposes.
* A key's and a cache entry's age are measured in one clock; `MaxServe` bounds a request.
* The stateless modules take parsed values: URLs are records of what the comparison looks at, a
  signature is the key that made it, a challenge is right or not, `error_description` is left out.
  What `matchRedirectUri` ignores of a loopback URL (its port, and what the comparison of the parsed
  parts drops: user information, fragment, normalisation; `authorization-request.ts:352-363`) is one
  thing, "the port". Parameters that are only passed on (locales, hints, `acr_values`, `audience`)
  are left out.

## 3. Runs

Each run that passes asks one question; the bounds are in its `.cfg`. Type invariants that are proved
(section 4) are not run as well, `flow_consent`'s apart.

| Run | Shows |
|---|---|
| `token_json` | JSON backend, two requests in flight of three, one scope beside `openid`, JWTs, failing calls: `ReplayDetectable`, `SpentHasSuccessor`, `AbsoluteLifetime`, `NoRevival`, and that `TokenEndpoint` implements `TokenLifecycle` |
| `token_serial` | in-memory stores, two scopes, JWTs, four requests one at a time, hence sequential replays and rotations only: `CodeRedeemedOnce`, `OneUsableRefresh`, `ReplayKillsFamily` |
| `token_live` | JSON backend, two clients, two scopes, opaque access tokens, two requests: `TokensWithinGrant`; `RequestsEnd`, `CascadeReaches` under fairness |
| `flow_login` | two tabs, forced logins, `max_age` 0 and 1, clock: `AuthenticationIsFresh`, `LockoutHolds` |
| `flow_consent` | two users, five requests: `TypeOK`, `SilenceHasConsent`, `EveryGrantIndexed` |
| `flow_serial` | JSON backend, one request at a time (no overlapping submissions), hints, every prompt, failing calls: `OneCodePerTransaction`, `SilenceHasConsent`, `ClosedIsFinal` |
| `flow_live` | `RequestsEnd`, `WithdrawalCompletes` under fairness |
| `cascade` | both halves over one set of stores, JWTs: `WithdrawalIsFinal`, `TokensTraceToConsent`, `ImplementsLifecycle` |
| `keys` | two workers, two requests, one rotation, with and without a list of keys: `RotationPickedUp`, `AccessTokensVerify` |
| `issuance` | two grants, three requests, JWTs without a random part: `ContextSurvives`, `DroppedStaysDropped`, `AnsweredIsActive`, `RevocationReaches` |
| `requests` | up to three changed parameters at each of four endpoints. Authorization: `AnswersReachTheClient`, `ObjectSupersedes`, `ObjectIsTheClients`, `FlowMayAssume`, `AcceptsWhatIsAcceptable`. Token: `NoDowngrade`, `StrangersLookLikeClients`. Readers: `ReadersAgree`, `ClaimsAreCalledFor`, `HintIsOnlyAHint` |
| `token_race_redeem` | ends in a violation, see below |

`AcceptsWhatIsAcceptable` compares the ordered checks with `Acceptable`, a reference that has no
order and reads the merged value of each parameter directly; the two share their helper operators,
so it is about order and source of the parameters, not about what each check accepts. `ReadersAgree`
compares two endpoints with different comparisons (`<` and `<=`) of one expiry, and says in which
second, of which stores and under which delays they differ. `NoRevival` and `ImplementsLifecycle`
say what is left of "what is dead stays dead" with JWTs: only the response of a request that made
the string stores it, and only one that made it in its first second, for the same client and scope;
once that second is over and no such request is left, it is dead. `AnsweredIsActive` is about the
default format; it is weaker than the exact equality of `expires_in` and `expiresAt` that
`access-token-issuer.ts:64-67` asks for of opaque tokens. `FlowMayAssume` is what
`AuthorizationFlow` takes for granted of a transaction.

**Why these bounds.** The shortest rotation that matters needs three requests (redeem, refresh,
replay), and a family with a narrowed branch four. Two in flight is where a check and a write of two
actors first interleave. `MaxTime`, the lifetimes and `TxnLifetime` are small numbers chosen so
that codes, access tokens and refresh tokens expire at different moments inside a run. In
the front channel four requests make a whole authorization (open, log in, consent) and one
more that reuses it; with five, a second user logs in between. Requests are interchangeable
names, and so are users where no hint names one, so they are permuted (never in a liveness
run). `CHECK_DEADLOCK FALSE` because the requests and the clock are bounded: when they are used
up the system stops as it should.

`cascade` has just enough requests to obtain a code through the forms, withdraw the consent, and
redeem and refresh; the whole family of one grant is reached, and withdrawals meet requests in every
stage of rotation. In `keys`, two requests of one worker are what it takes for a slow fill to
overwrite a newer one, and two workers for one to publish what another signed with; one rotation
(two keys) runs through all its phases before `MaxTime`, with the smallest `Ahead` and `Keep` that
`PolicyAssumption` allows. `LastSwitch` has a rotation that nothing announces happen early enough
for every cache to settle afterwards (`Slack` is 3, `MaxTime` 8). Three changed parameters make any
three checks of `requests` fail at once, so that their order shows, and let UserInfo's two reads,
its clock and the expiry of a token fall in any order around one second, with stores of either kind;
one registration or Request Object of each relevant kind is among the values.

`issuance` has the requests for a code and two refreshes of it, so that a value may be lost at a
first refresh and missed at a second, or for two codes and one refresh; the scope is narrowed to
any subset, and lifetimes are short enough for a code, an access token and a refresh token to end.

**What small instances leave out.** `token_json` and `token_live` use the JSON backend,
`token_serial` and `cascade` the in-memory stores. Two clients are in `token_live` only, with two
requests; `TokensStayWithinGrant` is proved for any number. The cascade of `token_live` is the one
of a replayed code; that of a replayed refresh token is the same code after `RefreshReplayed`.
`cascade` serves the requests of each end one at a time, a token request beside one of the front
channel, and sends no `prompt=none`; silent codes come from single sign-on, which asks `HasConsent`
the same. `flow_consent` sends no `prompt=consent`, so `offline_access` enters a transaction only in
`flow_serial`, whose requests do not overlap, and in `cascade`.

**Fairness.** `FairSpec` assumes weak fairness of `Serve(r)` for each request: a promise that a
store returned settles and the event loop resumes the handler. Users, the clock and
failures have none. A request may therefore also die by `StoreFails`; the liveness properties
allow for it.

### Where the code and its documentation differ

`token_race_redeem` ends in a violation, and its `findings` entry quotes the promise: `used` is
tested at the first read and set two awaits later, so two overlapping requests both redeem one
code.

Others were seen with the same models, by lifting a bound of a run or by stating the promise
as a property, and have no run of their own:

* Without `MaxInFlight = 1`, two rotations of one refresh token leave two usable successors
  (`OneUsableRefresh`), and a reuse cascade deletes what is stored at that moment while a request
  that has passed its checks stores its tokens afterwards (`ReplayKillsFamily`).
* Two overlapping submissions of the consent form each get a code (`OneCodePerTransaction`).
* Over the JSON backend, overlapping updates of a consent lose a grant id (`EveryGrantIndexed`),
  overlapping failed logins overwrite each other's count (`LockoutHolds`), and `recordGrant` can
  put back scopes that a withdrawal has just deleted.
* A withdrawal does not touch an unexchanged code, nor a request under way at the token endpoint:
  either yields live tokens of a revoked grant. `WithdrawalIsFinal` is therefore about grants
  that were `Quiet`: redeemed, and with nothing under way.
* `study-material/done/userinfo-access-token-expiry-boundary-consistency.md:107-114` says that at
  `expiresAt === now` UserInfo answers 200 and introspection `active: false`. `userinfo.ts:380` tests
  `expiresAt < now`, `introspection.ts:95` `<=`. With the stores of `store.ts`, whose `get` evicts at
  `<=`, that happens only if a second passes between the `get` and UserInfo's own `Date.now()` after
  it; with a store that does not evict, throughout the second. `ReadersAgree` excepts exactly these two cases.
* A JWT access token that was revoked, alone or by a cascade, is stored live again if a refresh of
  its grant makes it again within its second (`token-response.ts:328-338`, `routes/token.ts:280`). `NoRevival`
  without its exception for `SameText` fails.
* `app.ts:52-53` says that the JWKS serves only the current key and that tokens signed with a
  rotated-out key fail verification; `routes/jwks.ts:10-12` says that rotated-out keys remain
  verifiable. The code does either: `getSigningKeys` is optional (`signing-key.ts:35-42`,
  `:238-240`), and what the first comment says is true of a secret store without it.
  `AccessTokensVerify` states the second for stores that list their keys; for the others it promises
  the active key's tokens, once a rotation is `Slack` ago. Until then not even these need verify:
  the key and the set that is published are cached apart.
* ID Tokens are signed with the newest advertised key, active or not
  (`signing-key.ts:13` says that the active key signs). `AccessTokensVerify` is about access
  tokens, which are signed with the active key. Without a list the active key signs ID Tokens as well.
* `routes/introspection.ts:24` says "Confidential client only"; the shared client
  authentication admits a public client by its name.
* `routes/token.ts:278` says that the stored grant id lets a token be revoked with its siblings. The
  store's key is the token, and a JWT signed with RS256 is a function of its payload, without a `jti`:
  two grants of one user, client, scope and audience whose tokens are made in the same second are
  answered one and the same string, whose entry names the grant that was stored last. In
  `TokenIssuance` with `RandomNames = FALSE` the property `NothingOutlives` fails after ten steps: a
  grant is revoked and its token stored again for the other. `RevocationReaches` states what is left
  of the promise, and `NamesSuffice` proves that a random part would restore it. The other way
  round, revoking one of the two grants revokes the token of both.
* `routes/token.ts:259` and `:300` say that a refresh repeats the nonce; `:197` drops it, as the
  comment above that line explains. `ContextSurvives` states what the code does.
* `routes/token.ts:289` says that a JWT has the `nbf` that is stored. The two are read from the clock
  one signature apart, so the stored one may be a second later; an introspection in that second
  still finds the token active, because it comes after the answer (`AnsweredIsActive`).
* The entry of a refresh token keeps the narrowed scope, so a later refresh cannot ask for what was
  "originally" granted (`refresh-token-grant.ts:100`), `offline_access` apart.
* A code redeemed without `openid` resolves no `acr`. It is stored as missing, which is harmless
  because `openid` cannot come back (`AcrKept` in `TokenIssuanceProofs`).
* The consent action of `samples/nextjs-vercel` stores a code without calling `recordGrant`, as
  the Hono consent route does.

## 4. Theorems

Every invariant and action property of section 3 is a theorem, and so are both refinements of
`TokenLifecycle`. A run shows its property on one small instance, and that its cases occur; the
theorem says that nothing depends on the instance.

### Token endpoint

`TokenEndpointProofs` and `TokenLineageProofs` prove, for any sets of grants, clients, scopes and
requests, any lifetimes, any number of requests in flight and both backends:

| Theorem | States |
|---|---|
| `TypeCorrect` | `Spec => []TypeOK` |
| `SafetyInvariant` | `Spec => []Safe`, the inductive invariant |
| `TokensStayWithinGrant` | `Spec => []TokensWithinGrant` |
| `ReplaysAreDetectable` | `Spec => []ReplayDetectable` |
| `LifetimeIsAbsolute` | `Spec => []AbsoluteLifetime` |
| `NothingRevives` | `Spec => NoRevival` |
| `EndpointsImplementLifecycle` | `Spec => ImplementsLifecycle` |
| `SpentHasItsSuccessor` | `Spec => []SpentHasSuccessor` |

`TokenSerialProofs` proves, from the hypothesis `MaxInFlight = 1` and for the rest as generally:

| Theorem | States |
|---|---|
| `CodesAreRedeemedOnce` | `Spec => []CodeRedeemedOnce` |
| `OneRefreshTokenIsUsable` | `Spec => []OneUsableRefresh` |
| `ReplaysEndTheFamily` | `Spec => []ReplayKillsFamily` |

The hypothesis is necessary: section 3 describes how each of them fails with two requests in flight,
and `token_race_redeem` shows it of the first.

Assumptions: `StoresAssumption` (positive lifetimes; `Absent` is none of the entries) and
`EndpointAssumption` (the backend is a Boolean, the format is `"jwt"` or `"opaque"`;
`RefreshClients` are clients; `Absent` is no record and no number). TLC evaluates both in every
token run.

**The argument for `Safe`.** `TypeOK` is not inductive alone: an action reads `req[r].entry` or
`req[r].grant` and must know which it holds. `Typed` adds `Control`, which says what a request has in
hand at each label. On top of it `Safe` is the conjunction of `CodeSafe`, `AccessSafe`, `RefreshSafe`
and `RequestSafe`. The properties speak of what is stored; the write that could break them is made
several awaits after the read that justifies it, so the invariant must speak of what requests
hold in between. `RequestSafe` therefore says that a request past its checks holds a scope within
its grant, that the grant's code is closed from its consumption on (spent or expired, and both
last), and that its `originalIssuedAt` is that of some redemption (`Rooted`) which its new refresh
token inherits (`Inherits`). With that, each store write is one lookup in the invariant. Each
action has one step in the proof that `Next` preserves `Typed`, and one in the proof that it
preserves `Safe`; actions that only read or end a request share lemmas.

**Lineage.** The later proofs do not split on the actions again. `TokenLineageProofs` first
catalogues what a step may do: to the label of a request (`LabelsAdvance`), to an access token
(`AccessSteps`), to a refresh token (`RefreshSteps`: stored by its own request, marked by one that
presented it, evicted or revoked), to a request's grant and token (`GrantKept`). `Lineage` then ties
a stored token to the request of its name: same grant, same beginning of the family, and that
request is past the write (`Born`). Its part `Named` is about access tokens: whoever holds one made
it in the second in which the request of its name did, for the same client and scope (`MadeAs`,
which is the `SameText` of `NoRevival`), and an opaque one is held by that request alone. It is why
the late write of a JSON `consume` revives nothing: the entry it puts back is the one it read,
marked as used. Under the refinement each step moves codes by `CodesMove` and each token by
`AccessTokensMove` or `RefreshTokensMove`, and a birth needs a closed code, which is `Safe`. An
access token that is gone is `pending` while some request may still store it (`ToCome`) and `dead`
after. `ToComeEnds` proves that no token which is not to come is ever to come again, because a name
is only ever given in its second; `OpaqueOnce` that with random strings a token that was stored is
not to come, so that nothing is renewed. `RenewableNames` is empty then, and both formats are
instances of one theorem. For `SpentHasSuccessor` the invariant is `Succession`: a token is marked
only by a request that has stored its successor (`RetiresLast`), and that successor, which lives as
long, can only have gone by a cascade or a revocation, which leaves its trace (`Disturbed`, kept by
`DisturbedKept`).

**One at a time.** `Alone` says that one request is in flight. `Once` adds that what was issued had
a closed code behind it and that no redemption is under way beside it. `Leads`
says that while a request of a grant is at work, the one usable token of the grant is that which it
presented; `Extinction`, that the live tokens of a grant under a cascade are those it has still to
reach, on the list it made or not yet listed, and that none can be added: its code is
closed, and a token that could be refreshed is not left.

### Front channel

`AuthorizationProofs` proves, for any users, clients, scopes, prompts, lifetimes and numbers of
requests:

| Theorem | States | Under |
|---|---|---|
| `TypeCorrect` | `Spec => []TypeOK` | |
| `CodesStandOnLogins` | `Spec => []AuthenticationIsFresh` | |
| `NothingSilentWithoutConsent` | `Spec => []SilenceHasConsent` | |
| `LimitCloses` | `Spec => []LockoutHolds` | `AtomicStore` |
| `GrantsAreIndexed` | `Spec => []EveryGrantIndexed` | `AtomicStore` |
| `TransactionsAnsweredOnce` | `Spec => []OneCodePerTransaction` | `MaxInFlight = 1` |
| `ClosedStaysClosed` | `Spec => ClosedIsFinal` | `MaxInFlight = 1` |

The first three hold over both backends, with failing calls and any interleaving. The hypotheses of
the others are those under which the code keeps the promise; section 3 says how each fails without.
Assumption: `FlowAssumption` (positive limits, prompts as `validatePrompt` leaves them, `Absent` is
no value).

**The argument.** `Typed` says which kind of request passes which label and what it has by then
(`Knows`), and a catalogue again says what a step does to requests (`Steps`, `Opens`, `Joins`), to
each store (`WritesByStep`, `CodesByStep`, `SessionsByStep`, `HandoffsByStep`, `TxnsByStep`,
`ConsentsByStep`) and to what a request carries (`Walks`, `Answers`, `Turns`).

`Freshness` follows a session through the four places it is kept in: handed over, in the browser, with a
request, in a code. Each is one that a login made (`Real`), and where it is about to answer a
transaction it satisfies what was asked of that transaction (`Fresh`). The session is compared
awaits before it is used; what makes the comparison last is that logins are never
unsaid and a transaction's parameters never change (`FreshLasts`).

`Consented` does the same for scopes: each scope in the consent store, or in a copy that a request
of the JSON backend has read and may put back after a withdrawal, was approved on the form
(`Backed`), and approvals are not taken back by later steps (`BackedLasts`): `SilenceHasConsent`
speaks of what was approved at some time, so a stale copy can bring a withdrawn consent back, but
never a scope no one approved.

`Counted` needs the counter and the deletion in one step, which is what sharing the in-memory object amounts
to. `Indexed` traces a recorded grant to the consent, to the list of a withdrawal or to
`revoked`; a request of the JSON backend at `putGrant` would hold a copy (`NoCopies`). `Serial`
says that a code's transaction is gone, that a request which has yet to complete has an open one, and
that a request about to issue has none and no code of it exists.

### Front channel and token endpoint together

`ConsentCascadeProofs` proves, for in-memory stores and any number of requests at either end:

| Theorem | States |
|---|---|
| `CascadeImplementsLifecycle` | `CascadeSpec => ImplementsLifecycle` |
| `TokensDoTraceToConsent` | `CascadeSpec => []TokensTraceToConsent` |
| `WithdrawalsAreFinal` | `CascadeSpec => []WithdrawalIsFinal` |

Assumption: `CascadeAssumption` (in-memory stores, names of requests of the two ends apart, and
the assumptions of the token endpoint).

**The argument.** The proofs about both ends are used as they are: `AuthorizationProofs` by EXTENDS,
`TokenLineageProofs` by an instance (`TokenSide`) with the substitution of `ConsentCascade`'s `Token`.
A step of the composition is a step of the front channel (`FrontSteps`), so `CascadeSpec => Spec`; and it is a
step of the token endpoint or the revocation of a grant's tokens from outside (`TokenSteps`),
which the token endpoint alone does not know. `TokensGo` is that second kind: some tokens go and
nothing else changes, which keeps `Safe` and `Lineage` and is a death to the life cycle
(`GoingIsSafe`, `GoingIsAStep`: a token that goes dies, or is pending if it is a JWT that may be made
again).

`TokensTraceToConsent` joins the two invariants at the grant: `GrantsTraced` says that what the token
endpoint knows of a grant is what its code says, `Safe` that a token is within it, and
`SilenceHasConsent` that the code of a silent request was approved.

`WithdrawalIsFinal` takes both ends. At the token endpoint a grant is `Barren` if its code
is spent, it has no access token, and no request is between reading something of it and storing something
of it; `Fallow` if it has no refresh token either. A fallow grant yields nothing more (`FallowKept`). A
settled grant is barren from the first half of its revocation, and fallow after the second, unless
the first half of some withdrawal is still all that was done (`SettledBarren`). That some withdrawal
is between its halves while the grant counts as revoked is what the front channel excludes: a grant is in
one place, under one consent, on the list of one withdrawal, or revoked (`OnePlace`), and a
withdrawal between its halves has it on the list (`MidwayDoomed`).

### Signing keys

`SigningKeyCacheProofs` proves, for any number of workers, requests and keys and any times:

| Theorem | States |
|---|---|
| `CachesAreSound` | `Spec => []IInv`, the inductive invariant |
| `TypeCorrect` | `Spec => []TypeOK` |
| `RotationIsPickedUp` | `Spec => []RotationPickedUp` |
| `AccessTokensAlwaysVerify` | `Spec => []AccessTokensVerify` |

Assumptions: `KeysAssumption` (times and bounds are naturals), `NoneAssumption` (`None` is no
record) and `PolicyAssumption`, the rotation the secret store must keep to. With
`Slack == Ttl + 2 * MaxServe`, a key is advertised more than `Slack` before it becomes active
(`Ahead > Slack`) and stays advertised for `Slack + Life` after it ceased to be
(`Keep >= Slack + Life`). The code documents no such numbers; they are what its caches need: one
`Ttl` for the entry, one `MaxServe` for the request whose slow fill made it, one for the request
that reads it.

**The argument.** Ages are measured from the moment the secret store was asked. `Recent(key, since)`
says that the key was still active at `since`; `Covers(keys, since)` says that a list asked for at
`since` or later lacks only keys that are about to go or were not advertised then (`Complete`) or, where
the secret store has no list, that it holds keys that were active at `since` (`Current`). Both only
weaken as time passes and keys rotate (`RecentStable`, `CoversStable`), which is where the policy is
used. `SingleInv` and `MultiInv` say them of every cache entry with `since` read off its expiry,
so that an entry a late fill puts back is judged by its own age, not by what it replaced;
`ServingInv` says them of what a request holds. `TokenInv` keeps the key of a followed token
recent at its signing, and with a list that covers `now - Slack` the token's key is published until
`Life` is over (`ListedKeysVerify`). Without a list, keys older than `Slack` are gone from every set once
the last rotation is that long ago, which leaves the active one (`ActiveKeyVerifies`).

### Issuance

`TokenIssuanceProofs` proves, for any number of grants, requests and refreshes, any values
authorized, any resolver and any times:

| Theorem | States |
|---|---|
| `TypeCorrect` | `Spec => []TypeOK` |
| `ContextIsKept` | `Spec => []ContextSurvives` |
| `NarrowingIsKept` | `Spec => []DroppedStaysDropped` |
| `RevocationIsComplete` | `Spec => []RevocationReaches` |
| `NamesSuffice` | `Spec => []NothingOutlives`, where `RandomNames = TRUE` |
| `AnsweredTokensAreActive` | `Spec => []AnsweredIsActive` |

Assumptions: `IssuanceAssumption` (what is authorized is well-formed, the resolver answers with an
acr, times are naturals) and `AbsentAssumption` (`Absent` is an acr or a nonce that is not there, and
no record, request or number).

**The argument.** `Inv` says of everything that carries the context - a validated request, a stored
refresh token, a response - that it agrees with the code of its grant, which no step changes in
what matters (`CodesKeep`). The one thing that does not agree is `acr`: it is resolved while an ID
Token is made, and absent if none was; so `AcrKept` says that it is the resolver's answer or that
`openid` is gone from the scope, and the scope of a successor is within the answer it descends
from. `RevocationInv` adds that the entry of an access token names the grant of some request that was
answered it (`OwnerInv`), which storing it again for another grant preserves, and that a revoked
grant has neither entries nor requests (`RevokedInv`). With names, the owner is the only one.

`AnsweredIsActive` needs two invariants of its own, together `ActiveInv`. `StampInv`: what is made
for a request says what the request says, and ends at most `AccessLifetime` from now. `FoundInv`: an
answered token, unless a grant that was answered it too is revoked, is in the store with an entry
that `Agrees` with it, which is valid already and does not end before it. The first makes the second
hold when the token is stored. Storing the same string again for another request keeps it,
because the new entry is of the same claims and later (`FoundStep`).

### Stateless checks

`RequestChecksProofs` proves, for any registry and settings, any values a parameter may be sent
with, and any number of parameters that differ from a sound request:

| Theorem | States |
|---|---|
| `RedirectionsReachTheClient` | `Spec => []AnswersReachTheClient` |
| `ObjectsSupersede` | `Spec => []ObjectSupersedes` |
| `ObjectsAreTheClients` | `Spec => []ObjectIsTheClients` |
| `FlowIsRightToAssume` | `Spec => []FlowMayAssume` |
| `AcceptableIsAccepted` | `Spec => []AcceptsWhatIsAcceptable` |
| `MethodsAreKept` | `Spec => []NoDowngrade` |
| `StrangersCannotBeTold` | `Spec => []StrangersLookLikeClients` |
| `ReadersDoAgree` | `Spec => []ReadersAgree` |
| `ClaimsWereCalledFor` | `Spec => []ClaimsAreCalledFor` |
| `HintsAreOnlyHints` | `Spec => []HintIsOnlyAHint` |

Assumptions: `ChecksAssumption` (a request has the parameters of its endpoint),
`SentinelsAssumption` (`Absent` is no value), `RegistryAssumption` (the types of
`RegisteredClient`), `AuthorizeAssumption` and `CredentialsAssumption` (what parsing leaves of a
parameter), and `StoredAssumption`: the user resolver answers for the subject it was asked about,
and a token's `nbf` does not lie after the time it is read at, because `routes/token.ts:290` sets it
to the time of issuing; and time does not run backwards between two reads. Introspection tests `nbf`
and UserInfo does not, so without this they need not agree. The run `requests` evaluates them all.

**The argument.** One invariant serves all ten: `AnswersTheRequest`, that a request is made of
values that can be sent, and that an answer is the answer to it. The rest are lemmas about the
functions that answer. For the authorization endpoint: every value a check reads is the object's
where it has one and the query's elsewhere (`EffectiveIsWanted`), the client found is registered
(`ResolvedIsRegistered`), and of the ordered checks the first that fails decides the answer
(`FirstFailure`, from the least element of a set of naturals). `RedirectionIsSettled` says that a
redirection comes after the checks of the address, and goes there. `ChecksSpelledOut` writes out
what it means that all pass; `ConditionsAgree` and `AddressesAgree` compare that, condition by
condition, with the reference that has no order. For client authentication, another client's name
does not change how many methods are presented (`RenamedKeepsMethods`). For the readers,
`UserInfoTells` says when UserInfo tells anything, and of which token.

## 5. What is only model-checked

* Liveness: `RequestsEnd` (runs `token_live` and `flow_live`), `CascadeReaches` and
  `WithdrawalCompletes`. They rest on weak fairness, hence on `ENABLED`, which the prover does not
  reason about. That requests do not run in circles can be read off `LabelsAdvance` and `Walks`, but
  that they end stays with TLC.
* The disagreement shown by `token_race_redeem`, and those of section 3 that have no run: they are
  counterexamples.
* That cases occur. A theorem also holds of a model in which nothing happens; the passing runs fire
  every action between them, and each property was seen to fail when the code it is about is changed
  in a plausible way.
* The constants. A theorem is about every value the assumptions admit; that
  they admit those of the code is seen where TLC evaluates them.

## 6. Plan

Next modules:

1. `ConsentCascade` over the JSON backend, where a withdrawal is itself several calls, and a
   consent can come back; and its liveness: a withdrawal reaches every token of its grants.
2. An abstract specification of the front channel (a transaction moves from open to answered
   or closed), implemented by `AuthorizationFlow` where its properties hold.
3. The claims request across rotation: it is kept with the first access token and not with the
   refresh token, so `ClaimsAreCalledFor` would be checked over `TokenEndpoint`'s tokens.
4. `id_token_hint` under key rotation: a hint is verified with the keys published now, and was
   signed with those of its day.

Next theorems: with (1), `TokensTraceToConsent` for the JSON backend, where `WithdrawalIsFinal` does not
hold as it stands (a stale copy can bring a consent back) and what is left of it is to be
found; with (2), the refinement, for which `AuthorizationProofs`' catalogue of what a step
does to transactions, codes and consents is what a step-by-step proof starts from.

## 7. Not modelled

Profile claims and `at_hash` in an ID Token, format checks of payloads, encoding, the discovery
document, HTML, static configuration, CORS and method enforcement, key generation and strength
checks. Expiry of browser sessions is absent from the code and so from the model.

Most of the repository's lines are not a further system. The CLI's templates hold the
text of the routes and stores that `samples/hono-cloudflare` holds as code (about 8000 lines), and
four more samples hold it again for other frameworks. The models follow one copy; lines of the
others are not claimed. What is left of the core is input and output formats, type
declarations, cryptographic encodings and comments.
