---------------------------- MODULE SigningKeyCache ----------------------------
(***************************************************************************)
(* Signing keys under rotation.  An operator rotates the keys of a secret  *)
(* store; every worker caches, independently of each other and of the      *)
(* other workers, the active key and the list of advertised keys           *)
(* (createCachedSigningKeyProvider); every request of a worker reads both, *)
(* for one purpose after the other, before its handler runs (the           *)
(* middleware of createApp), and then signs tokens or publishes keys.      *)
(*                                                                         *)
(* Keys are numbered in the order they are made, all of them RS256.  A     *)
(* request is suspended while the secret store answers, for at most        *)
(* MaxServe from its arrival to its end.                                   *)
(***************************************************************************)
EXTENDS Integers, FiniteSets

CONSTANTS
  Workers,          \* instances of the provider
  Requests,         \* requests being served, by name
  MaxKey,           \* bound on the keys ever made
  Ttl,              \* ttlMs of the cached provider
  MaxServe,         \* longest time a request takes
  Life,             \* lifetime of the tokens signed
  Ahead,            \* how long a key is advertised before it is made active
  Keep,             \* how long it stays advertised after it was active
  MaxTime,          \* bound on the clock
  LastSwitch,       \* bound on the time of a rotation without advertisement
  None              \* an empty cache, no token

VARIABLES
  now,              \* Date.now()
  listsKeys,        \* whether the secret store has getSigningKeys, which is optional
  active,           \* what getSigningKey of the secret store returns
  advertised,       \* what getSigningKeys of the secret store returns
  advertisedAt,     \* history: when a key not yet active was first advertised
  deactivatedAt,    \* history: when a key ceased to be active
  single,           \* singleCache of each worker
  multi,            \* multiCache of each worker
  pc, req,          \* how far each request is, and what it has read
  token             \* the token that is followed: any one of those signed

baseVars == <<listsKeys, active, advertised, advertisedAt, deactivatedAt>>
cacheVars == <<single, multi>>
vars == <<now, baseVars, cacheVars, pc, req, token>>

Keys == 1..MaxKey

\* How old can be what a request works with: a value that another request was
\* slow to fetch and to cache, used by a request that is slow to end.
Slack == Ttl + 2 * MaxServe

ASSUME KeysAssumption ==
  /\ MaxKey \in Nat \ {0}
  /\ Ttl \in Nat /\ MaxServe \in Nat /\ Life \in Nat \ {0} /\ MaxTime \in Nat
  /\ LastSwitch \in Nat
  /\ Ahead \in Nat /\ Keep \in Nat

\* The rotation a secret store must keep to for the caches to be safe.
ASSUME PolicyAssumption == Ahead > Slack /\ Keep >= Slack + Life

ASSUME NoneAssumption ==
  /\ None \notin Workers
  /\ None \notin [key : Keys, expiresAt : Nat]
  /\ None \notin [keys : SUBSET Keys, expiresAt : Nat]
  /\ None \notin [kind : {"access", "id"}, key : Keys, signedAt : Nat]

\* What the middleware asks the provider for: the key and the keys to sign with, and
\* the keys for ID Tokens.  (The keys for UserInfo are read as those are; the single
\* keys read for ID Tokens and UserInfo only stand in for an empty list.)
Reads == <<"key", "keys", "keys">>

Request ==
  [worker: Workers \cup {None},    \* the one that serves it
   startedAt: Nat,
   reads: 0..3,                                  \* how many of Reads are done
   fetchedKey: Keys, fetchedKeys: SUBSET Keys,   \* what the secret store said
   key: Keys,                      \* signingKey, of the first read
   idKeys: SUBSET Keys,            \* idTokenSigningKeys, of the last
   jwks: SUBSET Keys]              \* every key list read: the JWKS

\* Every key read or cached is one that was made.
TypeOK ==
  /\ now \in Nat
  /\ listsKeys \in BOOLEAN
  /\ active \in Keys
  /\ advertised \subseteq Keys
  /\ advertisedAt \in [Keys -> Nat]
  /\ deactivatedAt \in [Keys -> Nat]
  /\ single \in [Workers -> [key: Keys, expiresAt: Nat] \cup {None}]
  /\ multi \in [Workers -> [keys: SUBSET Keys, expiresAt: Nat] \cup {None}]
  /\ pc \in [Requests -> {"idle", "read", "fill", "ready"}]
  /\ req \in [Requests -> Request]

\* What the variables of a request hold before it has read anything.
Blank ==
  [worker |-> None, startedAt |-> 0, reads |-> 0, fetchedKey |-> 1, fetchedKeys |-> {},
   key |-> 1, idKeys |-> {}, jwks |-> {}]

Init ==
  /\ now = 0
  /\ listsKeys \in BOOLEAN
  /\ active = 1 /\ advertised = {1}
  /\ advertisedAt = [k \in Keys |-> 0]
  /\ deactivatedAt = [k \in Keys |-> 0]
  /\ single = [w \in Workers |-> None]
  /\ multi = [w \in Workers |-> None]
  /\ pc = [r \in Requests |-> "idle"]
  /\ req = [r \in Requests |-> Blank]
  /\ token = None

-----------------------------------------------------------------------------
(* The secret store: "the active key plus any rotated-out keys whose       *)
(* tokens are still in flight", oldest first; the next key is advertised   *)
(* before it is made active.  One that cannot list its keys has nothing to *)
(* advertise, and makes the next key active when it likes.                 *)

Newest(keys) == CHOOSE k \in keys : \A other \in keys : other <= k
Oldest(keys) == CHOOSE k \in keys : \A other \in keys : k <= other

Advertise ==
  /\ listsKeys
  /\ Newest(advertised) + 1 \in Keys
  /\ advertised' = advertised \cup {Newest(advertised) + 1}
  /\ advertisedAt' = [advertisedAt EXCEPT ![Newest(advertised) + 1] = now]
  /\ UNCHANGED <<now, listsKeys, active, deactivatedAt, cacheVars, pc, req, token>>

Activate ==
  /\ active + 1 \in Keys
  /\ IF listsKeys
       THEN active + 1 \in advertised /\ now >= advertisedAt[active + 1] + Ahead
       ELSE now <= LastSwitch
  /\ active' = active + 1
  /\ advertisedAt' = [advertisedAt EXCEPT ![active + 1] = 0]
  /\ deactivatedAt' = [deactivatedAt EXCEPT ![active] = now]
  /\ UNCHANGED <<now, listsKeys, advertised, cacheVars, pc, req, token>>

Withdraw ==
  /\ listsKeys
  /\ Oldest(advertised) < active
  /\ now >= deactivatedAt[Oldest(advertised)] + Keep
  /\ advertised' = advertised \ {Oldest(advertised)}
  /\ UNCHANGED <<now, listsKeys, active, advertisedAt, deactivatedAt, cacheVars, pc,
                 req, token>>

-----------------------------------------------------------------------------
(* The middleware: one read after the other, from the cache if it is not   *)
(* past its expiry, otherwise from the secret store.                       *)

Goto(r, label) == pc' = [pc EXCEPT ![r] = label]

Wants(r, what) == req[r].reads < 3 /\ Reads[req[r].reads + 1] = what

Arrive(r, w) ==
  /\ pc[r] = "idle"
  /\ Goto(r, "read")
  /\ req' = [req EXCEPT ![r].worker = w, ![r].startedAt = now]
  /\ UNCHANGED <<now, baseVars, cacheVars, token>>

\* Mutant: the cache is refilled once only.
Fresh_Forever(entry, time) == entry # None

\* Date.now() > expiresAt refills.
Fresh(entry, time) == entry # None /\ time <= entry.expiresAt

AfterRead(r) == IF req[r].reads = 2 THEN "ready" ELSE "read"

TakeKey(r, key) ==
  /\ req' = [req EXCEPT ![r].reads = @ + 1,
                        ![r].key = IF req[r].reads = 0 THEN key ELSE @,
                        ![r].fetchedKey = 1]
  /\ Goto(r, AfterRead(r))

\* The lists read for the three purposes are flattened, by key id.
TakeKeys(r, keys) ==
  /\ req' = [req EXCEPT ![r].reads = @ + 1,
                        ![r].idKeys = IF req[r].reads = 2 THEN keys ELSE @,
                        ![r].jwks = @ \cup keys,
                        ![r].fetchedKeys = {}]
  /\ Goto(r, AfterRead(r))

HitKey(r) ==
  /\ pc[r] = "read" /\ Wants(r, "key")
  /\ Fresh(single[req[r].worker], now)
  /\ TakeKey(r, single[req[r].worker].key)
  /\ UNCHANGED <<now, baseVars, cacheVars, token>>

HitKeys(r) ==
  /\ pc[r] = "read" /\ Wants(r, "keys")
  /\ Fresh(multi[req[r].worker], now)
  /\ TakeKeys(r, multi[req[r].worker].keys)
  /\ UNCHANGED <<now, baseVars, cacheVars, token>>

\* Mutant: no list is asked for, whether the secret store has one or not.
KeyList_ActiveOnly == {active}

\* What is fetched when the keys are asked for: the list where the secret store has
\* one, otherwise the one key it signs with.
KeyList == IF listsKeys THEN advertised ELSE {active}

\* The secret store answers with what it has when it is asked (were it later, the
\* answer would only be fresher); the answer has yet to arrive.
Miss(r) ==
  /\ pc[r] = "read"
  /\ \/ /\ Wants(r, "key") /\ ~Fresh(single[req[r].worker], now)
        /\ req' = [req EXCEPT ![r].fetchedKey = active]
     \/ /\ Wants(r, "keys") /\ ~Fresh(multi[req[r].worker], now)
        /\ req' = [req EXCEPT ![r].fetchedKeys = KeyList]
  /\ Goto(r, "fill")
  /\ UNCHANGED <<now, baseVars, cacheVars, token>>

\* The expiry counts from the arrival of the answer; a fill that was overtaken by
\* a later one still replaces it.
FillKey(r) ==
  /\ pc[r] = "fill" /\ Wants(r, "key")
  /\ single' = [single EXCEPT ![req[r].worker] =
                  [key |-> req[r].fetchedKey, expiresAt |-> now + Ttl]]
  /\ TakeKey(r, req[r].fetchedKey)
  /\ UNCHANGED <<now, baseVars, multi, token>>

FillKeys(r) ==
  /\ pc[r] = "fill" /\ Wants(r, "keys")
  /\ multi' = [multi EXCEPT ![req[r].worker] =
                 [keys |-> req[r].fetchedKeys, expiresAt |-> now + Ttl]]
  /\ TakeKeys(r, req[r].fetchedKeys)
  /\ UNCHANGED <<now, baseVars, single, token>>

\* The request is over, and nothing remains of what it has read.
End(r) ==
  /\ Goto(r, "idle")
  /\ req' = [req EXCEPT ![r] = Blank]

\* The secret store rejects: 503, and the cache is what it was.
FetchFails(r) ==
  /\ pc[r] = "fill"
  /\ End(r)
  /\ UNCHANGED <<now, baseVars, cacheVars, token>>

-----------------------------------------------------------------------------
(* The handlers.                                                           *)

\* selectSigningKeyByAlg: the last of the list, whichever key is active.
IdTokenKey(r) == Newest(req[r].idKeys)

\* The token endpoint signs an access token and an ID Token.  The one is followed from
\* here on, or the other where it is signed with another key.
Sign(r) ==
  /\ pc[r] = "ready"
  /\ \/ token' = [kind |-> "access", key |-> req[r].key, signedAt |-> now]
     \/ /\ IdTokenKey(r) # req[r].key
        /\ token' = [kind |-> "id", key |-> IdTokenKey(r), signedAt |-> now]
  /\ End(r)
  /\ UNCHANGED <<now, baseVars, cacheVars>>

\* Every other handler ends without a signature, the JWKS endpoint among them.
Answer(r) ==
  /\ pc[r] = "ready"
  /\ End(r)
  /\ UNCHANGED <<now, baseVars, cacheVars, token>>

\* The caches live in a closure: they go with the worker, and so does whatever it
\* was serving.
Restart(w) ==
  /\ single' = [single EXCEPT ![w] = None]
  /\ multi' = [multi EXCEPT ![w] = None]
  /\ pc' = [r \in Requests |-> IF req[r].worker = w THEN "idle" ELSE pc[r]]
  /\ req' = [r \in Requests |-> IF req[r].worker = w THEN Blank ELSE req[r]]
  /\ UNCHANGED <<now, baseVars, token>>

\* A cache entry past its expiry is never read again: it is as if there were none.
Forget(cache) ==
  [w \in Workers |-> IF Fresh(cache[w], now + 1) THEN cache[w] ELSE None]

\* Requests do not outlast MaxServe; a token that expires is followed no more.
Tick ==
  /\ now < MaxTime
  /\ \A r \in Requests : pc[r] # "idle" => now < req[r].startedAt + MaxServe
  /\ now' = now + 1
  /\ token' = IF token = None \/ now + 1 < token.signedAt + Life THEN token ELSE None
  /\ single' = Forget(single)
  /\ multi' = Forget(multi)
  /\ UNCHANGED <<baseVars, pc, req>>

Rotate == Advertise \/ Activate \/ Withdraw

Serve(r) ==
  \/ \E w \in Workers : Arrive(r, w)
  \/ HitKey(r) \/ HitKeys(r)
  \/ Miss(r) \/ FillKey(r) \/ FillKeys(r) \/ FetchFails(r)
  \/ Sign(r) \/ Answer(r)

Next ==
  \/ Tick \/ Rotate
  \/ \E r \in Requests : Serve(r)
  \/ \E w \in Workers : Restart(w)

Spec == Init /\ [][Next]_vars

-----------------------------------------------------------------------------
(* Properties.                                                             *)

\* What a request signs with was the active key at most Slack ago, however slow
\* the fills and whichever of them came last ("still picking up rotated keys
\* after ttlMs": createCachedSigningKeyProvider).
RotationPickedUp ==
  \A r \in Requests :
    (pc[r] # "idle" /\ req[r].reads > 0) =>
      req[r].key = active
        \/ (req[r].key < active /\ now <= deactivatedAt[req[r].key] + Slack)

\* No key became active, and none ceased to be, for as long as anything a request
\* works with can be old.
Settled == \A k \in 1..(active - 1) : deactivatedAt[k] + Slack < now

\* An access token that has not expired verifies against the key set that any
\* worker publishes, whichever worker signed it and however old its caches were
\* (routes/jwks.ts: rotated-out keys "remain verifiable until tokens signed with
\* them expire").  Where the secret store cannot list its keys, only what the active
\* key signed does, and only once a rotation is over for every cache ("Tokens signed
\* with a rotated-out key will fail verification": CreateAppOptions).
AccessTokensVerify ==
  \A r \in Requests :
    (pc[r] = "ready" /\ token # None /\ token.kind = "access"
       /\ (listsKeys \/ (token.key = active /\ Settled))) =>
      token.key \in req[r].jwks
=============================================================================
