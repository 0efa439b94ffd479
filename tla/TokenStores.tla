----------------------------- MODULE TokenStores -----------------------------
(***************************************************************************)
(* The three stores the token-side endpoints share: authorization codes,   *)
(* access tokens and refresh tokens (samples/*/oidc-provider/store.ts).    *)
(*                                                                         *)
(* An authorization code and the grant id minted with it are one to one,   *)
(* so both are named by a member of Grants.  A refresh token is a random   *)
(* string, named by the request that minted it.  An access token is named  *)
(* by the first request that made it: an opaque one is random too, but the *)
(* same JWT may be made again (AccessNames in TokenEndpoint).              *)
(*                                                                         *)
(* The module gives the stores' state and what one store call does to it;  *)
(* the modules that extend it say in which order the handlers make these   *)
(* calls.                                                                  *)
(***************************************************************************)
EXTENDS Integers, FiniteSets

CONSTANTS
  Grants,           \* authorization codes, and the grant ids bound to them
  Clients,          \* registered clients
  Scopes,           \* scope values other than openid
  OfflineAccess,    \* the scope value that asks for refresh tokens
  Requests,         \* HTTP requests to the token and revocation endpoints
  CodeLifetime,     \* config.authorizationCodeTtl
  AccessLifetime,   \* config.accessTokenExpiresIn
  RefreshLifetime,  \* config.refreshTokenAbsoluteLifetime
  MaxTime,          \* bound on the clock
  Absent            \* what get() returns for a key with no live entry

VARIABLES
  now,              \* Math.floor(Date.now() / 1000)
  codes,            \* AuthorizationCodeStore
  access,           \* AccessTokenStore
  refresh           \* RefreshTokenStore

storeVars == <<now, codes, access, refresh>>

CodeEntry ==
  [client: Clients, scope: SUBSET Scopes, expiresAt: Nat, used: BOOLEAN]

AccessEntry ==
  [grant: Grants, client: Clients, scope: SUBSET Scopes, expiresAt: Nat]

RefreshEntry ==
  [grant: Grants, client: Clients, scope: SUBSET Scopes, expiresAt: Nat,
   originalIssuedAt: Nat, used: BOOLEAN]

\* The lifetimes are positive numbers of seconds, and Absent is not an entry.
ASSUME StoresAssumption ==
  /\ CodeLifetime \in Nat \ {0}
  /\ AccessLifetime \in Nat \ {0}
  /\ RefreshLifetime \in Nat \ {0}
  /\ MaxTime \in Nat
  /\ OfflineAccess \in Scopes
  /\ Absent \notin CodeEntry
  /\ Absent \notin AccessEntry
  /\ Absent \notin RefreshEntry
  /\ Absent \notin Grants
  /\ Absent \notin Requests

StoresTypeOK ==
  /\ now \in Nat
  /\ codes \in [Grants -> CodeEntry \cup {Absent}]
  /\ access \in [Requests -> AccessEntry \cup {Absent}]
  /\ refresh \in [Requests -> RefreshEntry \cup {Absent}]

StoresInit ==
  /\ now = 0
  /\ codes = [g \in Grants |-> Absent]
  /\ access = [t \in Requests |-> Absent]
  /\ refresh = [t \in Requests |-> Absent]

-----------------------------------------------------------------------------
(* What one call of a store does.                                          *)

\* The answer of get(key): an entry at or past its expiry is no entry.
Fetch(store, key) ==
  IF store[key] # Absent /\ store[key].expiresAt <= now
    THEN Absent
    ELSE store[key]

\* The store after get(key), which evicts the entry it found expired.
AfterGet(store, key) == [store EXCEPT ![key] = Fetch(store, key)]

\* set(key, entry) and the JSON backend's put.
AfterSet(store, key, entry) == [store EXCEPT ![key] = entry]

\* delete(key) and revoke(key): the entry is physically removed.
AfterDelete(store, key) == [store EXCEPT ![key] = Absent]

\* The entry with its used flag raised, as consume() leaves it.
Spent(entry) == [entry EXCEPT !.used = TRUE]

\* Mutant: used is set on a copy of the entry.
AfterConsume_OnACopy(store, key) == store

\* consume(key) of the in-memory stores: no expiry test, one step.
AfterConsume(store, key) ==
  IF store[key] = Absent THEN store
                         ELSE [store EXCEPT ![key] = Spent(@)]

\* The keys of the entries of a grant, which revokeByGrantId removes.
KeysOfGrant(store, grant) ==
  {key \in DOMAIN store : store[key] # Absent /\ store[key].grant = grant}

\* Mutant: the entries that live for one more second are left out.
ListedOfGrant_OffByOne(store, grant) ==
  {key \in KeysOfGrant(store, grant) : store[key].expiresAt > now + 1}

\* The same keys as JsonStoreBackend.list answers them: live entries only.
ListedOfGrant(store, grant) ==
  {key \in KeysOfGrant(store, grant) : Fetch(store, key) # Absent}

\* revokeByGrantId of the in-memory stores: every entry of the grant at once.
AfterRevokeByGrant(store, grant) ==
  [key \in DOMAIN store |->
     IF key \in KeysOfGrant(store, grant) THEN Absent ELSE store[key]]

\* The clock advances; stores change only when they are called.
Tick ==
  /\ now < MaxTime
  /\ now' = now + 1
  /\ UNCHANGED <<codes, access, refresh>>

-----------------------------------------------------------------------------
(* What an entry is good for.                                              *)

\* A refresh token the refresh grant would accept from its client.
Usable(t) == Fetch(refresh, t) # Absent /\ ~refresh[t].used

\* An access token introspection reports active and UserInfo accepts.
Active(t) == Fetch(access, t) # Absent
=============================================================================
