------------------------- MODULE SigningKeyCacheProofs -------------------------
(***************************************************************************)
(* The caches of the signing keys are safe under the rotation policy, for  *)
(* any number of workers, requests and keys and any times that satisfy the *)
(* assumptions of SigningKeyCache.                                         *)
(***************************************************************************)
EXTENDS SigningKeyCache, TLAPS

-----------------------------------------------------------------------------
(* The inductive invariant.  A key that was read is judged by the time     *)
(* since when it may have been stale, a list by the keys that it lacks.    *)

\* The key is active, or still was at that time.
Recent(key, since) == key = active \/ (key < active /\ since <= deactivatedAt[key])

\* What a list asked for at that time or later may lack: keys that were to go, keys
\* that were advertised since, and those of them that became active since.
Complete(keys, since) ==
  \A k \in Keys \ keys :
    /\ k <= active => \/ k < active /\ deactivatedAt[k] + Keep <= now
                      \/ since + Ahead <= now
    /\ k > active /\ k \in advertised => since <= advertisedAt[k]

\* Where there is no list to be had: the keys that were active when it was asked for.
Current(keys, since) == keys # {} /\ \A k \in keys : Recent(k, since)

Covers(keys, since) == IF listsKeys THEN Complete(keys, since) ELSE Current(keys, since)

StoreInv ==
  listsKeys =>
    \A k \in Keys \ advertised :
      k <= active => k < active /\ deactivatedAt[k] + Keep <= now

SingleInv ==
  \A w \in Workers : single[w] # None =>
    /\ single[w].expiresAt <= now + Ttl
    /\ Recent(single[w].key, single[w].expiresAt - Ttl - MaxServe)

MultiInv ==
  \A w \in Workers : multi[w] # None =>
    /\ multi[w].expiresAt <= now + Ttl
    /\ Covers(multi[w].keys, multi[w].expiresAt - Ttl - MaxServe)

\* The oldest that what a request works with can be.
Since(r) == req[r].startedAt - Ttl - MaxServe

ServingInv(r) ==
  /\ req[r].worker \in Workers
  /\ req[r].startedAt <= now
  /\ now <= req[r].startedAt + MaxServe
  /\ pc[r] = "ready" => req[r].reads = 3
  /\ pc[r] = "fill" /\ req[r].reads = 0 => Recent(req[r].fetchedKey, req[r].startedAt)
  /\ pc[r] = "fill" /\ req[r].reads > 0 => Covers(req[r].fetchedKeys, req[r].startedAt)
  /\ req[r].reads > 0 => Recent(req[r].key, Since(r))
  /\ IF req[r].reads > 1 THEN Covers(req[r].jwks, Since(r)) ELSE req[r].jwks = {}

Unread(r) == req[r].reads = 0 /\ req[r].jwks = {}

RequestInv ==
  \A r \in Requests : IF pc[r] = "idle" THEN Unread(r) ELSE ServingInv(r)

TokenInv ==
  token # None /\ token.kind = "access" =>
    /\ token.key \in Keys
    /\ token.signedAt \in Nat
    /\ token.signedAt <= now
    /\ now < token.signedAt + Life
    /\ Recent(token.key, token.signedAt - Slack)

IInv == TypeOK /\ StoreInv /\ SingleInv /\ MultiInv /\ RequestInv /\ TokenInv

-----------------------------------------------------------------------------
(* Lemmas about what the operators are built from.                         *)

\* The first read is for the key, the others are for lists.
LEMMA WantsRead ==
  ASSUME TypeOK, NEW r \in Requests
  PROVE  /\ Wants(r, "key") <=> req[r].reads = 0
         /\ Wants(r, "keys") <=> req[r].reads \in {1, 2}
BY DEF Wants, Reads, TypeOK, Request

\* A request that has not begun is well formed.
LEMMA BlankTyped == Blank \in Request
BY KeysAssumption DEF Blank, Request, Keys

\* A key that was active at some time was active at every earlier one.
LEMMA RecentWeaken ==
  ASSUME TypeOK, NEW k \in Keys, NEW s \in Int, NEW t \in Int, t <= s, Recent(k, s)
  PROVE  Recent(k, t)
BY DEF Recent, TypeOK

\* A list that may lack what is newer than one time may lack what is newer than an
\* earlier one, and the keys that were active then were so before.
LEMMA CoversWeaken ==
  ASSUME TypeOK, NEW keys \in SUBSET Keys, NEW s \in Int, NEW t \in Int, t <= s,
         Covers(keys, s)
  PROVE  Covers(keys, t)
<1>1. CASE listsKeys
  BY <1>1, KeysAssumption DEF Covers, Complete, TypeOK, Keys
<1>2. CASE ~listsKeys
  BY <1>2, RecentWeaken DEF Covers, Current
<1>3. QED
  BY <1>1, <1>2

\* Two lists cover together what each of them does.
LEMMA CoversMore ==
  ASSUME NEW keys, NEW others, NEW s, Covers(keys, s), others = {} \/ Covers(others, s)
  PROVE  Covers(others \cup keys, s)
BY DEF Covers, Complete, Current

\* The secret store answers with a list that lacks nothing but what is to go, or with
\* the key that is active.
LEMMA StoreCovers ==
  ASSUME TypeOK, StoreInv, NEW s \in Int
  PROVE  Covers(KeyList, s)
BY DEF Covers, Complete, Current, Recent, KeyList, StoreInv, TypeOK

\* Every key it answers with was made.
LEMMA KeyListTyped == ASSUME TypeOK PROVE KeyList \in SUBSET Keys
BY DEF KeyList, TypeOK

-----------------------------------------------------------------------------
(* The steps that the secret store and the clock take.                     *)

\* No more than a second passes, and the secret store is left alone or rotated.
BaseStep ==
  \/ now' = now + 1 /\ UNCHANGED baseVars
  \/ Rotate

\* Rotation and time make no key less recent than it was.
LEMMA RecentStable ==
  ASSUME TypeOK, BaseStep, NEW k \in Keys, NEW s \in Int, s <= now, Recent(k, s)
  PROVE  Recent(k, s)'
<1>1. CASE now' = now + 1 /\ UNCHANGED baseVars
  BY <1>1 DEF Recent, baseVars
<1>2. CASE Advertise
  BY <1>2 DEF Recent, Advertise
<1>3. CASE Activate
  BY <1>3 DEF Recent, Activate, TypeOK, Keys
<1>4. CASE Withdraw
  BY <1>4 DEF Recent, Withdraw
<1>5. QED
  BY <1>1, <1>2, <1>3, <1>4 DEF BaseStep, Rotate

\* A list that is kept lacks no more than it did: a key is advertised long enough
\* before it becomes active.
LEMMA CompleteStable ==
  ASSUME TypeOK, BaseStep, NEW keys, NEW s \in Int, s <= now, listsKeys,
         Complete(keys, s)
  PROVE  Complete(keys, s)'
<1> USE KeysAssumption
<1>1. CASE now' = now + 1 /\ UNCHANGED baseVars
  BY <1>1 DEF Complete, baseVars, TypeOK, Keys
<1>2. CASE Advertise
  BY <1>2 DEF Complete, Advertise, TypeOK, Keys
<1>3. CASE Activate
  <2> SUFFICES ASSUME NEW k \in Keys \ keys
               PROVE  /\ k <= active' => \/ k < active' /\ deactivatedAt'[k] + Keep <= now'
                                         \/ s + Ahead <= now'
                      /\ k > active' /\ k \in advertised' => s <= advertisedAt'[k]
    BY DEF Complete
  <2>1. /\ k <= active => \/ k < active /\ deactivatedAt[k] + Keep <= now
                          \/ s + Ahead <= now
        /\ k > active /\ k \in advertised => s <= advertisedAt[k]
    BY DEF Complete
  <2>2. /\ active' = active + 1 /\ now' = now /\ advertised' = advertised
        /\ active + 1 \in advertised
        /\ now >= advertisedAt[active + 1] + Ahead
        /\ k # active + 1 => advertisedAt'[k] = advertisedAt[k]
        /\ k # active => deactivatedAt'[k] = deactivatedAt[k]
    BY <1>3 DEF Activate, TypeOK
  <2>3. CASE k > active + 1
    BY <2>1, <2>2, <2>3 DEF TypeOK, Keys
  <2>4. CASE k = active + 1
    BY <2>1, <2>2, <2>4 DEF TypeOK, Keys
  <2>5. CASE k = active
    BY <2>1, <2>2, <2>5 DEF TypeOK, Keys
  <2>6. CASE k < active
    BY <2>1, <2>2, <2>6 DEF TypeOK, Keys
  <2>7. QED
    BY <2>3, <2>4, <2>5, <2>6 DEF TypeOK, Keys
<1>4. CASE Withdraw
  BY <1>4 DEF Complete, Withdraw, TypeOK, Keys
<1>5. QED
  BY <1>1, <1>2, <1>3, <1>4 DEF BaseStep, Rotate

\* A list that is kept covers what it covered.
LEMMA CoversStable ==
  ASSUME TypeOK, BaseStep, NEW keys \in SUBSET Keys, NEW s \in Int, s <= now,
         Covers(keys, s)
  PROVE  Covers(keys, s)'
<1>1. listsKeys' = listsKeys
  BY DEF BaseStep, Rotate, Advertise, Activate, Withdraw, baseVars
<1>2. CASE listsKeys
  BY <1>1, <1>2, CompleteStable DEF Covers
<1>3. CASE ~listsKeys
  BY <1>1, <1>3, RecentStable DEF Covers, Current
<1>4. QED
  BY <1>2, <1>3

\* The secret store forgets no key whose tokens are still in flight.
LEMMA StoreStable ==
  ASSUME TypeOK, StoreInv, BaseStep
  PROVE  StoreInv'
<1> USE KeysAssumption
<1>1. CASE now' = now + 1 /\ UNCHANGED baseVars
  BY <1>1 DEF StoreInv, baseVars, TypeOK, Keys
<1>2. CASE Advertise
  BY <1>2 DEF StoreInv, Advertise
<1>3. CASE Activate
  BY <1>3 DEF StoreInv, Activate, TypeOK, Keys
<1>4. CASE Withdraw
  BY <1>4 DEF StoreInv, Withdraw, TypeOK, Keys
<1>5. QED
  BY <1>1, <1>2, <1>3, <1>4 DEF BaseStep, Rotate
-----------------------------------------------------------------------------
(* The steps that only the secret store and the clock take keep what is    *)
(* known of the caches, the requests and the tokens.                       *)

\* Rotation and time leave every cached key, and every cached list, safe to use for
\* as long as it is fresh.
LEMMA CachesStable ==
  ASSUME TypeOK, BaseStep, now' \in Nat, now <= now', SingleInv, MultiInv,
         \A w \in Workers : single'[w] \in {single[w], None},
         \A w \in Workers : multi'[w] \in {multi[w], None}
  PROVE  SingleInv' /\ MultiInv'
<1> USE KeysAssumption
<1>1. ASSUME NEW w \in Workers, single'[w] # None
      PROVE  (/\ single[w].expiresAt <= now + Ttl
              /\ Recent(single[w].key, single[w].expiresAt - Ttl - MaxServe))'
  <2>1. /\ single'[w] = single[w]
        /\ single[w] \in [key: Keys, expiresAt: Nat]
        /\ single[w].expiresAt <= now + Ttl
        /\ Recent(single[w].key, single[w].expiresAt - Ttl - MaxServe)
    BY <1>1 DEF SingleInv, TypeOK
  <2>2. PICK k \in Keys, s \in Int :
           /\ k = single[w].key /\ s = single[w].expiresAt - Ttl - MaxServe
           /\ s <= now
    BY <2>1 DEF TypeOK
  <2>3. Recent(k, s)'
    BY <2>1, <2>2, RecentStable
  <2>4. single'[w].expiresAt <= now' + Ttl
    BY <2>1 DEF TypeOK
  <2>5. QED
    BY <2>1, <2>2, <2>3, <2>4 DEF Recent
<1>2. ASSUME NEW w \in Workers, multi'[w] # None
      PROVE  (/\ multi[w].expiresAt <= now + Ttl
              /\ Covers(multi[w].keys, multi[w].expiresAt - Ttl - MaxServe))'
  <2>1. /\ multi'[w] = multi[w]
        /\ multi[w] \in [keys: SUBSET Keys, expiresAt: Nat]
        /\ multi[w].expiresAt <= now + Ttl
        /\ Covers(multi[w].keys, multi[w].expiresAt - Ttl - MaxServe)
    BY <1>2 DEF MultiInv, TypeOK
  <2>2. PICK ks \in SUBSET Keys, s \in Int :
           /\ ks = multi[w].keys /\ s = multi[w].expiresAt - Ttl - MaxServe
           /\ s <= now
    <3>1. /\ multi[w].keys \in SUBSET Keys
          /\ multi[w].expiresAt - Ttl - MaxServe \in Int
          /\ multi[w].expiresAt - Ttl - MaxServe <= now
      BY <2>1 DEF TypeOK
    <3>2. QED
      BY ONLY <3>1
  <2>3. Covers(ks, s)'
    BY <2>1, <2>2, CoversStable
  <2>4. multi'[w].expiresAt <= now' + Ttl
    BY <2>1 DEF TypeOK
  <2>5. QED
    BY <2>1, <2>2, <2>3, <2>4 DEF Covers, Complete, Current, Recent
<1>3. QED
  BY <1>1, <1>2 DEF SingleInv, MultiInv

\* Rotation leaves what a request has read as good as it was, and so does time while
\* the request is not over.
LEMMA RequestsStable ==
  ASSUME TypeOK, BaseStep, now' \in Nat, now <= now', RequestInv, UNCHANGED <<pc, req>>,
         \A r \in Requests : pc[r] # "idle" => now' <= req[r].startedAt + MaxServe
  PROVE  RequestInv'
<1> USE KeysAssumption
<1>1. SUFFICES ASSUME NEW r \in Requests, pc[r] # "idle"
               PROVE  ServingInv(r)'
  BY DEF RequestInv, Unread, TypeOK
<1>2. /\ req[r] \in Request /\ req'[r] = req[r] /\ pc'[r] = pc[r]
      /\ ServingInv(r)
  BY <1>1 DEF RequestInv, TypeOK
<1>3. PICK t \in Int, s \in Int : /\ t = req[r].startedAt /\ s = Since(r)
                                /\ t <= now /\ s <= now
  BY <1>2 DEF Since, Request, ServingInv, TypeOK
<1>4. PICK f \in Keys, k \in Keys, fs \in SUBSET Keys, ks \in SUBSET Keys :
         /\ f = req[r].fetchedKey /\ k = req[r].key
         /\ fs = req[r].fetchedKeys /\ ks = req[r].jwks
  BY <1>2 DEF Request
<1>5. /\ pc[r] = "fill" /\ req[r].reads = 0 => Recent(f, t)'
      /\ req[r].reads > 0 => Recent(k, s)'
  BY <1>2, <1>3, <1>4, RecentStable DEF ServingInv
<1>6. /\ pc[r] = "fill" /\ req[r].reads > 0 => Covers(fs, t)'
      /\ req[r].reads > 1 => Covers(ks, s)'
  BY <1>2, <1>3, <1>4, CoversStable DEF ServingInv
<1>7. Since(r)' = s /\ req'[r].startedAt = t /\ req'[r].fetchedKey = f
      /\ req'[r].key = k /\ req'[r].fetchedKeys = fs /\ req'[r].jwks = ks
  BY <1>2, <1>3, <1>4 DEF Since
<1>8. /\ (pc[r] = "fill" /\ req[r].reads = 0 => Recent(req[r].fetchedKey, req[r].startedAt))'
      /\ (req[r].reads > 0 => Recent(req[r].key, Since(r)))'
  BY <1>2, <1>5, <1>7 DEF Recent
<1>9. /\ (pc[r] = "fill" /\ req[r].reads > 0 => Covers(req[r].fetchedKeys, req[r].startedAt))'
      /\ (req[r].reads > 1 => Covers(req[r].jwks, Since(r)))'
  BY <1>2, <1>6, <1>7 DEF Covers, Complete, Current, Recent
<1>10. (/\ req[r].worker \in Workers
        /\ req[r].startedAt <= now
        /\ now <= req[r].startedAt + MaxServe
        /\ pc[r] = "ready" => req[r].reads = 3
        /\ ~(req[r].reads > 1) => req[r].jwks = {})'
  BY <1>1, <1>2, <1>3 DEF ServingInv, TypeOK
<1>11. QED
  BY <1>8, <1>9, <1>10 DEF ServingInv

\* The key of a token that is still valid stays as recent as it was.
LEMMA TokenStable ==
  ASSUME TypeOK, BaseStep, now' \in Nat, now <= now', TokenInv,
         token' \in {token, None},
         token' # None => now' < token.signedAt + Life \/ now' = now
  PROVE  TokenInv'
<1> USE KeysAssumption
<1>1. SUFFICES ASSUME token' # None, token'.kind = "access"
               PROVE  (/\ token.key \in Keys
                       /\ token.signedAt \in Nat
                       /\ token.signedAt <= now
                       /\ now < token.signedAt + Life
                       /\ Recent(token.key, token.signedAt - Slack))'
  BY DEF TokenInv
<1>2. token' = token /\ token.key \in Keys /\ token.signedAt \in Nat
      /\ token.signedAt <= now /\ now < token.signedAt + Life
      /\ Recent(token.key, token.signedAt - Slack)
  BY <1>1 DEF TokenInv
<1>3. PICK k \in Keys, s \in Int : /\ k = token.key /\ s = token.signedAt - Slack
                                /\ s <= now
  BY <1>2 DEF Slack, TypeOK
<1>4. Recent(k, s)'
  BY <1>2, <1>3, RecentStable
<1>5. (Recent(token.key, token.signedAt - Slack))'
  BY <1>2, <1>3, <1>4 DEF Recent, Slack
<1>6. QED
  BY <1>1, <1>2, <1>5 DEF TypeOK
-----------------------------------------------------------------------------
(* The steps of a request leave the clock and the secret store alone.      *)

Still == UNCHANGED <<now, baseVars>>

\* What a request does changes no type but that of the request and of the caches.
LEMMA TypeStill ==
  ASSUME TypeOK, Still, NEW r \in Requests, NEW e \in Request,
         req' = [req EXCEPT ![r] = e],
         pc' \in [Requests -> {"idle", "read", "fill", "ready"}],
         single' \in [Workers -> [key: Keys, expiresAt: Nat] \cup {None}],
         multi' \in [Workers -> [keys: SUBSET Keys, expiresAt: Nat] \cup {None}]
  PROVE  TypeOK'
BY DEF TypeOK, Still, baseVars

\* What a request has read after a further read of the key is well formed.
LEMMA TakeKeyTyped ==
  ASSUME TypeOK, NEW r \in Requests, req[r].reads = 0, NEW k \in Keys, TakeKey(r, k)
  PROVE  /\ \E e \in Request : req' = [req EXCEPT ![r] = e]
         /\ pc' \in [Requests -> {"idle", "read", "fill", "ready"}]
<1> DEFINE e == [req[r] EXCEPT !.reads = req[r].reads + 1,
                               !.key = IF req[r].reads = 0 THEN k ELSE req[r].key,
                               !.fetchedKey = 1]
<1>1. req' = [req EXCEPT ![r] = e]
  BY DEF TakeKey, TypeOK
<1>2. e \in Request
  <2>1. req[r] \in Request /\ req[r].reads + 1 \in 0..3 /\ 1 \in Keys
    BY KeysAssumption DEF TypeOK, Keys
  <2>2. QED
    BY <2>1 DEF Request
<1>3. QED
  BY <1>1, <1>2 DEF TakeKey, Goto, AfterRead, TypeOK

\* Likewise of a list.
LEMMA TakeKeysTyped ==
  ASSUME TypeOK, NEW r \in Requests, req[r].reads \in {1, 2},
         NEW ks \in SUBSET Keys, TakeKeys(r, ks)
  PROVE  /\ \E e \in Request : req' = [req EXCEPT ![r] = e]
         /\ pc' \in [Requests -> {"idle", "read", "fill", "ready"}]
<1> DEFINE e == [req[r] EXCEPT !.reads = req[r].reads + 1,
                               !.idKeys = IF req[r].reads = 2 THEN ks ELSE req[r].idKeys,
                               !.jwks = req[r].jwks \cup ks,
                               !.fetchedKeys = {}]
<1>1. req' = [req EXCEPT ![r] = e]
  BY DEF TakeKeys, TypeOK
<1>2. e \in Request
  <2>1. req[r] \in Request /\ req[r].reads + 1 \in 0..3 /\ req[r].jwks \cup ks \subseteq Keys
    BY DEF TypeOK, Request
  <2>2. QED
    BY <2>1 DEF Request
<1>3. QED
  BY <1>1, <1>2 DEF TakeKeys, Goto, AfterRead, TypeOK

\* What a request does concerns no other request.
LEMMA OneServed ==
  ASSUME TypeOK, RequestInv, Still, NEW r \in Requests,
         \A other \in Requests \ {r} : pc'[other] = pc[other] /\ req'[other] = req[other],
         IF pc'[r] = "idle" THEN Unread(r)' ELSE ServingInv(r)'
  PROVE  RequestInv'
<1>1. SUFFICES ASSUME NEW other \in Requests \ {r}, pc'[other] # "idle"
               PROVE  ServingInv(other)'
  BY DEF RequestInv, Unread
<1>2. ServingInv(other) /\ pc'[other] = pc[other] /\ req'[other] = req[other]
  BY <1>1 DEF RequestInv
<1>3. QED
  BY <1>2 DEF ServingInv, Unread, Recent, Covers, Complete, Current, Since, Still, baseVars

\* What is known of the secret store, the caches and the token does not depend on the
\* requests.
LEMMA StoreStill ==
  ASSUME StoreInv, Still
  PROVE  StoreInv'
BY DEF StoreInv, Still, baseVars

\* Nor does what is known of the caches of the active key.
LEMMA SingleStill ==
  ASSUME SingleInv, Still, UNCHANGED single
  PROVE  SingleInv'
BY DEF SingleInv, Recent, Still, baseVars

\* Nor what is known of the cached lists.
LEMMA MultiStill ==
  ASSUME MultiInv, Still, UNCHANGED multi
  PROVE  MultiInv'
BY DEF MultiInv, Covers, Complete, Current, Recent, Still, baseVars

\* Nor what is known of the token that is followed.
LEMMA TokenStill ==
  ASSUME TokenInv, Still, UNCHANGED token
  PROVE  TokenInv'
BY DEF TokenInv, Recent, Still, baseVars

\* A key that was current when its request began, or was cached and fresh, is what a
\* first read may yield.
LEMMA TakeKeyServes ==
  ASSUME TypeOK, Still, NEW r \in Requests, pc[r] # "idle", ServingInv(r),
         req[r].reads = 0, NEW k \in Keys, TakeKey(r, k), Recent(k, Since(r))
  PROVE  ServingInv(r)'
<1>1. /\ req'[r] = [req[r] EXCEPT !.reads = 1, !.key = k, !.fetchedKey = 1]
      /\ pc'[r] = "read"
  BY DEF TakeKey, Goto, AfterRead, TypeOK, Request
<1>2. Since(r)' = Since(r) /\ req'[r].key = k /\ req'[r].reads = 1
      /\ req'[r].startedAt = req[r].startedAt /\ req'[r].worker = req[r].worker
  BY <1>1 DEF Since, TypeOK, Request
<1>3. Recent(req[r].key, Since(r))'
  BY <1>2 DEF Recent, Still, baseVars
<1>4. QED
  BY <1>1, <1>2, <1>3 DEF ServingInv, Still

\* So it is with a list, which adds to those that were read before.
LEMMA TakeKeysServes ==
  ASSUME TypeOK, Still, NEW r \in Requests, pc[r] # "idle", ServingInv(r),
         req[r].reads \in {1, 2}, NEW ks \in SUBSET Keys, TakeKeys(r, ks),
         Covers(ks, Since(r))
  PROVE  ServingInv(r)'
<1>1. /\ req'[r].reads = req[r].reads + 1
      /\ req'[r].jwks = req[r].jwks \cup ks
      /\ req'[r].key = req[r].key
      /\ req'[r].startedAt = req[r].startedAt /\ req'[r].worker = req[r].worker
      /\ pc'[r] = (IF req[r].reads = 2 THEN "ready" ELSE "read")
  BY DEF TakeKeys, Goto, AfterRead, TypeOK, Request
<1>2. Since(r)' = Since(r)
  BY <1>1 DEF Since
<1>3. Recent(req[r].key, Since(r))'
  BY <1>1, <1>2 DEF Recent, Still, baseVars, ServingInv
<1>4. Covers(req[r].jwks \cup ks, Since(r))
  BY CoversMore DEF ServingInv
<1>5. Covers(req[r].jwks, Since(r))'
  BY <1>1, <1>2, <1>4 DEF Covers, Complete, Current, Recent, Still, baseVars
<1>6. QED
  BY <1>1, <1>3, <1>5 DEF ServingInv, Still
-----------------------------------------------------------------------------
(* The invariant holds at the start and is kept by every step.             *)

\* At the start the caches are empty and nothing is read or signed.
LEMMA InitEstablishesInv == Init => IInv
<1> SUFFICES ASSUME Init PROVE IInv
  OBVIOUS
<1>1. TypeOK
  BY BlankTyped, KeysAssumption DEF Init, TypeOK, Keys
<1>2. StoreInv
  BY DEF Init, StoreInv, Keys
<1>3. SingleInv /\ MultiInv /\ RequestInv /\ TokenInv
  BY DEF Init, SingleInv, MultiInv, RequestInv, TokenInv, Unread, Blank
<1>4. QED
  BY <1>1, <1>2, <1>3 DEF IInv

\* The operator who rotates the keys makes no cache stale before its time.
LEMMA RotateKeepsInv == ASSUME IInv, Rotate PROVE IInv'
<1> USE DEF IInv
<1>1. /\ UNCHANGED <<now, cacheVars, pc, req, token>>
      /\ BaseStep
  BY DEF Rotate, Advertise, Activate, Withdraw, BaseStep
<1>2. TypeOK'
  <2>1. CASE Advertise
    BY <1>1, <2>1 DEF TypeOK, Advertise, cacheVars
  <2>2. CASE Activate
    BY <1>1, <2>2 DEF TypeOK, Activate, cacheVars
  <2>3. CASE Withdraw
    BY <1>1, <2>3 DEF TypeOK, Withdraw, cacheVars
  <2>4. QED
    BY <2>1, <2>2, <2>3 DEF Rotate
<1>3. now' \in Nat /\ now <= now'
  BY <1>1 DEF TypeOK
<1>4. SingleInv' /\ MultiInv'
  BY <1>1, <1>3, CachesStable DEF cacheVars
<1>5. RequestInv'
  BY <1>1, <1>3, RequestsStable DEF RequestInv, ServingInv
<1>6. TokenInv'
  BY <1>1, <1>3, TokenStable
<1>7. QED
  BY <1>1, <1>2, <1>4, <1>5, <1>6, StoreStable

\* Nor does the clock: an entry past its expiry is as if there were none, and a
\* request past MaxServe is over.
LEMMA TickKeepsInv == ASSUME IInv, Tick PROVE IInv'
<1> USE DEF IInv
<1>1. /\ now' = now + 1 /\ now' \in Nat /\ now <= now'
      /\ UNCHANGED <<baseVars, pc, req>>
      /\ BaseStep
  BY DEF Tick, BaseStep, TypeOK
<1>2. /\ \A w \in Workers : single'[w] \in {single[w], None}
      /\ \A w \in Workers : multi'[w] \in {multi[w], None}
      /\ single' \in [Workers -> [key: Keys, expiresAt: Nat] \cup {None}]
      /\ multi' \in [Workers -> [keys: SUBSET Keys, expiresAt: Nat] \cup {None}]
  BY DEF Tick, Forget, TypeOK
<1>3. TypeOK'
  BY <1>1, <1>2 DEF TypeOK, baseVars
<1>4. SingleInv' /\ MultiInv'
  BY <1>1, <1>2, CachesStable
<1>5. \A r \in Requests : pc[r] # "idle" => now' <= req[r].startedAt + MaxServe
  BY <1>1, KeysAssumption DEF Tick, TypeOK, Request
<1>6. RequestInv'
  BY <1>1, <1>5, RequestsStable
<1>7. /\ token' \in {token, None}
      /\ token' # None => now' < token.signedAt + Life
  BY <1>1 DEF Tick
<1>8. TokenInv'
  BY <1>1, <1>7, TokenStable
<1>9. QED
  BY <1>1, <1>3, <1>4, <1>6, <1>8, StoreStable

\* A request that arrives has read nothing.
LEMMA ArriveKeepsInv ==
  ASSUME IInv, NEW r \in Requests, NEW w \in Workers, Arrive(r, w)
  PROVE  IInv'
<1> USE DEF IInv
<1>1. /\ Still /\ UNCHANGED <<cacheVars, token>>
      /\ req' = [req EXCEPT ![r].worker = w, ![r].startedAt = now]
      /\ pc' = [pc EXCEPT ![r] = "read"]
      /\ req[r].reads = 0 /\ req[r].jwks = {}
  BY DEF Arrive, Still, Goto, RequestInv, Unread
<1>2. TypeOK'
  <2> DEFINE e == [req[r] EXCEPT !.worker = w, !.startedAt = now]
  <2>1. req' = [req EXCEPT ![r] = e]
    BY <1>1 DEF TypeOK
  <2>2. e \in Request
    BY DEF TypeOK, Request
  <2>3. QED
    BY <1>1, <2>1, <2>2, TypeStill DEF TypeOK, cacheVars
<1>3. ServingInv(r)'
  BY <1>1, KeysAssumption DEF ServingInv, TypeOK, Request, Still
<1>4. RequestInv'
  BY <1>1, <1>3, OneServed DEF TypeOK
<1>5. QED
  BY <1>1, <1>2, <1>4, StoreStill, SingleStill, MultiStill, TokenStill DEF cacheVars

\* A cached key that is fresh was active Slack ago at the earliest.
LEMMA HitKeyKeepsInv == ASSUME IInv, NEW r \in Requests, HitKey(r) PROVE IInv'
<1> USE DEF IInv
<1> DEFINE entry == single[req[r].worker]
<1>1. /\ Still /\ UNCHANGED <<cacheVars, token>>
      /\ pc[r] = "read" /\ ServingInv(r) /\ req[r].reads = 0
      /\ entry # None /\ now <= entry.expiresAt
      /\ TakeKey(r, entry.key)
  BY WantsRead DEF HitKey, Still, Fresh, RequestInv
<1>2. /\ entry.key \in Keys /\ entry.expiresAt \in Nat
      /\ Recent(entry.key, entry.expiresAt - Ttl - MaxServe)
  BY <1>1 DEF TypeOK, SingleInv, ServingInv
<1>3. PICK k \in Keys, s \in Int :
         k = entry.key /\ s = entry.expiresAt - Ttl - MaxServe
  BY <1>2, KeysAssumption
<1>4. Since(r) \in Int /\ Since(r) <= s
  BY <1>1, <1>2, <1>3, KeysAssumption DEF Since, ServingInv, TypeOK, Request
<1>5. Recent(k, Since(r)) /\ TakeKey(r, k)
  BY <1>1, <1>2, <1>3, <1>4, RecentWeaken
<1>6. ServingInv(r)'
  BY <1>1, <1>5, TakeKeyServes
<1>7. TypeOK'
  BY <1>1, <1>5, TakeKeyTyped, TypeStill DEF TypeOK, cacheVars
<1>8. RequestInv'
  BY <1>1, <1>5, <1>6, OneServed DEF TakeKey, Goto, AfterRead, TypeOK
<1>9. QED
  BY <1>1, <1>7, <1>8, StoreStill, SingleStill, MultiStill, TokenStill DEF cacheVars

\* A cached list that is fresh lacks only keys made known since.
LEMMA HitKeysKeepsInv == ASSUME IInv, NEW r \in Requests, HitKeys(r) PROVE IInv'
<1> USE DEF IInv
<1> DEFINE entry == multi[req[r].worker]
<1>1. /\ Still /\ UNCHANGED <<cacheVars, token>>
      /\ pc[r] = "read" /\ ServingInv(r) /\ req[r].reads \in {1, 2}
      /\ entry # None /\ now <= entry.expiresAt
      /\ TakeKeys(r, entry.keys)
  BY WantsRead DEF HitKeys, Still, Fresh, RequestInv
<1>2. /\ entry.keys \in SUBSET Keys /\ entry.expiresAt \in Nat
      /\ Covers(entry.keys, entry.expiresAt - Ttl - MaxServe)
  BY <1>1 DEF TypeOK, MultiInv, ServingInv
<1>3. PICK ks \in SUBSET Keys, s \in Int :
         ks = entry.keys /\ s = entry.expiresAt - Ttl - MaxServe
  <2>1. entry.expiresAt - Ttl - MaxServe \in Int
    BY <1>2, KeysAssumption
  <2> HIDE DEF entry
  <2>2. QED
    BY <1>2, <2>1
<1>4. Since(r) \in Int /\ Since(r) <= s
  BY <1>1, <1>2, <1>3, KeysAssumption DEF Since, ServingInv, TypeOK, Request
<1>5. Covers(ks, Since(r)) /\ TakeKeys(r, ks)
  BY <1>1, <1>2, <1>3, <1>4, CoversWeaken
<1>6. ServingInv(r)'
  BY <1>1, <1>5, TakeKeysServes
<1>7. TypeOK'
  BY <1>1, <1>5, TakeKeysTyped, TypeStill DEF TypeOK, cacheVars
<1>8. RequestInv'
  BY <1>1, <1>5, <1>6, OneServed DEF TakeKeys, Goto, AfterRead, TypeOK
<1>9. QED
  BY <1>1, <1>7, <1>8, StoreStill, SingleStill, MultiStill, TokenStill DEF cacheVars

\* What the secret store answers is current when it is asked.
LEMMA MissKeepsInv == ASSUME IInv, NEW r \in Requests, Miss(r) PROVE IInv'
<1> USE DEF IInv
<1>1. /\ Still /\ UNCHANGED <<cacheVars, token>>
      /\ pc[r] = "read" /\ ServingInv(r) /\ pc' = [pc EXCEPT ![r] = "fill"]
      /\ \/ /\ req[r].reads = 0
            /\ req' = [req EXCEPT ![r].fetchedKey = active]
         \/ /\ req[r].reads \in {1, 2}
            /\ req' = [req EXCEPT ![r].fetchedKeys = KeyList]
  BY WantsRead DEF Miss, Still, Goto, RequestInv
<1>2. req[r] \in Request
  BY DEF TypeOK
<1>3. CASE req[r].reads = 0 /\ req' = [req EXCEPT ![r].fetchedKey = active]
  <2> DEFINE e == [req[r] EXCEPT !.fetchedKey = active]
  <2>1. req' = [req EXCEPT ![r] = e] /\ e \in Request /\ req'[r] = e
    BY <1>2, <1>3 DEF TypeOK, Request
  <2>2. TypeOK'
    BY <1>1, <2>1, TypeStill DEF TypeOK, cacheVars
  <2>3. Recent(active, req[r].startedAt) /\ req'[r].fetchedKey = active
        /\ req'[r].startedAt = req[r].startedAt /\ req'[r].reads = 0
        /\ req'[r].worker = req[r].worker /\ req'[r].jwks = req[r].jwks
    BY <1>2, <1>3, <2>1 DEF Recent, Request
  <2>4. req[r].jwks = {} /\ pc'[r] = "fill"
    BY <1>1, <1>3 DEF ServingInv, TypeOK
  <2>5. ServingInv(r)'
    BY <1>1, <2>3, <2>4 DEF ServingInv, Recent, Still, baseVars
  <2>6. RequestInv'
    BY <1>1, <1>3, <2>5, OneServed DEF TypeOK
  <2>7. QED
    BY <1>1, <2>2, <2>6, StoreStill, SingleStill, MultiStill, TokenStill DEF cacheVars
<1>4. CASE req[r].reads \in {1, 2} /\ req' = [req EXCEPT ![r].fetchedKeys = KeyList]
  <2> DEFINE e == [req[r] EXCEPT !.fetchedKeys = KeyList]
  <2>1. req' = [req EXCEPT ![r] = e] /\ e \in Request /\ req'[r] = e
    BY <1>2, <1>4, KeyListTyped DEF TypeOK, Request
  <2>2. TypeOK'
    BY <1>1, <2>1, TypeStill DEF TypeOK, cacheVars
  <2>3. /\ req'[r].fetchedKeys = KeyList /\ req'[r].reads = req[r].reads
        /\ req'[r].startedAt = req[r].startedAt /\ req'[r].worker = req[r].worker
        /\ req'[r].key = req[r].key /\ req'[r].jwks = req[r].jwks
        /\ Since(r)' = Since(r)
    BY <1>2, <2>1 DEF Request, Since
  <2>4. Covers(KeyList, req[r].startedAt)
    BY <1>2, StoreCovers DEF Request
  <2>5. Covers(req[r].fetchedKeys, req[r].startedAt)'
    BY <1>1, <2>3, <2>4 DEF Covers, Complete, Current, Recent, Still, baseVars
  <2>6. (/\ req[r].reads > 0 => Recent(req[r].key, Since(r))
         /\ IF req[r].reads > 1 THEN Covers(req[r].jwks, Since(r))
                                ELSE req[r].jwks = {})'
    BY <1>1, <2>3 DEF ServingInv, Recent, Covers, Complete, Current, Still, baseVars
  <2>7. ServingInv(r)'
    BY <1>1, <1>4, <2>3, <2>5, <2>6 DEF ServingInv, Still, TypeOK
  <2>8. RequestInv'
    BY <1>1, <1>4, <2>7, OneServed DEF TypeOK
  <2>9. QED
    BY <1>1, <2>2, <2>8, StoreStill, SingleStill, MultiStill, TokenStill DEF cacheVars
<1>5. QED
  BY <1>1, <1>3, <1>4

\* A fill is at most MaxServe older than its arrival, and so is what it leaves in the
\* cache, even if it replaces a newer one.
LEMMA FillKeyKeepsInv == ASSUME IInv, NEW r \in Requests, FillKey(r) PROVE IInv'
<1> USE DEF IInv
<1> DEFINE k == req[r].fetchedKey
           w == req[r].worker
<1>1. /\ Still /\ UNCHANGED <<multi, token>>
      /\ pc[r] = "fill" /\ ServingInv(r) /\ req[r].reads = 0 /\ w \in Workers
      /\ single' = [single EXCEPT ![w] = [key |-> k, expiresAt |-> now + Ttl]]
      /\ TakeKey(r, k)
  BY WantsRead DEF FillKey, Still, RequestInv, ServingInv
<1>2. /\ k \in Keys /\ req[r].startedAt \in Nat /\ Recent(k, req[r].startedAt)
      /\ req[r].startedAt <= now /\ now <= req[r].startedAt + MaxServe
  BY <1>1 DEF TypeOK, Request, ServingInv
<1>3. Since(r) \in Int /\ Since(r) <= req[r].startedAt
  BY <1>2, KeysAssumption DEF Since
<1>4. Recent(k, Since(r)) /\ Recent(k, now - MaxServe)
  BY <1>2, <1>3, RecentWeaken, KeysAssumption DEF TypeOK
<1>5. ServingInv(r)'
  BY <1>1, <1>2, <1>4, TakeKeyServes
<1>6. TypeOK'
  <2>1. single' \in [Workers -> [key: Keys, expiresAt: Nat] \cup {None}]
    BY <1>1, <1>2, KeysAssumption DEF TypeOK
  <2>2. QED
    BY <1>1, <1>2, <2>1, TakeKeyTyped, TypeStill DEF TypeOK
<1>7. RequestInv'
  BY <1>1, <1>5, OneServed DEF TakeKey, Goto, AfterRead, TypeOK
<1>8. SingleInv'
  <2>1. SUFFICES ASSUME NEW v \in Workers, single'[v] # None
                 PROVE  (/\ single[v].expiresAt <= now + Ttl
                         /\ Recent(single[v].key, single[v].expiresAt - Ttl - MaxServe))'
    BY DEF SingleInv
  <2>2. CASE v = w
    <3>1. single'[v].key = k /\ single'[v].expiresAt = now + Ttl
      BY <1>1, <2>2 DEF TypeOK
    <3>2. now + Ttl - Ttl - MaxServe = now - MaxServe
      BY KeysAssumption DEF TypeOK
    <3>3. now' = now
      BY <1>1 DEF Still
    <3>4. QED
      BY <1>1, <1>4, <3>1, <3>2, <3>3, KeysAssumption DEF Recent, Still, baseVars, TypeOK
  <2>3. CASE v # w
    BY <1>1, <2>1, <2>3 DEF SingleInv, Recent, Still, baseVars, TypeOK
  <2>4. QED
    BY <2>2, <2>3
<1>9. QED
  BY <1>1, <1>6, <1>7, <1>8, StoreStill, MultiStill, TokenStill

\* So it is with a list.
LEMMA FillKeysKeepsInv == ASSUME IInv, NEW r \in Requests, FillKeys(r) PROVE IInv'
<1> USE DEF IInv
<1> DEFINE ks == req[r].fetchedKeys
           w == req[r].worker
<1>1. /\ Still /\ UNCHANGED <<single, token>>
      /\ pc[r] = "fill" /\ ServingInv(r) /\ req[r].reads \in {1, 2} /\ w \in Workers
      /\ multi' = [multi EXCEPT ![w] = [keys |-> ks, expiresAt |-> now + Ttl]]
      /\ TakeKeys(r, ks)
  BY WantsRead DEF FillKeys, Still, RequestInv, ServingInv
<1>2. /\ ks \in SUBSET Keys /\ req[r].startedAt \in Nat /\ Covers(ks, req[r].startedAt)
      /\ req[r].startedAt <= now /\ now <= req[r].startedAt + MaxServe
  BY <1>1 DEF TypeOK, Request, ServingInv
<1>3. Since(r) \in Int /\ Since(r) <= req[r].startedAt
  BY <1>2, KeysAssumption DEF Since
<1>4. Covers(ks, Since(r)) /\ Covers(ks, now - MaxServe)
  BY <1>2, <1>3, CoversWeaken, KeysAssumption DEF TypeOK
<1>5. ServingInv(r)'
  BY <1>1, <1>2, <1>4, TakeKeysServes
<1>6. TypeOK'
  <2>1. multi' \in [Workers -> [keys: SUBSET Keys, expiresAt: Nat] \cup {None}]
    BY <1>1, <1>2, KeysAssumption DEF TypeOK
  <2>2. QED
    BY <1>1, <1>2, <2>1, TakeKeysTyped, TypeStill DEF TypeOK
<1>7. RequestInv'
  BY <1>1, <1>5, OneServed DEF TakeKeys, Goto, AfterRead, TypeOK
<1>8. MultiInv'
  <2>1. SUFFICES ASSUME NEW v \in Workers, multi'[v] # None
                 PROVE  (/\ multi[v].expiresAt <= now + Ttl
                         /\ Covers(multi[v].keys, multi[v].expiresAt - Ttl - MaxServe))'
    BY DEF MultiInv
  <2>2. CASE v = w
    <3>1. multi'[v].keys = ks /\ multi'[v].expiresAt = now + Ttl
      BY <1>1, <2>2 DEF TypeOK
    <3>2. now + Ttl - Ttl - MaxServe = now - MaxServe
      BY KeysAssumption DEF TypeOK
    <3>3. now' = now
      BY <1>1 DEF Still
    <3>4. multi'[v].expiresAt <= now' + Ttl
      BY <3>1, <3>3, KeysAssumption DEF TypeOK
    <3>5. multi'[v].expiresAt - Ttl - MaxServe = now - MaxServe
      BY <3>1, <3>2, KeysAssumption DEF TypeOK
    <3>6. Covers(multi[v].keys, multi[v].expiresAt - Ttl - MaxServe)'
      BY <1>1, <1>4, <3>1, <3>5 DEF Covers, Complete, Current, Recent, Still, baseVars
    <3>7. QED
      BY <3>4, <3>6
  <2>3. CASE v # w
    BY <1>1, <2>1, <2>3 DEF MultiInv, Covers, Complete, Current, Recent, Still, baseVars, TypeOK
  <2>4. QED
    BY <2>2, <2>3
<1>9. QED
  BY <1>1, <1>6, <1>7, <1>8, StoreStill, SingleStill, TokenStill

\* A request that is over leaves the rest of the invariant alone.
LEMMA EndKeeps ==
  ASSUME IInv, Still, UNCHANGED cacheVars, NEW r \in Requests, End(r)
  PROVE  TypeOK' /\ StoreInv' /\ SingleInv' /\ MultiInv' /\ RequestInv'
<1> USE DEF IInv
<1>1. TypeOK'
  BY BlankTyped, TypeStill DEF End, Goto, TypeOK, cacheVars
<1>2. RequestInv'
  BY OneServed DEF End, Goto, Blank, Unread, TypeOK
<1>3. QED
  BY <1>1, <1>2, StoreStill, SingleStill, MultiStill DEF cacheVars

\* A token is signed with a key that was active Slack ago at the earliest.
LEMMA SignKeepsInv == ASSUME IInv, NEW r \in Requests, Sign(r) PROVE IInv'
<1> USE DEF IInv
<1>1. /\ Still /\ UNCHANGED cacheVars /\ End(r)
      /\ pc[r] = "ready" /\ ServingInv(r)
      /\ \/ token' = [kind |-> "access", key |-> req[r].key, signedAt |-> now]
         \/ token' = [kind |-> "id", key |-> IdTokenKey(r), signedAt |-> now]
  BY DEF Sign, Still, RequestInv
<1>2. CASE token' = [kind |-> "id", key |-> IdTokenKey(r), signedAt |-> now]
  <2>1. TokenInv'
    BY <1>2 DEF TokenInv
  <2>2. QED
    BY <1>1, <2>1, EndKeeps
<1>3. CASE token' = [kind |-> "access", key |-> req[r].key, signedAt |-> now]
  <2>1. /\ req[r].key \in Keys /\ Recent(req[r].key, Since(r))
        /\ Since(r) \in Int /\ now - Slack \in Int /\ now - Slack <= Since(r)
    BY <1>1, KeysAssumption DEF ServingInv, TypeOK, Request, Since, Slack
  <2>2. Recent(req[r].key, now - Slack)
    BY <2>1, RecentWeaken
  <2>3. TokenInv'
    BY <1>1, <1>3, <2>1, <2>2, KeysAssumption
    DEF TokenInv, Recent, Still, baseVars, TypeOK, Slack
  <2>4. QED
    BY <1>1, <2>3, EndKeeps
<1>4. QED
  BY <1>1, <1>2, <1>3

\* A restarted worker has no cache and serves nothing.
LEMMA RestartKeepsInv == ASSUME IInv, NEW w \in Workers, Restart(w) PROVE IInv'
<1> USE DEF IInv
<1>1. Still /\ UNCHANGED token
  BY DEF Restart, Still
<1>2. TypeOK'
  BY <1>1, BlankTyped DEF Restart, TypeOK, Still, baseVars
<1>3. SingleInv' /\ MultiInv'
  BY <1>1 DEF Restart, SingleInv, MultiInv, Recent, Covers, Complete, Current, Still,
                baseVars, TypeOK
<1>4. RequestInv'
  <2>1. SUFFICES ASSUME NEW r \in Requests
                 PROVE  IF pc'[r] = "idle" THEN Unread(r)' ELSE ServingInv(r)'
    BY DEF RequestInv
  <2>2. CASE req[r].worker = w
    BY <2>2 DEF Restart, Blank, Unread
  <2>3. CASE req[r].worker # w
    BY <1>1, <2>3
    DEF Restart, RequestInv, ServingInv, Unread, Recent, Covers, Complete, Current, Since,
        Still, baseVars
  <2>4. QED
    BY <2>2, <2>3
<1>5. QED
  BY <1>1, <1>2, <1>3, <1>4, StoreStill, TokenStill

\* Every step keeps the invariant.
LEMMA NextKeepsInv == IInv /\ [Next]_vars => IInv'
<1> SUFFICES ASSUME IInv, [Next]_vars PROVE IInv'
  OBVIOUS
<1>1. CASE Tick
  BY <1>1, TickKeepsInv
<1>2. CASE Rotate
  BY <1>2, RotateKeepsInv
<1>3. ASSUME NEW r \in Requests, Serve(r) PROVE IInv'
  <2>1. CASE \E w \in Workers : Arrive(r, w)
    BY <2>1, ArriveKeepsInv
  <2>2. CASE HitKey(r)
    BY <2>2, HitKeyKeepsInv
  <2>3. CASE HitKeys(r)
    BY <2>3, HitKeysKeepsInv
  <2>4. CASE Miss(r)
    BY <2>4, MissKeepsInv
  <2>5. CASE FillKey(r)
    BY <2>5, FillKeyKeepsInv
  <2>6. CASE FillKeys(r)
    BY <2>6, FillKeysKeepsInv
  <2>7. CASE FetchFails(r) \/ Answer(r)
    <3>1. Still /\ UNCHANGED <<cacheVars, token>> /\ End(r)
      BY <2>7 DEF FetchFails, Answer, Still
    <3>2. TokenInv'
      BY <3>1, TokenStill DEF IInv
    <3>3. QED
      BY <3>1, <3>2, EndKeeps DEF IInv
  <2>8. CASE Sign(r)
    BY <2>8, SignKeepsInv
  <2>9. QED
    BY <1>3, <2>1, <2>2, <2>3, <2>4, <2>5, <2>6, <2>7, <2>8 DEF Serve
<1>4. ASSUME NEW w \in Workers, Restart(w) PROVE IInv'
  BY <1>4, RestartKeepsInv
<1>5. CASE UNCHANGED vars
  <2>1. Still /\ UNCHANGED <<cacheVars, pc, req, token>>
    BY <1>5 DEF vars, Still
  <2>2. TypeOK'
    BY <2>1 DEF IInv, TypeOK, Still, baseVars, cacheVars
  <2>3. RequestInv'
    BY <2>1 DEF IInv, RequestInv, ServingInv, Unread, Recent, Covers, Complete, Current,
                Since, Still, baseVars
  <2>4. QED
    BY <2>1, <2>2, <2>3, StoreStill, SingleStill, MultiStill, TokenStill DEF IInv, cacheVars
<1>6. QED
  BY <1>1, <1>2, <1>3, <1>4, <1>5 DEF Next

-----------------------------------------------------------------------------
(* The theorems.                                                           *)

\* The invariant holds in every state that createApp's workers and the secret store
\* can reach.
THEOREM CachesAreSound == Spec => []IInv
BY InitEstablishesInv, NextKeepsInv, PTL DEF Spec

\* Every key read or cached is one that was made.
THEOREM TypeCorrect == Spec => []TypeOK
BY CachesAreSound, PTL DEF IInv

\* Whatever the caches and the requests do, a request never works with a key that
\* ceased to be active more than Slack ago (createCachedSigningKeyProvider).
THEOREM RotationIsPickedUp == Spec => []RotationPickedUp
<1>1. IInv => RotationPickedUp
  <2> SUFFICES ASSUME IInv, NEW r \in Requests, pc[r] # "idle", req[r].reads > 0
               PROVE  \/ req[r].key = active
                      \/ req[r].key < active /\ now <= deactivatedAt[req[r].key] + Slack
    BY DEF RotationPickedUp
  <2>1. ServingInv(r) /\ req[r] \in Request /\ TypeOK
    BY DEF IInv, RequestInv, TypeOK
  <2>2. Recent(req[r].key, Since(r)) /\ now <= Since(r) + Slack
    BY <2>1, KeysAssumption DEF ServingInv, Since, Slack, Request, TypeOK
  <2>3. QED
    BY <2>1, <2>2, KeysAssumption DEF Recent, Since, Slack, Request, TypeOK
<1>2. QED
  BY <1>1, CachesAreSound, PTL

\* An access token that has not expired verifies against what any worker publishes,
\* for any rotation that satisfies PolicyAssumption (routes/jwks.ts).
LEMMA ListedKeysVerify ==
  ASSUME IInv, listsKeys, NEW r \in Requests, pc[r] = "ready",
         token # None, token.kind = "access"
  PROVE  token.key \in req[r].jwks
<1> SUFFICES ASSUME token.key \notin req[r].jwks PROVE FALSE
  OBVIOUS
<1>1. ServingInv(r) /\ req[r] \in Request /\ TypeOK
  BY DEF IInv, RequestInv, TypeOK
<1>2. /\ token.key \in Keys /\ token.signedAt \in Nat
      /\ now < token.signedAt + Life
      /\ Recent(token.key, token.signedAt - Slack)
  BY DEF IInv, TokenInv
<1>3. /\ Complete(req[r].jwks, Since(r))
      /\ Since(r) \in Int /\ now < Since(r) + Ahead
  BY <1>1, KeysAssumption, PolicyAssumption
  DEF ServingInv, Covers, Since, Slack, Request, TypeOK
<1>4. token.key < active /\ deactivatedAt[token.key] + Keep <= now
  <2>1. token.key \in Keys \ req[r].jwks /\ token.key <= active
    BY <1>1, <1>2 DEF Recent, TypeOK, Keys
  <2>2. \/ token.key < active /\ deactivatedAt[token.key] + Keep <= now
        \/ Since(r) + Ahead <= now
    BY <1>3, <2>1 DEF Complete
  <2>3. QED
    BY <1>1, <1>3, <2>2, KeysAssumption DEF TypeOK
<1>5. token.signedAt - Slack <= deactivatedAt[token.key]
  BY <1>1, <1>2, <1>4 DEF Recent, TypeOK, Keys
<1>6. deactivatedAt[token.key] \in Nat /\ Slack \in Nat
  BY <1>1, <1>2, KeysAssumption DEF TypeOK, Slack
<1>7. QED
  BY <1>1, <1>2, <1>4, <1>5, <1>6, KeysAssumption, PolicyAssumption DEF TypeOK

\* Without a list, what is published once a rotation is over is the active key
\* (CreateAppOptions).
LEMMA ActiveKeyVerifies ==
  ASSUME IInv, ~listsKeys, Settled, NEW r \in Requests, pc[r] = "ready"
  PROVE  active \in req[r].jwks
<1>1. ServingInv(r) /\ req[r] \in Request /\ TypeOK
  BY DEF IInv, RequestInv, TypeOK
<1>2. Current(req[r].jwks, Since(r))
  BY <1>1 DEF ServingInv, Covers
<1>3. PICK k \in req[r].jwks : k \in Keys /\ Recent(k, Since(r))
  BY <1>1, <1>2 DEF Current, Request
<1>4. Since(r) \in Int /\ now <= Since(r) + Slack /\ Slack \in Nat
  BY <1>1, KeysAssumption DEF ServingInv, Since, Slack, Request, TypeOK
<1>5. ~(k < active)
  <2> SUFFICES ASSUME k < active PROVE FALSE
    OBVIOUS
  <2>1. k \in 1..(active - 1) /\ deactivatedAt[k] \in Nat
    BY <1>1, <1>3 DEF TypeOK, Keys
  <2>2. deactivatedAt[k] + Slack < now /\ Since(r) <= deactivatedAt[k]
    BY <1>1, <1>3, <2>1 DEF Settled, Recent, TypeOK, Keys
  <2>3. QED
    BY <1>1, <1>4, <2>1, <2>2 DEF TypeOK
<1>6. QED
  BY <1>3, <1>5 DEF Recent

\* An access token that has not expired verifies against what any worker publishes:
\* any, where the secret store lists its keys and rotates them as PolicyAssumption
\* says, and the active key's, after a rotation, where it does not.
THEOREM AccessTokensAlwaysVerify == Spec => []AccessTokensVerify
<1>1. IInv => AccessTokensVerify
  BY ListedKeysVerify, ActiveKeyVerifies DEF AccessTokensVerify, IInv, TypeOK
<1>2. QED
  BY <1>1, CachesAreSound, PTL
=============================================================================
