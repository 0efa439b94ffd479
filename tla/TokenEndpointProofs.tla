------------------------- MODULE TokenEndpointProofs -------------------------
(***************************************************************************)
(* Proofs about TokenEndpoint, for any number of grants, clients, scopes   *)
(* and requests, any lifetimes, both kinds of store, and any interleaving  *)
(* and failure.                                                            *)
(***************************************************************************)
EXTENDS TokenProperties, TLAPS

\* What a request in flight knows about the entries it read, by the label it
\* stands at.
Knows(label, q) ==
  /\ q.kind = "code" => q.grant \in Grants
  /\ q.kind # "code" => q.token \in Requests
  /\ label \in Cascading \cup {"sign", "issue", "storeRefresh"} => q.grant \in Grants
  /\ label = "delete" /\ q.kind = "revokeRefresh" => q.grant \in Grants
  /\ label \in {"sign", "issue"} => q.kind \in {"code", "refresh"}
  /\ label \in {"sign", "issue"} /\ q.kind = "refresh" =>
       q.entry \in RefreshEntry /\ q.originalIssuedAt \in Nat
  /\ (\/ label \in {"issue", "storeRefresh", "retire", "markRetired", "respond"}
      \/ label = "done" /\ q.kind \in {"code", "refresh"})
       => q.minted \in Requests /\ q.madeAt \in Nat
  /\ label = "storeRefresh" => q.originalIssuedAt \in Nat
  /\ label = "markUsed" => q.kind = "code" /\ q.entry \in CodeEntry
  /\ label = "markRetired" => q.kind = "refresh" /\ q.entry \in RefreshEntry

Control(r) ==
  /\ pc[r] = "idle" <=> req[r] = Absent
  /\ req[r] # Absent => Knows(pc[r], req[r])

Typed == TypeOK /\ \A r \in Requests : Control(r)

\* Every call of the code store keeps it a store of code entries.
LEMMA CodeStoreTyped ==
  ASSUME codes \in [Grants -> CodeEntry \cup {Absent}], NEW g \in Grants
  PROVE  /\ Fetch(codes, g) \in CodeEntry \cup {Absent}
         /\ AfterGet(codes, g) \in [Grants -> CodeEntry \cup {Absent}]
         /\ AfterConsume(codes, g) \in [Grants -> CodeEntry \cup {Absent}]
         /\ \A e \in CodeEntry :
              /\ AfterSet(codes, g, e) \in [Grants -> CodeEntry \cup {Absent}]
              /\ Spent(e) \in CodeEntry
  BY StoresAssumption DEF Fetch, AfterGet, AfterConsume, AfterSet, Spent, CodeEntry

\* Every call of the refresh token store keeps it a store of its entries.
LEMMA RefreshStoreTyped ==
  ASSUME refresh \in [Requests -> RefreshEntry \cup {Absent}], NEW t \in Requests
  PROVE  /\ Fetch(refresh, t) \in RefreshEntry \cup {Absent}
         /\ AfterGet(refresh, t) \in [Requests -> RefreshEntry \cup {Absent}]
         /\ AfterConsume(refresh, t) \in [Requests -> RefreshEntry \cup {Absent}]
         /\ AfterDelete(refresh, t) \in [Requests -> RefreshEntry \cup {Absent}]
         /\ \A g \in Grants : AfterRevokeByGrant(refresh, g) \in [Requests -> RefreshEntry \cup {Absent}]
         /\ \A e \in RefreshEntry :
              /\ AfterSet(refresh, t, e) \in [Requests -> RefreshEntry \cup {Absent}]
              /\ Spent(e) \in RefreshEntry
  BY StoresAssumption DEF Fetch, AfterGet, AfterConsume, AfterSet, AfterDelete,
     AfterRevokeByGrant, KeysOfGrant, Spent, RefreshEntry

\* Every call of the access token store keeps it a store of its entries.
LEMMA AccessStoreTyped ==
  ASSUME access \in [Requests -> AccessEntry \cup {Absent}], NEW t \in Requests
  PROVE  /\ Fetch(access, t) \in AccessEntry \cup {Absent}
         /\ AfterGet(access, t) \in [Requests -> AccessEntry \cup {Absent}]
         /\ AfterDelete(access, t) \in [Requests -> AccessEntry \cup {Absent}]
         /\ \A g \in Grants : AfterRevokeByGrant(access, g) \in [Requests -> AccessEntry \cup {Absent}]
         /\ \A e \in AccessEntry :
              AfterSet(access, t, e) \in [Requests -> AccessEntry \cup {Absent}]
  BY StoresAssumption DEF Fetch, AfterGet, AfterSet, AfterDelete,
     AfterRevokeByGrant, KeysOfGrant, AccessEntry

\* The empty stores and the idle requests are typed.
LEMMA InitTyped == Init => Typed
  BY StoresAssumption DEF Init, StoresInit, Typed, TypeOK, StoresTypeOK, Control

\* A request moves on, and what it now knows fits where it now stands.
LEMMA RequestMoves ==
  ASSUME Typed, NEW r \in Requests, NEW label \in Running \cup Ended,
         NEW q \in Request,
         pc' = [pc EXCEPT ![r] = label], req' = [req EXCEPT ![r] = q],
         Knows(label, q), UNCHANGED granted
  PROVE  /\ pc' \in [Requests -> Running \cup Ended \cup {"idle"}]
         /\ req' \in [Requests -> Request \cup {Absent}]
         /\ granted' \in [Grants -> Grant \cup {Absent}]
         /\ \A s \in Requests : Control(s)'
<1>1. /\ pc' \in [Requests -> Running \cup Ended \cup {"idle"}]
      /\ req' \in [Requests -> Request \cup {Absent}]
      /\ granted' \in [Grants -> Grant \cup {Absent}]
  BY DEF Typed, TypeOK
<1>2. q # Absent /\ label # "idle"
  BY EndpointAssumption DEF Running, Ended
<1>3. \A s \in Requests : Control(s)'
  <2> TAKE s \in Requests
  <2>1. CASE s = r
    <3>1. pc'[s] = label /\ req'[s] = q
      BY <2>1 DEF Typed, TypeOK
    <3> QED BY <3>1, <1>2 DEF Control
  <2>2. CASE s # r
    <3>1. pc'[s] = pc[s] /\ req'[s] = req[s]
      BY <2>2 DEF Typed, TypeOK
    <3>2. Control(s)
      BY DEF Typed
    <3> QED BY <3>1, <3>2 DEF Control
  <2> QED BY <2>1, <2>2
<1> QED BY <1>1, <1>3

\* Changing one field of a request keeps it a request.
LEMMA RequestUpdates ==
  ASSUME NEW q \in Request
  PROVE  /\ \A e \in CodeEntry \cup RefreshEntry \cup {Absent} :
              [q EXCEPT !.entry = e] \in Request
         /\ \A g \in Grants : [q EXCEPT !.grant = g] \in Request
         /\ \A d \in SUBSET Requests : [q EXCEPT !.doomed = d] \in Request
         /\ \A s \in SUBSET Scopes : [q EXCEPT !.scope = s] \in Request
         /\ \A t \in Requests, i \in Nat :
              [q EXCEPT !.minted = t, !.madeAt = i] \in Request
         /\ \A i \in Nat, o \in Nat \cup {Absent} :
              [q EXCEPT !.issuedAt = i, !.originalIssuedAt = o] \in Request
         /\ \A g \in Grants, e \in RefreshEntry, s \in SUBSET Scopes, o \in Nat :
              [q EXCEPT !.grant = g, !.entry = e, !.scope = s,
                        !.originalIssuedAt = o] \in Request
<1>1. \A e \in CodeEntry \cup RefreshEntry \cup {Absent} :
        [q EXCEPT !.entry = e] \in Request
  BY DEF Request
<1>2. \A g \in Grants : [q EXCEPT !.grant = g] \in Request
  BY DEF Request
<1>3. \A d \in SUBSET Requests : [q EXCEPT !.doomed = d] \in Request
  BY DEF Request
<1>4. \A s \in SUBSET Scopes : [q EXCEPT !.scope = s] \in Request
  BY DEF Request
<1>5. \A i \in Nat, o \in Nat \cup {Absent} :
        [q EXCEPT !.issuedAt = i, !.originalIssuedAt = o] \in Request
  BY DEF Request
<1>6. \A g \in Grants, e \in RefreshEntry, s \in SUBSET Scopes, o \in Nat :
        [q EXCEPT !.grant = g, !.entry = e, !.scope = s, !.originalIssuedAt = o] \in Request
  BY DEF Request
<1>7. \A t \in Requests, i \in Nat : [q EXCEPT !.minted = t, !.madeAt = i] \in Request
  BY DEF Request
<1> QED BY <1>1, <1>2, <1>3, <1>4, <1>5, <1>6, <1>7

\* The name an access token may get is the name of a request.
LEMMA NamesAreRequests ==
  ASSUME Typed, NEW r \in Requests, NEW t \in AccessNames(r)
  PROVE  t \in Requests
<1>1. \A q \in Twins(r) : req[q].minted \in Requests
  <2> SUFFICES ASSUME NEW q \in Twins(r) PROVE req[q].minted \in Requests
    OBVIOUS
  <2>1. q \in Requests /\ req[q] # Absent /\ req[q].minted # Absent
    BY DEF Twins
  <2>2. req[q] \in Request
    BY <2>1 DEF Typed, TypeOK
  <2> QED BY <2>1, <2>2 DEF Request
<1> QED BY <1>1 DEF AccessNames

\* Every step of the endpoints keeps types and control.
LEMMA NextTyped == Typed /\ [Next]_vars => Typed'
<1> SUFFICES ASSUME Typed, [Next]_vars PROVE Typed'
  OBVIOUS
<1> USE StoresAssumption
<1>t. /\ now \in Nat
      /\ codes \in [Grants -> CodeEntry \cup {Absent}]
      /\ access \in [Requests -> AccessEntry \cup {Absent}]
      /\ refresh \in [Requests -> RefreshEntry \cup {Absent}]
      /\ \A r \in Requests : pc[r] # "idle" => req[r] \in Request /\ Knows(pc[r], req[r])
  BY DEF Typed, TypeOK, StoresTypeOK, Control
<1>1. CASE UNCHANGED vars
  BY <1>1 DEF vars, Typed, TypeOK, StoresTypeOK, Control
<1>2. CASE Clock
  BY <1>2 DEF Clock, Tick, Typed, TypeOK, StoresTypeOK, Control
<1>3. ASSUME NEW g \in Grants, NEW client \in Clients, NEW scope \in SUBSET Scopes,
             IssueCode(g, client, scope)
      PROVE  Typed'
  <2> DEFINE e == [client |-> client, scope |-> scope, expiresAt |-> now + CodeLifetime]
             c == [client |-> client, scope |-> scope, expiresAt |-> now + CodeLifetime,
                   used |-> FALSE]
  <2>1. e \in Grant /\ c \in CodeEntry
    BY <1>t DEF Grant, CodeEntry
  <2>2. codes' = AfterSet(codes, g, c) /\ granted' = [granted EXCEPT ![g] = e]
    BY <1>3 DEF IssueCode
  <2> HIDE DEF e, c
  <2>3. codes' \in [Grants -> CodeEntry \cup {Absent}]
    BY <1>t, <2>1, <2>2, CodeStoreTyped
  <2>4. granted' \in [Grants -> Grant \cup {Absent}]
    BY <2>1, <2>2 DEF Typed, TypeOK
  <2> QED BY <1>3, <2>3, <2>4 DEF IssueCode, Typed, TypeOK, StoresTypeOK, Control
<1>4. ASSUME NEW r \in Requests, NEW kind \in Kinds, NEW client \in Clients,
             NEW grant \in Grants \cup {Absent}, NEW token \in Requests \cup {Absent},
             NEW proven \in BOOLEAN, NEW asks \in BOOLEAN, NEW scope \in SUBSET Scopes,
             kind = "code" => grant \in Grants, kind # "code" => token \in Requests,
             Start(r, kind, client, grant, token, proven, asks, scope)
      PROVE  Typed'
  <2> DEFINE q == [kind |-> kind, client |-> client, grant |-> grant, token |-> token,
                   proven |-> proven, asks |-> asks, scope |-> scope, entry |-> Absent,
                   doomed |-> {}, minted |-> Absent, madeAt |-> Absent,
                   issuedAt |-> Absent, originalIssuedAt |-> Absent]
  <2>1. q \in Request
    BY DEF Request
  <2>2. Knows("find", q) /\ "find" \in Running \cup Ended
    BY <1>4 DEF Knows, Cascading, Running
  <2>3. pc' = [pc EXCEPT ![r] = "find"] /\ req' = [req EXCEPT ![r] = q] /\ UNCHANGED granted
    BY <1>4 DEF Start, Goto
  <2>4. StoresTypeOK'
    BY <1>4, <1>t DEF Start, StoresTypeOK
  <2> HIDE DEF q
  <2> QED BY <2>1, <2>2, <2>3, <2>4, RequestMoves DEF Typed, TypeOK
<1>5. ASSUME NEW r \in Requests, Arrive(r) PROVE Typed'
  <2>1. ASSUME NEW g \in Grants, NEW client \in Clients, NEW proven \in BOOLEAN,
               StartCode(r, g, client, proven)
        PROVE  Typed'
    <3>1. Start(r, "code", client, g, Absent, proven, FALSE, {})
      BY <2>1 DEF StartCode
    <3>2. "code" \in Kinds /\ {} \in SUBSET Scopes /\ FALSE \in BOOLEAN
      BY DEF Kinds
    <3> QED BY <1>4, <3>1, <3>2
  <2>2. ASSUME NEW t \in Requests, NEW client \in Clients, NEW asks \in BOOLEAN,
               NEW scope \in SUBSET Scopes, StartRefresh(r, t, client, asks, scope)
        PROVE  Typed'
    BY <1>4, <2>2 DEF StartRefresh, Kinds
  <2>3. ASSUME NEW t \in Requests, NEW client \in Clients,
               StartRevokeAccess(r, t, client) \/ StartRevokeRefresh(r, t, client)
        PROVE  Typed'
    <3>1. PICK kind \in {"revokeAccess", "revokeRefresh"}, token \in {t, req[t].minted} :
            Start(r, kind, client, Absent, token, TRUE, FALSE, {})
      BY <2>3 DEF StartRevokeAccess, StartRevokeRefresh
    <3>3. token \in Requests
      BY <2>3, <1>t DEF StartRevokeAccess, StartRevokeRefresh, Minted, Knows
    <3>2. kind \in Kinds /\ kind # "code" /\ {} \in SUBSET Scopes
      BY DEF Kinds
    <3> QED BY <1>4, <3>1, <3>2, <3>3
  <2>4. {} \in SUBSET Scopes /\ TRUE \in BOOLEAN /\ FALSE \in BOOLEAN
    OBVIOUS
  <2> QED BY <1>5, <2>1, <2>2, <2>3, <2>4 DEF Arrive
<1>6. ASSUME NEW r \in Requests, CodeNotFound(r) PROVE Typed'
  BY <1>6, <1>t, CodeStoreTyped
  DEF CodeNotFound, Goto, End, At, Running, Ended, Cascading, ReadCode, FindCode,
      Typed, TypeOK, StoresTypeOK, Control, Knows
<1>7. ASSUME NEW r \in Requests, CodeReplayed(r) PROVE Typed'
  BY <1>7, <1>t, CodeStoreTyped
  DEF CodeReplayed, Goto, End, At, Running, Ended, Cascading, ReadCode, FindCode,
      Typed, TypeOK, StoresTypeOK, Control, Knows
<1>8. ASSUME NEW r \in Requests, CodeRejected(r) PROVE Typed'
  BY <1>8, <1>t, CodeStoreTyped
  DEF CodeRejected, Goto, End, At, Running, Ended, Cascading, ReadCode, FindCode,
      Typed, TypeOK, StoresTypeOK, Control, Knows
<1>9. ASSUME NEW r \in Requests, CodeAccepted(r) PROVE Typed'
  <2>a. /\ req[r] \in Request /\ req[r].kind = "code" /\ req[r].grant \in Grants
        /\ FindCode(r) \in CodeEntry
    BY <1>9, <1>t, CodeStoreTyped DEF CodeAccepted, FindCode, At, Knows
  <2> DEFINE q == [req[r] EXCEPT !.scope = FindCode(r).scope]
             label == "consume"
  <2>1. q \in Request
    BY <2>a, RequestUpdates DEF CodeEntry
  <2>2. Knows(label, q) /\ label \in Running \cup Ended
    BY <2>a DEF Knows, Request, Cascading, Running
  <2>3. pc' = [pc EXCEPT ![r] = label] /\ req' = [req EXCEPT ![r] = q] /\ UNCHANGED granted
    BY <1>9 DEF CodeAccepted, ReadCode, Goto
  <2>4. StoresTypeOK'
    BY <1>9, <2>a, <1>t, CodeStoreTyped DEF CodeAccepted, ReadCode, StoresTypeOK
  <2> HIDE DEF q, label
  <2> QED BY <2>1, <2>2, <2>3, <2>4, RequestMoves DEF Typed, TypeOK
<1>10. ASSUME NEW r \in Requests, ConsumeCode(r) PROVE Typed'
  BY <1>10, <1>t, CodeStoreTyped
  DEF ConsumeCode, Goto, End, At, Running, Ended, Cascading,
      Typed, TypeOK, StoresTypeOK, Control, Knows
<1>11. ASSUME NEW r \in Requests, ConsumeCodeRead(r) PROVE Typed'
  <2>a. /\ req[r] \in Request /\ req[r].kind = "code" /\ req[r].grant \in Grants
        /\ FindCode(r) \in CodeEntry \cup {Absent}
    BY <1>11, <1>t, CodeStoreTyped DEF ConsumeCodeRead, FindCode, At, Knows
  <2> DEFINE q == [req[r] EXCEPT !.entry = FindCode(r)]
             label == IF FindCode(r) = Absent THEN "recheck" ELSE "markUsed"
  <2>1. q \in Request
    BY <2>a, RequestUpdates
  <2>2. Knows(label, q) /\ label \in Running \cup Ended
    BY <2>a DEF Knows, Request, Cascading, Running
  <2>3. pc' = [pc EXCEPT ![r] = label] /\ req' = [req EXCEPT ![r] = q] /\ UNCHANGED granted
    BY <1>11 DEF ConsumeCodeRead, ReadCode, Goto
  <2>4. StoresTypeOK'
    BY <1>11, <2>a, <1>t, CodeStoreTyped DEF ConsumeCodeRead, ReadCode, StoresTypeOK
  <2> HIDE DEF q, label
  <2> QED BY <2>1, <2>2, <2>3, <2>4, RequestMoves DEF Typed, TypeOK
<1>12. ASSUME NEW r \in Requests, ConsumeCodeWrite(r) PROVE Typed'
  BY <1>12, <1>t, CodeStoreTyped
  DEF ConsumeCodeWrite, Goto, End, At, Running, Ended, Cascading,
      Typed, TypeOK, StoresTypeOK, Control, Knows
<1>13. ASSUME NEW r \in Requests, Recheck(r) PROVE Typed'
  BY <1>13, <1>t, CodeStoreTyped
  DEF Recheck, Goto, End, At, Running, Ended, Cascading, ReadCode, FindCode,
      Typed, TypeOK, StoresTypeOK, Control, Knows
<1>14. ASSUME NEW r \in Requests, RefreshNotFound(r) PROVE Typed'
  BY <1>14, <1>t, RefreshStoreTyped
  DEF RefreshNotFound, Goto, End, At, Running, Ended, Cascading, ReadRefresh, FindRefresh,
      Typed, TypeOK, StoresTypeOK, Control, Knows
<1>15. ASSUME NEW r \in Requests, RefreshReplayed(r) PROVE Typed'
  <2>a. /\ req[r] \in Request /\ req[r].kind = "refresh" /\ req[r].token \in Requests
        /\ FindRefresh(r) \in RefreshEntry
    BY <1>15, <1>t, RefreshStoreTyped DEF RefreshReplayed, FindRefresh, At, Knows
  <2> DEFINE q == [req[r] EXCEPT !.grant = FindRefresh(r).grant]
             label == "cascadeAccess"
  <2>1. q \in Request
    BY <2>a, RequestUpdates DEF RefreshEntry
  <2>2. Knows(label, q) /\ label \in Running \cup Ended
    BY <2>a DEF Knows, Request, RefreshEntry, Cascading, Running
  <2>3. pc' = [pc EXCEPT ![r] = label] /\ req' = [req EXCEPT ![r] = q] /\ UNCHANGED granted
    BY <1>15 DEF RefreshReplayed, ReadRefresh, Goto
  <2>4. StoresTypeOK'
    BY <1>15, <2>a, <1>t, RefreshStoreTyped DEF RefreshReplayed, ReadRefresh, StoresTypeOK
  <2> HIDE DEF q, label
  <2> QED BY <2>1, <2>2, <2>3, <2>4, RequestMoves DEF Typed, TypeOK
<1>16. ASSUME NEW r \in Requests, RefreshRejected(r) PROVE Typed'
  BY <1>16, <1>t, RefreshStoreTyped
  DEF RefreshRejected, Goto, End, At, Running, Ended, Cascading, ReadRefresh, FindRefresh,
      Typed, TypeOK, StoresTypeOK, Control, Knows
<1>17. ASSUME NEW r \in Requests, RefreshAccepted(r) PROVE Typed'
  <2>a. /\ req[r] \in Request /\ req[r].kind = "refresh" /\ req[r].token \in Requests
        /\ FindRefresh(r) \in RefreshEntry
    BY <1>17, <1>t, RefreshStoreTyped DEF RefreshAccepted, FindRefresh, At, Knows
  <2>b. /\ req[r] \in Request /\ FindRefresh(r) \in RefreshEntry
        /\ FindRefresh(r).grant \in Grants /\ FindRefresh(r).originalIssuedAt \in Nat
        /\ (IF req[r].asks THEN req[r].scope ELSE FindRefresh(r).scope) \in SUBSET Scopes
    BY <2>a DEF RefreshEntry, Request
  <2> DEFINE q == [req[r] EXCEPT !.grant = FindRefresh(r).grant, !.entry = FindRefresh(r),
                     !.scope = IF req[r].asks THEN @ ELSE FindRefresh(r).scope,
                     !.originalIssuedAt = FindRefresh(r).originalIssuedAt]
             label == "sign"
  <2>1. q \in Request
    BY <2>b, RequestUpdates
  <2>2. Knows(label, q) /\ label \in Running \cup Ended
    BY <2>a DEF Knows, Request, RefreshEntry, Cascading, Running
  <2>3. pc' = [pc EXCEPT ![r] = label] /\ req' = [req EXCEPT ![r] = q] /\ UNCHANGED granted
    BY <1>17 DEF RefreshAccepted, ReadRefresh, Goto
  <2>4. StoresTypeOK'
    BY <1>17, <2>a, <1>t, RefreshStoreTyped DEF RefreshAccepted, ReadRefresh, StoresTypeOK
  <2> HIDE DEF q, label
  <2> QED BY <2>1, <2>2, <2>3, <2>4, RequestMoves DEF Typed, TypeOK
<1>18. ASSUME NEW r \in Requests, RetireRefresh(r) PROVE Typed'
  BY <1>18, <1>t, RefreshStoreTyped
  DEF RetireRefresh, Goto, End, At, Running, Ended, Cascading,
      Typed, TypeOK, StoresTypeOK, Control, Knows
<1>19. ASSUME NEW r \in Requests, RetireRefreshRead(r) PROVE Typed'
  <2>a. /\ req[r] \in Request /\ req[r].kind = "refresh" /\ req[r].token \in Requests
        /\ req[r].minted \in Requests /\ req[r].madeAt \in Nat
        /\ FindRefresh(r) \in RefreshEntry \cup {Absent}
    BY <1>19, <1>t, RefreshStoreTyped DEF RetireRefreshRead, FindRefresh, At, Knows
  <2> DEFINE q == [req[r] EXCEPT !.entry = FindRefresh(r)]
             label == IF FindRefresh(r) = Absent THEN "respond" ELSE "markRetired"
  <2>1. q \in Request
    BY <2>a, RequestUpdates
  <2>2. Knows(label, q) /\ label \in Running \cup Ended
    BY <2>a DEF Knows, Request, Cascading, Running
  <2>3. pc' = [pc EXCEPT ![r] = label] /\ req' = [req EXCEPT ![r] = q] /\ UNCHANGED granted
    BY <1>19 DEF RetireRefreshRead, ReadRefresh, Goto
  <2>4. StoresTypeOK'
    BY <1>19, <2>a, <1>t, RefreshStoreTyped DEF RetireRefreshRead, ReadRefresh, StoresTypeOK
  <2> HIDE DEF q, label
  <2> QED BY <2>1, <2>2, <2>3, <2>4, RequestMoves DEF Typed, TypeOK
<1>20. ASSUME NEW r \in Requests, RetireRefreshWrite(r) PROVE Typed'
  BY <1>20, <1>t, RefreshStoreTyped
  DEF RetireRefreshWrite, Goto, End, At, Running, Ended, Cascading,
      Typed, TypeOK, StoresTypeOK, Control, Knows
<1>21. ASSUME NEW r \in Requests, StoreAccess(r) PROVE Typed'
  <2>a. /\ req[r] \in Request /\ Knows("issue", req[r]) /\ now \in Nat
        /\ req[r].grant \in Grants /\ OriginalIssuedAt(r) \in Nat
    BY <1>21, <1>t DEF StoreAccess, OriginalIssuedAt, Knows
  <2>b. IssuedAccess(r) \in AccessEntry
    BY <2>a DEF IssuedAccess, AccessEntry, Request
  <2> DEFINE q == [req[r] EXCEPT !.issuedAt = now, !.originalIssuedAt = OriginalIssuedAt(r)]
             label == IF GrantHasOfflineAccess(r) THEN "storeRefresh" ELSE AfterIssuance(r)
  <2>1. q \in Request
    BY <2>a, RequestUpdates
  <2>2. Knows(label, q) /\ label \in Running \cup Ended
    BY <2>a DEF Knows, Request, Cascading, Running, AfterIssuance
  <2>3. pc' = [pc EXCEPT ![r] = label] /\ req' = [req EXCEPT ![r] = q] /\ UNCHANGED granted
    BY <1>21 DEF StoreAccess, Goto
  <2>4. StoresTypeOK'
    <3>1. req[r].minted \in Requests
      BY <2>a DEF Knows
    <3>2. AfterSet(access, req[r].minted, IssuedAccess(r)) \in [Requests -> AccessEntry \cup {Absent}]
      BY <1>t, <2>b, <3>1, AccessStoreTyped
    <3> QED BY <1>21, <1>t, <3>2 DEF StoreAccess, StoresTypeOK
  <2> HIDE DEF q, label
  <2> QED BY <2>1, <2>2, <2>3, <2>4, RequestMoves DEF Typed, TypeOK
<1>22. ASSUME NEW r \in Requests, StoreRefresh(r) PROVE Typed'
  <2>1. /\ req[r] \in Request /\ Knows("storeRefresh", req[r])
        /\ req[r].grant \in Grants /\ req[r].originalIssuedAt \in Nat
    BY <1>22, <1>t DEF StoreRefresh, Knows
  <2>2. IssuedRefresh(r) \in RefreshEntry
    BY <2>1 DEF IssuedRefresh, RefreshEntry, Request
  <2>3. refresh' \in [Requests -> RefreshEntry \cup {Absent}]
    BY <1>22, <1>t, <2>2, RefreshStoreTyped DEF StoreRefresh
  <2> QED BY <1>22, <2>1, <2>3
    DEF StoreRefresh, AfterIssuance, Goto, Running, Ended, Cascading,
        Typed, TypeOK, StoresTypeOK, Control, Knows
<1>23. ASSUME NEW r \in Requests, Respond(r) PROVE Typed'
  <2>1. req[r] \in Request /\ Knows("respond", req[r])
    BY <1>23, <1>t DEF Respond
  <2>2. Knows("done", req[r]) /\ "done" \in Running \cup Ended
    BY <2>1 DEF Knows, Cascading, Ended
  <2>3. pc' = [pc EXCEPT ![r] = "done"] /\ req' = [req EXCEPT ![r] = req[r]] /\ UNCHANGED granted
    BY <1>23 DEF Respond, End, Goto, Typed, TypeOK
  <2>4. StoresTypeOK'
    BY <1>23, <1>t DEF Respond, StoresTypeOK
  <2> QED BY <2>1, <2>2, <2>3, <2>4, RequestMoves DEF Typed, TypeOK
<1>24. ASSUME NEW r \in Requests, CascadeAccess(r) PROVE Typed'
  BY <1>24, <1>t, AccessStoreTyped
  DEF CascadeAccess, Goto, End, At, Running, Ended, Cascading, AfterAccessCascade,
      Typed, TypeOK, StoresTypeOK, Control, Knows
<1>25. ASSUME NEW r \in Requests, ListAccess(r) PROVE Typed'
  <2>a. /\ req[r] \in Request /\ Knows(pc[r], req[r]) /\ pc[r] \in Cascading
        /\ ListedOfGrant(access, req[r].grant) \in SUBSET Requests
    BY <1>25, <1>t DEF ListAccess, ListedOfGrant, KeysOfGrant, Cascading
  <2> DEFINE q == [req[r] EXCEPT !.doomed = ListedOfGrant(access, req[r].grant)]
             label == "deleteAccess"
  <2>1. q \in Request
    BY <2>a, RequestUpdates
  <2>2. Knows(label, q) /\ label \in Running \cup Ended
    BY <2>a DEF Knows, Request, Cascading, Running
  <2>3. pc' = [pc EXCEPT ![r] = label] /\ req' = [req EXCEPT ![r] = q] /\ UNCHANGED granted
    BY <1>25 DEF ListAccess, Goto
  <2>4. StoresTypeOK'
    BY <1>25, <1>t DEF ListAccess, StoresTypeOK
  <2> HIDE DEF q, label
  <2> QED BY <2>1, <2>2, <2>3, <2>4, RequestMoves DEF Typed, TypeOK
<1>26. ASSUME NEW r \in Requests, NEW t \in Requests, DeleteListedAccess(r, t) PROVE Typed'
  <2> DEFINE q == [req[r] EXCEPT !.doomed = @ \ {t}]
  <2>a. req[r] \in Request /\ Knows("deleteAccess", req[r])
    BY <1>26, <1>t DEF DeleteListedAccess
  <2>1. q \in Request
    BY <2>a DEF Request
  <2>2. Knows("deleteAccess", q) /\ "deleteAccess" \in Running \cup Ended
    BY <2>a DEF Knows, Request, Cascading, Running
  <2>3. pc' = [pc EXCEPT ![r] = "deleteAccess"] /\ req' = [req EXCEPT ![r] = q] /\ UNCHANGED granted
    BY <1>26 DEF DeleteListedAccess, Typed, TypeOK
  <2>4. StoresTypeOK'
    BY <1>26, <1>t, AccessStoreTyped DEF DeleteListedAccess, StoresTypeOK
  <2> HIDE DEF q
  <2> QED BY <2>1, <2>2, <2>3, <2>4, RequestMoves DEF Typed, TypeOK
<1>27. ASSUME NEW r \in Requests, AccessDeleted(r) PROVE Typed'
  BY <1>27, <1>t
  DEF AccessDeleted, Goto, End, At, Running, Ended, Cascading, AfterAccessCascade,
      Typed, TypeOK, StoresTypeOK, Control, Knows
<1>28. ASSUME NEW r \in Requests, CascadeRefresh(r) PROVE Typed'
  BY <1>28, <1>t, RefreshStoreTyped
  DEF CascadeRefresh, Goto, End, At, Running, Ended, Cascading,
      Typed, TypeOK, StoresTypeOK, Control, Knows
<1>29. ASSUME NEW r \in Requests, ListRefresh(r) PROVE Typed'
  <2>a. /\ req[r] \in Request /\ Knows(pc[r], req[r]) /\ pc[r] \in Cascading
        /\ ListedOfGrant(refresh, req[r].grant) \in SUBSET Requests
    BY <1>29, <1>t DEF ListRefresh, ListedOfGrant, KeysOfGrant, Cascading
  <2> DEFINE q == [req[r] EXCEPT !.doomed = ListedOfGrant(refresh, req[r].grant)]
             label == "deleteRefresh"
  <2>1. q \in Request
    BY <2>a, RequestUpdates
  <2>2. Knows(label, q) /\ label \in Running \cup Ended
    BY <2>a DEF Knows, Request, Cascading, Running
  <2>3. pc' = [pc EXCEPT ![r] = label] /\ req' = [req EXCEPT ![r] = q] /\ UNCHANGED granted
    BY <1>29 DEF ListRefresh, Goto
  <2>4. StoresTypeOK'
    BY <1>29, <1>t DEF ListRefresh, StoresTypeOK
  <2> HIDE DEF q, label
  <2> QED BY <2>1, <2>2, <2>3, <2>4, RequestMoves DEF Typed, TypeOK
<1>30. ASSUME NEW r \in Requests, NEW t \in Requests, DeleteListedRefresh(r, t) PROVE Typed'
  <2> DEFINE q == [req[r] EXCEPT !.doomed = @ \ {t}]
  <2>a. req[r] \in Request /\ Knows("deleteRefresh", req[r])
    BY <1>30, <1>t DEF DeleteListedRefresh
  <2>1. q \in Request
    BY <2>a DEF Request
  <2>2. Knows("deleteRefresh", q) /\ "deleteRefresh" \in Running \cup Ended
    BY <2>a DEF Knows, Request, Cascading, Running
  <2>3. pc' = [pc EXCEPT ![r] = "deleteRefresh"] /\ req' = [req EXCEPT ![r] = q] /\ UNCHANGED granted
    BY <1>30 DEF DeleteListedRefresh, Typed, TypeOK
  <2>4. StoresTypeOK'
    BY <1>30, <1>t, RefreshStoreTyped DEF DeleteListedRefresh, StoresTypeOK
  <2> HIDE DEF q
  <2> QED BY <2>1, <2>2, <2>3, <2>4, RequestMoves DEF Typed, TypeOK
<1>31. ASSUME NEW r \in Requests, RefreshDeleted(r) PROVE Typed'
  BY <1>31, <1>t
  DEF RefreshDeleted, Goto, End, At, Running, Ended, Cascading,
      Typed, TypeOK, StoresTypeOK, Control, Knows
<1>32. ASSUME NEW r \in Requests, RevokeAccessFind(r) PROVE Typed'
  BY <1>32, <1>t, AccessStoreTyped
  DEF RevokeAccessFind, Goto, End, At, Running, Ended, Cascading, FindAccess, Verdict,
      Typed, TypeOK, StoresTypeOK, Control, Knows
<1>33. ASSUME NEW r \in Requests, RevokeAccess(r) PROVE Typed'
  BY <1>33, <1>t, AccessStoreTyped
  DEF RevokeAccess, Goto, End, At, Running, Ended, Cascading,
      Typed, TypeOK, StoresTypeOK, Control, Knows
<1>34. ASSUME NEW r \in Requests, RevokeRefreshFind(r) PROVE Typed'
  <2>a. /\ req[r] \in Request /\ req[r].kind = "revokeRefresh" /\ req[r].token \in Requests
        /\ FindRefresh(r) \in RefreshEntry \cup {Absent}
    BY <1>34, <1>t, RefreshStoreTyped DEF RevokeRefreshFind, FindRefresh, At, Knows
  <2> DEFINE q == [req[r] EXCEPT !.grant =
                     IF Verdict(r, FindRefresh(r)) = "delete" THEN FindRefresh(r).grant ELSE @]
             label == Verdict(r, FindRefresh(r))
  <2>1. q \in Request
    <3>1. CASE Verdict(r, FindRefresh(r)) = "delete"
      BY <3>1, <2>a, RequestUpdates DEF Verdict, RefreshEntry
    <3>2. CASE Verdict(r, FindRefresh(r)) # "delete"
      BY <3>2, <2>a DEF Request
    <3> QED BY <3>1, <3>2
  <2>2. Knows(label, q) /\ label \in Running \cup Ended
    BY <2>a DEF Knows, Request, RefreshEntry, Cascading, Running, Ended, Verdict
  <2>3. pc' = [pc EXCEPT ![r] = label] /\ req' = [req EXCEPT ![r] = q] /\ UNCHANGED granted
    BY <1>34 DEF RevokeRefreshFind, ReadRefresh, Goto
  <2>4. StoresTypeOK'
    BY <1>34, <2>a, <1>t, RefreshStoreTyped DEF RevokeRefreshFind, ReadRefresh, StoresTypeOK
  <2> HIDE DEF q, label
  <2> QED BY <2>1, <2>2, <2>3, <2>4, RequestMoves DEF Typed, TypeOK
<1>35. ASSUME NEW r \in Requests, RevokeRefresh(r) PROVE Typed'
  BY <1>35, <1>t, RefreshStoreTyped
  DEF RevokeRefresh, Goto, End, At, Running, Ended, Cascading,
      Typed, TypeOK, StoresTypeOK, Control, Knows
<1>36. ASSUME NEW r \in Requests, SigningFails(r) PROVE Typed'
  BY <1>36, <1>t
  DEF SigningFails, Goto, End, At, Running, Ended, Cascading,
      Typed, TypeOK, StoresTypeOK, Control, Knows
<1>37. ASSUME NEW r \in Requests, StoreFails(r) PROVE Typed'
  BY <1>37, <1>t
  DEF StoreFails, Goto, End, At, Running, Ended, Cascading,
      Typed, TypeOK, StoresTypeOK, Control, Knows
<1>38. ASSUME NEW r \in Requests, ResponseLost(r) PROVE Typed'
  BY <1>38, <1>t
  DEF ResponseLost, Goto, End, At, Running, Ended, Cascading,
      Typed, TypeOK, StoresTypeOK, Control, Knows
<1>39. ASSUME NEW r \in Requests, Generate(r) PROVE Typed'
  <2>1. PICK t \in AccessNames(r) : req' = [req EXCEPT ![r].minted = t, ![r].madeAt = now]
    BY <1>39 DEF Generate
  <2>2. /\ t \in Requests /\ now \in Nat
        /\ req[r] \in Request /\ Knows("sign", req[r])
    BY <1>39, <1>t, NamesAreRequests DEF Generate
  <2> DEFINE q == [req[r] EXCEPT !.minted = t, !.madeAt = now]
  <2>3. q \in Request
    BY <2>2, RequestUpdates
  <2>4. Knows("issue", q) /\ "issue" \in Running \cup Ended
    BY <2>2 DEF Knows, Request, Cascading, Running
  <2>5. pc' = [pc EXCEPT ![r] = "issue"] /\ req' = [req EXCEPT ![r] = q] /\ UNCHANGED granted
    BY <1>39, <2>1 DEF Generate, Goto
  <2>6. StoresTypeOK'
    BY <1>39, <1>t DEF Generate, StoresTypeOK
  <2> HIDE DEF q
  <2> QED BY <2>3, <2>4, <2>5, <2>6, RequestMoves DEF Typed, TypeOK
<1> QED
  BY <1>1, <1>2, <1>3, <1>5, <1>6, <1>7, <1>8, <1>9, <1>10, <1>11, <1>12, <1>13, <1>14, <1>15, <1>16, <1>17, <1>18, <1>19, <1>20, <1>21, <1>22, <1>23, <1>24, <1>25, <1>26, <1>27, <1>28, <1>29, <1>30, <1>31, <1>32, <1>33, <1>34, <1>35, <1>36, <1>37, <1>38, <1>39
  DEF Next, Serve, Fail, RedeemStep, RotateStep, IssueStep, CascadeStep, RevokeStep

\* The stores, the requests and the history keep their types: a request never
\* stores an entry made from one it has not read.
THEOREM TypeCorrect == Spec => []TypeOK
<1>1. Typed => TypeOK
  BY DEF Typed
<1> QED BY <1>1, InitTyped, NextTyped, PTL DEF Spec

-----------------------------------------------------------------------------
(* The inductive invariant behind the safety properties.                   *)

\* Some redemption of the grant's code stored its access token at that time.
Rooted(g, time) ==
  \E root \in Requests :
    /\ HasIssued(root) /\ req[root].kind = "code"
    /\ req[root].grant = g /\ req[root].issuedAt = time

Inherits(g, client, scope) ==
  /\ granted[g] # Absent
  /\ client = granted[g].client
  /\ scope \subseteq granted[g].scope

\* A code entry says what its grant says.
Matches(g, entry) ==
  /\ granted[g] # Absent
  /\ entry.client = granted[g].client
  /\ entry.scope = granted[g].scope
  /\ entry.expiresAt = granted[g].expiresAt

CodeSafe(g) ==
  /\ codes[g] # Absent => Matches(g, codes[g])
  /\ codes[g] = Absent /\ granted[g] # Absent => granted[g].expiresAt <= now

AccessSafe(entry) == Within(entry) /\ Closed(entry.grant)

RefreshSafe(entry) ==
  /\ Within(entry) /\ Closed(entry.grant)
  /\ OfflineAccess \in entry.scope
  /\ Rooted(entry.grant, entry.originalIssuedAt)
  /\ entry.expiresAt = entry.originalIssuedAt + RefreshLifetime

RequestSafe(label, q) ==
  /\ q.kind = "code" => granted[q.grant] # Absent
  /\ q.kind = "code" /\ label \in {"consume", "markUsed", "recheck"} =>
       Inherits(q.grant, q.client, q.scope)
  /\ label = "markUsed" => Matches(q.grant, q.entry)
  /\ q.kind = "code" /\ label = "recheck" => Closed(q.grant)
  /\ label \in {"sign", "issue", "storeRefresh"} =>
       Inherits(q.grant, q.client, q.scope) /\ Closed(q.grant)
  /\ label \in {"sign", "issue"} /\ q.kind = "refresh" =>
       /\ q.entry.scope \subseteq granted[q.grant].scope
       /\ Rooted(q.grant, q.originalIssuedAt)
  /\ label = "storeRefresh" =>
       /\ OfflineAccess \in granted[q.grant].scope
       /\ Rooted(q.grant, q.originalIssuedAt)
  /\ label = "markRetired" => RefreshSafe(q.entry)
  /\ label \in {"find", "consume", "markUsed", "recheck", "sign", "issue"} =>
       q.issuedAt = Absent

\* Entries and requests are named by bound variables, which a prime leaves alone.
Safe ==
  /\ \A g \in Grants : CodeSafe(g)
  /\ \A t \in Requests, e \in AccessEntry : access[t] = e => AccessSafe(e)
  /\ \A t \in Requests, e \in RefreshEntry : refresh[t] = e => RefreshSafe(e)
  /\ \A r \in Requests, label \in Running \cup Ended, q \in Request :
       pc[r] = label /\ req[r] = q => RequestSafe(label, q)

-----------------------------------------------------------------------------
(* What no step takes back.                                                *)

\* No request to the token endpoint records a grant.
LEMMA RequestsGrantNothing ==
  ASSUME NEW r \in Requests, Arrive(r) \/ Serve(r) \/ Fail(r)
  PROVE  UNCHANGED granted
BY DEF Arrive, StartCode, StartRefresh, StartRevokeAccess, StartRevokeRefresh, Start,
    Serve, RedeemStep, CodeNotFound, CodeReplayed, CodeRejected, CodeAccepted, ReadCode,
    ConsumeCode, ConsumeCodeRead, ConsumeCodeWrite, Recheck,
    RotateStep, RefreshNotFound, RefreshReplayed, RefreshRejected, RefreshAccepted,
    ReadRefresh, RetireRefresh, RetireRefreshRead, RetireRefreshWrite,
    IssueStep, Generate, StoreAccess, StoreRefresh, Respond,
    CascadeStep, CascadeAccess, ListAccess, DeleteListedAccess, AccessDeleted,
    CascadeRefresh, ListRefresh, DeleteListedRefresh, RefreshDeleted,
    RevokeStep, RevokeAccessFind, RevokeAccess, RevokeRefreshFind, RevokeRefresh,
    Fail, SigningFails, StoreFails, ResponseLost

\* A grant is recorded once, and a redemption that stored its access token is
\* remembered as it was.
LEMMA HistoryKept ==
  ASSUME Typed, Safe, [Next]_vars
  PROVE  /\ \A g \in Grants : granted[g] # Absent => granted'[g] = granted[g]
         /\ \A g \in Grants, time \in Nat : Rooted(g, time) => Rooted(g, time)'
<1> DEFINE Kept(root) ==
      HasIssued(root) /\ req[root].kind = "code" =>
        /\ HasIssued(root)'
        /\ req'[root].kind = "code"
        /\ req'[root].grant = req[root].grant
        /\ req'[root].issuedAt = req[root].issuedAt
<1>t. /\ req \in [Requests -> Request \cup {Absent}]
      /\ pc \in [Requests -> Running \cup Ended \cup {"idle"}]
      /\ \A r \in Requests : pc[r] = "idle" <=> req[r] = Absent
      /\ \A r \in Requests :
           pc[r] \in {"find", "consume", "markUsed", "recheck", "sign", "issue"} =>
             req[r].issuedAt = Absent
  BY DEF Typed, TypeOK, Control, Safe, RequestSafe
<1>1. \A g \in Grants : granted[g] # Absent => granted'[g] = granted[g]
  <2>1. CASE \E g \in Grants, client \in Clients, scope \in SUBSET Scopes :
               IssueCode(g, client, scope)
    BY <2>1 DEF IssueCode, Typed, TypeOK
  <2>2. CASE UNCHANGED granted
    BY <2>2
  <2> QED BY <2>1, <2>2, RequestsGrantNothing DEF Next, Clock, vars
<1>2. ASSUME NEW root \in Requests PROVE Kept(root)
  <2>1. CASE UNCHANGED req
    BY <2>1 DEF HasIssued
  <2>2. ASSUME NEW r \in Requests, NEW q, req' = [req EXCEPT ![r] = q],
               HasIssued(r) /\ req[r].kind = "code" =>
                 /\ q # Absent /\ q.kind = "code"
                 /\ q.grant = req[r].grant /\ q.issuedAt = req[r].issuedAt
        PROVE  Kept(root)
    <3>1. CASE root = r
      BY <3>1, <2>2, <1>t DEF HasIssued
    <3>2. CASE root # r
      BY <3>2, <2>2, <1>t DEF HasIssued
    <3> QED BY <3>1, <3>2
  <2>3. ASSUME NEW r \in Requests, NEW kind, NEW client, NEW grant, NEW token,
             NEW proven, NEW asks, NEW scope,
             Start(r, kind, client, grant, token, proven, asks, scope) PROVE Kept(root)
    <3> DEFINE q == req'[r]
    <3>1. req' = [req EXCEPT ![r] = q]
      BY <2>3 DEF Start, Typed, TypeOK
    <3>2. HasIssued(r) /\ req[r].kind = "code" =>
            /\ q # Absent /\ q.kind = "code"
            /\ q.grant = req[r].grant /\ q.issuedAt = req[r].issuedAt
      BY <2>3, <1>t DEF Start, HasIssued
    <3> HIDE DEF q
    <3> QED BY <2>2, <3>1, <3>2
  <2>4. ASSUME NEW r \in Requests, CodeAccepted(r) PROVE Kept(root)
    <3> DEFINE q == [req[r] EXCEPT !.scope = FindCode(r).scope]
    <3>1. req' = [req EXCEPT ![r] = q]
      BY <2>4 DEF CodeAccepted
    <3>2. HasIssued(r) /\ req[r].kind = "code" =>
            /\ q # Absent /\ q.kind = "code"
            /\ q.grant = req[r].grant /\ q.issuedAt = req[r].issuedAt
      BY <2>4, <1>t DEF CodeAccepted, At, HasIssued
    <3> HIDE DEF q
    <3> QED BY <2>2, <3>1, <3>2
  <2>5. ASSUME NEW r \in Requests, ConsumeCodeRead(r) PROVE Kept(root)
    <3> DEFINE q == [req[r] EXCEPT !.entry = FindCode(r)]
    <3>1. req' = [req EXCEPT ![r] = q]
      BY <2>5 DEF ConsumeCodeRead
    <3>2. HasIssued(r) /\ req[r].kind = "code" =>
            /\ q # Absent /\ q.kind = "code"
            /\ q.grant = req[r].grant /\ q.issuedAt = req[r].issuedAt
      BY <2>5, <1>t DEF ConsumeCodeRead, At, HasIssued
    <3> HIDE DEF q
    <3> QED BY <2>2, <3>1, <3>2
  <2>6. ASSUME NEW r \in Requests, RefreshReplayed(r) PROVE Kept(root)
    <3> DEFINE q == [req[r] EXCEPT !.grant = FindRefresh(r).grant]
    <3>1. req' = [req EXCEPT ![r] = q]
      BY <2>6 DEF RefreshReplayed
    <3>2. HasIssued(r) /\ req[r].kind = "code" =>
            /\ q # Absent /\ q.kind = "code"
            /\ q.grant = req[r].grant /\ q.issuedAt = req[r].issuedAt
      BY <2>6, <1>t DEF RefreshReplayed, At
    <3> HIDE DEF q
    <3> QED BY <2>2, <3>1, <3>2
  <2>7. ASSUME NEW r \in Requests, RefreshAccepted(r) PROVE Kept(root)
    <3> DEFINE q == req'[r]
    <3>1. req' = [req EXCEPT ![r] = q]
      BY <2>7 DEF RefreshAccepted, Typed, TypeOK
    <3>2. HasIssued(r) /\ req[r].kind = "code" =>
            /\ q # Absent /\ q.kind = "code"
            /\ q.grant = req[r].grant /\ q.issuedAt = req[r].issuedAt
      BY <2>7, <1>t DEF RefreshAccepted, At
    <3> HIDE DEF q
    <3> QED BY <2>2, <3>1, <3>2
  <2>8. ASSUME NEW r \in Requests, RetireRefreshRead(r) PROVE Kept(root)
    <3> DEFINE q == [req[r] EXCEPT !.entry = FindRefresh(r)]
    <3>1. req' = [req EXCEPT ![r] = q]
      BY <2>8 DEF RetireRefreshRead
    <3>2. HasIssued(r) /\ req[r].kind = "code" =>
            /\ q # Absent /\ q.kind = "code"
            /\ q.grant = req[r].grant /\ q.issuedAt = req[r].issuedAt
      BY <2>8, <1>t DEF RetireRefreshRead, At
    <3> HIDE DEF q
    <3> QED BY <2>2, <3>1, <3>2
  <2>9. ASSUME NEW r \in Requests, StoreAccess(r) PROVE Kept(root)
    <3> DEFINE q == req'[r]
    <3>1. req' = [req EXCEPT ![r] = q]
      BY <2>9 DEF StoreAccess, Typed, TypeOK
    <3>2. HasIssued(r) /\ req[r].kind = "code" =>
            /\ q # Absent /\ q.kind = "code"
            /\ q.grant = req[r].grant /\ q.issuedAt = req[r].issuedAt
      BY <2>9, <1>t DEF StoreAccess, HasIssued
    <3> HIDE DEF q
    <3> QED BY <2>2, <3>1, <3>2
  <2>10. ASSUME NEW r \in Requests, ListAccess(r) \/ ListRefresh(r) PROVE Kept(root)
    <3>1. PICK d \in SUBSET Requests : req' = [req EXCEPT ![r].doomed = d]
      BY <2>10 DEF ListAccess, ListRefresh, ListedOfGrant, KeysOfGrant,
                   Typed, TypeOK, StoresTypeOK
    <3> DEFINE q == [req[r] EXCEPT !.doomed = d]
    <3>2. req' = [req EXCEPT ![r] = q]
      BY <3>1
    <3>3. HasIssued(r) /\ req[r].kind = "code" =>
            /\ q # Absent /\ q.kind = "code"
            /\ q.grant = req[r].grant /\ q.issuedAt = req[r].issuedAt
      <4> SUFFICES ASSUME HasIssued(r), req[r].kind = "code"
                   PROVE  q # Absent /\ q.kind = "code" /\ q.grant = req[r].grant
                            /\ q.issuedAt = req[r].issuedAt
        OBVIOUS
      <4>1. req[r] \in Request
        BY <1>t DEF HasIssued
      <4>2. q \in Request
        BY <4>1, <3>1, RequestUpdates
      <4> QED BY <4>1, <4>2, EndpointAssumption DEF Request
    <3> HIDE DEF q
    <3> QED BY <2>2, <3>2, <3>3
  <2>11. ASSUME NEW r \in Requests, NEW t, DeleteListedAccess(r, t) \/ DeleteListedRefresh(r, t) PROVE Kept(root)
    <3>0. req[r] \in Request
      BY <1>t, <2>11 DEF DeleteListedAccess, DeleteListedRefresh
    <3>1. PICK d \in SUBSET Requests : req' = [req EXCEPT ![r].doomed = d]
      <4>1. req[r].doomed \in SUBSET Requests
        BY <3>0 DEF Request
      <4>2. req' = [req EXCEPT ![r].doomed = req[r].doomed \ {t}]
        BY <2>11 DEF DeleteListedAccess, DeleteListedRefresh
      <4> QED BY <4>1, <4>2
    <3> DEFINE q == [req[r] EXCEPT !.doomed = d]
    <3>2. req' = [req EXCEPT ![r] = q]
      BY <3>1
    <3>3. HasIssued(r) /\ req[r].kind = "code" =>
            /\ q # Absent /\ q.kind = "code"
            /\ q.grant = req[r].grant /\ q.issuedAt = req[r].issuedAt
      <4> SUFFICES ASSUME HasIssued(r), req[r].kind = "code"
                   PROVE  q # Absent /\ q.kind = "code" /\ q.grant = req[r].grant
                            /\ q.issuedAt = req[r].issuedAt
        OBVIOUS
      <4>1. req[r] \in Request
        BY <1>t DEF HasIssued
      <4>2. q \in Request
        BY <4>1, <3>1, RequestUpdates
      <4> QED BY <4>1, <4>2, EndpointAssumption DEF Request
    <3> HIDE DEF q
    <3> QED BY <2>2, <3>2, <3>3
  <2>12. ASSUME NEW r \in Requests, RevokeRefreshFind(r) PROVE Kept(root)
    <3> DEFINE q == req'[r]
    <3>1. req' = [req EXCEPT ![r] = q]
      BY <2>12 DEF RevokeRefreshFind, Typed, TypeOK
    <3>2. HasIssued(r) /\ req[r].kind = "code" =>
            /\ q # Absent /\ q.kind = "code"
            /\ q.grant = req[r].grant /\ q.issuedAt = req[r].issuedAt
      BY <2>12, <1>t DEF RevokeRefreshFind, At
    <3> HIDE DEF q
    <3> QED BY <2>2, <3>1, <3>2
  <2>17. ASSUME NEW r \in Requests, Generate(r) PROVE Kept(root)
    <3> DEFINE q == req'[r]
    <3>1. req' = [req EXCEPT ![r] = q]
      BY <2>17 DEF Generate, Typed, TypeOK
    <3>2. HasIssued(r) /\ req[r].kind = "code" =>
            /\ q # Absent /\ q.kind = "code"
            /\ q.grant = req[r].grant /\ q.issuedAt = req[r].issuedAt
      BY <2>17, <1>t DEF Generate, HasIssued
    <3> HIDE DEF q
    <3> QED BY <2>2, <3>1, <3>2
  <2>13. ASSUME NEW r \in Requests,
                \/ CodeNotFound(r) \/ CodeReplayed(r) \/ CodeRejected(r)
                \/ ConsumeCode(r) \/ ConsumeCodeWrite(r) \/ Recheck(r)
                \/ RefreshNotFound(r) \/ RefreshRejected(r)
                \/ RetireRefresh(r) \/ RetireRefreshWrite(r)
                \/ StoreRefresh(r) \/ Respond(r)
                \/ CascadeAccess(r) \/ AccessDeleted(r)
                \/ CascadeRefresh(r) \/ RefreshDeleted(r)
                \/ RevokeAccessFind(r) \/ RevokeAccess(r) \/ RevokeRefresh(r)
                \/ Fail(r)
         PROVE  UNCHANGED req
    BY <2>13
    DEF End, CodeNotFound, CodeReplayed, CodeRejected, ConsumeCode, ConsumeCodeWrite,
        Recheck, RefreshNotFound, RefreshRejected, RetireRefresh, RetireRefreshWrite,
        StoreRefresh, Respond, CascadeAccess, AccessDeleted, CascadeRefresh,
        RefreshDeleted, RevokeAccessFind, RevokeAccess, RevokeRefresh,
        Fail, SigningFails, StoreFails, ResponseLost
  <2>14. ASSUME NEW r \in Requests, Arrive(r) PROVE Kept(root)
    BY <2>3, <2>14 DEF Arrive, StartCode, StartRefresh, StartRevokeAccess, StartRevokeRefresh
  <2>15. ASSUME NEW r \in Requests, Serve(r) PROVE Kept(root)
    BY <2>1, <2>4, <2>5, <2>6, <2>7, <2>8, <2>9, <2>10, <2>11, <2>12, <2>13, <2>15, <2>17
    DEF Serve, RedeemStep, RotateStep, IssueStep, CascadeStep, RevokeStep
  <2>16. CASE UNCHANGED vars \/ Clock \/ \E g \in Grants, client \in Clients,
                 scope \in SUBSET Scopes : IssueCode(g, client, scope)
    BY <2>1, <2>16 DEF vars, Clock, IssueCode
  <2> HIDE DEF Kept
  <2> QED BY <2>1, <2>13, <2>14, <2>15, <2>16 DEF Next
<1>3. ASSUME NEW g \in Grants, NEW time \in Nat, Rooted(g, time)
      PROVE  Rooted(g, time)'
  BY <1>2, <1>3 DEF Rooted
<1> QED BY <1>1, <1>3

\* A code entry always says what its grant says, and a closed code stays closed.
LEMMA CodesKept ==
  ASSUME Typed, Safe, [Next]_vars
  PROVE  \A g \in Grants : CodeSafe(g)' /\ (Closed(g) => Closed(g)')
<1> DEFINE Goal == \A g \in Grants : CodeSafe(g)' /\ (Closed(g) => Closed(g)')
<1> SUFFICES Goal
  OBVIOUS
<1>t. /\ now \in Nat
      /\ codes \in [Grants -> CodeEntry \cup {Absent}]
      /\ granted \in [Grants -> Grant \cup {Absent}]
      /\ \A g \in Grants : CodeSafe(g)
      /\ \A r \in Requests : pc[r] # "idle" =>
           /\ req[r].kind = "code" => req[r].grant \in Grants
           /\ pc[r] = "markUsed" => /\ req[r].entry \in CodeEntry
                                    /\ Matches(req[r].grant, req[r].entry)
  BY DEF Typed, TypeOK, StoresTypeOK, Control, Knows, Safe, RequestSafe
<1>1. CASE UNCHANGED <<now, codes, granted>>
  BY <1>1, <1>t DEF CodeSafe, Matches, Closed
<1>2. CASE Clock
  BY <1>2, <1>t DEF Clock, Tick, CodeSafe, Matches, Closed, Grant
<1>3. ASSUME NEW h \in Grants, NEW client \in Clients, NEW scope \in SUBSET Scopes,
             IssueCode(h, client, scope)
      PROVE  Goal
  <2> DEFINE e == [client |-> client, scope |-> scope, expiresAt |-> now + CodeLifetime]
             c == [client |-> client, scope |-> scope, expiresAt |-> now + CodeLifetime,
                   used |-> FALSE]
  <2>1. /\ codes' = [codes EXCEPT ![h] = c] /\ granted' = [granted EXCEPT ![h] = e]
        /\ granted[h] = Absent /\ now' = now
    BY <1>3 DEF IssueCode, AfterSet
  <2>2. e.client = c.client /\ e.scope = c.scope /\ e.expiresAt = c.expiresAt
    OBVIOUS
  <2>3. e # Absent /\ c # Absent
    <3>1. e \in Grant /\ c \in CodeEntry
      BY <1>t, StoresAssumption DEF Grant, CodeEntry
    <3> QED BY <3>1, StoresAssumption, EndpointAssumption
  <2> HIDE DEF e, c
  <2> TAKE g \in Grants
  <2>4. CASE g = h
    BY <2>1, <2>2, <2>3, <2>4, <1>t DEF CodeSafe, Matches, Closed
  <2>5. CASE g # h
    BY <2>1, <2>5, <1>t DEF CodeSafe, Matches, Closed
  <2> QED BY <2>4, <2>5
<1>4. ASSUME NEW h \in Grants, codes' = AfterGet(codes, h), UNCHANGED <<now, granted>>
      PROVE  Goal
  <2> TAKE g \in Grants
  <2>1. codes'[g] = codes[g] \/ (codes'[g] = Absent /\ codes[g] # Absent /\ codes[g].expiresAt <= now)
    BY <1>4, <1>t DEF AfterGet, Fetch
  <2> QED BY <1>4, <1>t, <2>1 DEF CodeSafe, Matches, Closed
<1>5. ASSUME NEW h \in Grants, NEW e \in CodeEntry, Matches(h, e),
             codes' = [codes EXCEPT ![h] = Spent(e)], UNCHANGED <<now, granted>>
      PROVE  Goal
  <2>1. /\ Spent(e).client = e.client /\ Spent(e).scope = e.scope
        /\ Spent(e).expiresAt = e.expiresAt /\ Spent(e).used
    BY DEF Spent, CodeEntry
  <2>2. Spent(e) # Absent
    BY <1>t, CodeStoreTyped, StoresAssumption
  <2> TAKE g \in Grants
  <2>3. CASE g = h
    BY <1>5, <1>t, <2>1, <2>2, <2>3 DEF CodeSafe, Matches, Closed
  <2>4. CASE g # h
    BY <1>5, <1>t, <2>4 DEF CodeSafe, Matches, Closed
  <2> QED BY <2>3, <2>4
<1>6. ASSUME NEW r \in Requests, ConsumeCode(r) PROVE Goal
  <2>1. req[r].grant \in Grants /\ UNCHANGED <<now, granted>>
    BY <1>6, <1>t DEF ConsumeCode, At
  <2>2. CASE codes[req[r].grant] = Absent
    BY <1>1, <1>6, <2>1, <2>2 DEF ConsumeCode, AfterConsume
  <2>3. CASE codes[req[r].grant] # Absent
    <3>1. /\ codes' = [codes EXCEPT ![req[r].grant] = Spent(codes[req[r].grant])]
          /\ codes[req[r].grant] \in CodeEntry
          /\ Matches(req[r].grant, codes[req[r].grant])
      BY <1>6, <1>t, <2>1, <2>3 DEF ConsumeCode, AfterConsume, CodeSafe
    <3> QED BY <1>5, <2>1, <3>1
  <2> QED BY <2>2, <2>3
<1>7. ASSUME NEW r \in Requests, ConsumeCodeWrite(r) PROVE Goal
  <2>1. /\ req[r].grant \in Grants /\ req[r].entry \in CodeEntry
        /\ Matches(req[r].grant, req[r].entry)
        /\ codes' = [codes EXCEPT ![req[r].grant] = Spent(req[r].entry)]
        /\ UNCHANGED <<now, granted>>
    BY <1>7, <1>t DEF ConsumeCodeWrite, At, AfterSet
  <2> QED BY <1>5, <2>1
<1>8. ASSUME NEW r \in Requests,
             \/ CodeNotFound(r) \/ CodeReplayed(r) \/ CodeRejected(r)
             \/ CodeAccepted(r) \/ ConsumeCodeRead(r) \/ Recheck(r)
      PROVE  Goal
  <2>1. /\ req[r].grant \in Grants /\ codes' = AfterGet(codes, req[r].grant)
        /\ UNCHANGED <<now, granted>>
    BY <1>8, <1>t DEF CodeNotFound, CodeReplayed, CodeRejected, CodeAccepted,
                      ConsumeCodeRead, Recheck, ReadCode, At
  <2> QED BY <1>4, <2>1
<1>9. ASSUME NEW r \in Requests,
             Arrive(r) \/ RotateStep(r) \/ IssueStep(r) \/ CascadeStep(r) \/ RevokeStep(r) \/ Fail(r)
      PROVE  Goal
  <2>1. UNCHANGED <<now, codes, granted>>
    BY <1>9
    DEF Arrive, StartCode, StartRefresh, StartRevokeAccess, StartRevokeRefresh, Start,
        RotateStep, RefreshNotFound, RefreshReplayed, RefreshRejected, RefreshAccepted,
        ReadRefresh, RetireRefresh, RetireRefreshRead, RetireRefreshWrite,
        IssueStep, Generate, StoreAccess, StoreRefresh, Respond,
        CascadeStep, CascadeAccess, ListAccess, DeleteListedAccess, AccessDeleted,
        CascadeRefresh, ListRefresh, DeleteListedRefresh, RefreshDeleted,
        RevokeStep, RevokeAccessFind, RevokeAccess, RevokeRefreshFind, RevokeRefresh,
        Fail, SigningFails, StoreFails, ResponseLost
  <2> QED BY <1>1, <2>1
<1>10. CASE UNCHANGED vars
  BY <1>1, <1>10 DEF vars
<1> HIDE DEF Goal
<1> HIDE DEF Goal
<1>11. ASSUME NEW r \in Requests, Serve(r) PROVE Goal
  BY <1>6, <1>7, <1>8, <1>9, <1>11 DEF Serve, RedeemStep
<1>12. ASSUME NEW r \in Requests, Arrive(r) \/ Serve(r) \/ Fail(r) PROVE Goal
  BY <1>9, <1>11, <1>12
<1>13. CASE Next
  BY <1>2, <1>3, <1>12, <1>13 DEF Next
<1> QED BY <1>10, <1>13

\* What was safe to store or to hold stays safe.
LEMMA EntriesKept ==
  ASSUME Typed, Safe, [Next]_vars
  PROVE  /\ \A e \in AccessEntry : AccessSafe(e) => AccessSafe(e)'
         /\ \A e \in RefreshEntry : RefreshSafe(e) => RefreshSafe(e)'
         /\ \A q \in Request, label \in Running \cup Ended :
              Knows(label, q) /\ RequestSafe(label, q) => RequestSafe(label, q)'
<1>1. \A g \in Grants : /\ granted[g] # Absent => granted'[g] = granted[g]
                        /\ Closed(g) => Closed(g)'
  BY HistoryKept, CodesKept
<1>2. \A g \in Grants, time \in Nat : Rooted(g, time) => Rooted(g, time)'
  BY HistoryKept
<1>3. ASSUME NEW e \in AccessEntry, AccessSafe(e) PROVE AccessSafe(e)'
  BY <1>1, <1>3 DEF AccessSafe, Within, AccessEntry
<1>4. ASSUME NEW e \in RefreshEntry, RefreshSafe(e) PROVE RefreshSafe(e)'
  BY <1>1, <1>2, <1>4 DEF RefreshSafe, Within, RefreshEntry
<1>5. ASSUME NEW q \in Request, NEW label \in Running \cup Ended, Knows(label, q), RequestSafe(label, q)
      PROVE  RequestSafe(label, q)'
  <2>1. \A entry : \A g \in Grants : Matches(g, entry) => Matches(g, entry)'
    BY <1>1 DEF Matches
  <2>2. \A client, scope : \A g \in Grants : Inherits(g, client, scope) => Inherits(g, client, scope)'
    BY <1>1 DEF Inherits
  <2>3. label = "markRetired" => RefreshSafe(q.entry)'
    BY <1>4, <1>5 DEF Knows, RequestSafe
  <2>4. /\ q.kind = "code" => q.grant \in Grants
        /\ label \in {"markUsed", "sign", "issue", "storeRefresh"} => q.grant \in Grants
        /\ label \in {"sign", "issue"} /\ q.kind = "refresh" => q.originalIssuedAt \in Nat
        /\ label = "storeRefresh" => q.originalIssuedAt \in Nat
    BY <1>5 DEF Knows, Cascading
  <2>5. q.kind = "code" => granted'[q.grant] # Absent
    BY <1>1, <1>5, <2>4 DEF RequestSafe
  <2>6. q.kind = "code" /\ label \in {"consume", "markUsed", "recheck"} =>
          Inherits(q.grant, q.client, q.scope)'
    BY <1>5, <2>2, <2>4 DEF RequestSafe
  <2>7. label = "markUsed" => Matches(q.grant, q.entry)'
    BY <1>5, <2>1, <2>4 DEF RequestSafe
  <2>8. q.kind = "code" /\ label = "recheck" => Closed(q.grant)'
    BY <1>1, <1>5, <2>4 DEF RequestSafe
  <2>9. label \in {"sign", "issue", "storeRefresh"} =>
          Inherits(q.grant, q.client, q.scope)' /\ Closed(q.grant)'
    BY <1>1, <1>5, <2>2, <2>4 DEF RequestSafe
  <2>10. label \in {"sign", "issue"} /\ q.kind = "refresh" =>
           /\ q.entry.scope \subseteq granted'[q.grant].scope
           /\ Rooted(q.grant, q.originalIssuedAt)'
    BY <1>1, <1>2, <1>5, <2>4 DEF RequestSafe, Inherits
  <2>11. label = "storeRefresh" =>
           /\ OfflineAccess \in granted'[q.grant].scope
           /\ Rooted(q.grant, q.originalIssuedAt)'
    BY <1>1, <1>2, <1>5, <2>4 DEF RequestSafe, Inherits
  <2>12. label \in {"find", "consume", "markUsed", "recheck", "sign", "issue"} => q.issuedAt = Absent
    BY <1>5 DEF RequestSafe
  <2> QED BY <2>3, <2>5, <2>6, <2>7, <2>8, <2>9, <2>10, <2>11, <2>12 DEF RequestSafe
<1> QED BY <1>3, <1>4, <1>5

\* The access tokens stored stay within their grants, and are born of closed codes.
LEMMA AccessKept ==
  ASSUME Typed, Safe, [Next]_vars
  PROVE  \A t \in Requests, e \in AccessEntry : access'[t] = e => AccessSafe(e)'
<1> DEFINE Goal == \A t \in Requests, e \in AccessEntry : access'[t] = e => AccessSafe(e)'
<1> SUFFICES Goal
  OBVIOUS
<1>t. /\ access \in [Requests -> AccessEntry \cup {Absent}]
      /\ \A t \in Requests, e \in AccessEntry : access[t] = e => AccessSafe(e)'
      /\ Absent \notin AccessEntry
  <2>1. \A e \in AccessEntry : AccessSafe(e) => AccessSafe(e)'
    BY EntriesKept
  <2> QED BY <2>1, StoresAssumption DEF Typed, TypeOK, StoresTypeOK, Safe
<1>1. ASSUME \A t \in Requests : access'[t] \in {access[t], Absent} PROVE Goal
  BY <1>1, <1>t
<1>2. CASE UNCHANGED access
  BY <1>1, <1>2
<1>3. ASSUME NEW r \in Requests, StoreAccess(r) PROVE Goal
  <2>1. req[r] \in Request /\ Knows("issue", req[r]) /\ now \in Nat
    BY <1>3 DEF StoreAccess, Typed, TypeOK, StoresTypeOK, Control
  <2>2. RequestSafe("issue", req[r])
    BY <1>3, <2>1 DEF StoreAccess, Safe, Running
  <2>3. PICK e : e = IssuedAccess(r)
    OBVIOUS
  <2>4. /\ e.grant = req[r].grant /\ e.client = req[r].client /\ e.scope = req[r].scope
        /\ req[r].grant \in Grants
    BY <2>1, <2>3 DEF IssuedAccess, Knows
  <2>5. e \in AccessEntry
    BY <2>1, <2>3, <2>4, StoresAssumption DEF IssuedAccess, AccessEntry, Request
  <2>6. AccessSafe(e)
    BY <2>2, <2>4 DEF AccessSafe, Within, RequestSafe, Inherits
  <2>7. AccessSafe(e)'
    BY <2>5, <2>6, EntriesKept
  <2>8. access' = [access EXCEPT ![req[r].minted] = e]
    BY <1>3, <2>3 DEF StoreAccess, AfterSet
  <2> QED BY <1>t, <2>7, <2>8
<1>4. ASSUME NEW r \in Requests, CascadeAccess(r) PROVE Goal
  BY <1>1, <1>4, <1>t DEF CascadeAccess, AfterRevokeByGrant
<1>5. ASSUME NEW r \in Requests, NEW t \in Requests, DeleteListedAccess(r, t) PROVE Goal
  BY <1>1, <1>5, <1>t DEF DeleteListedAccess, AfterDelete
<1>6. ASSUME NEW r \in Requests, RevokeAccessFind(r) PROVE Goal
  BY <1>1, <1>6, <1>t DEF RevokeAccessFind, AfterGet, Fetch
<1>7. ASSUME NEW r \in Requests, RevokeAccess(r) PROVE Goal
  BY <1>1, <1>7, <1>t DEF RevokeAccess, AfterDelete
<1>8. ASSUME NEW r \in Requests,
             \/ Arrive(r) \/ RedeemStep(r) \/ RotateStep(r) \/ Fail(r)
             \/ Generate(r) \/ StoreRefresh(r) \/ Respond(r) \/ ListAccess(r) \/ AccessDeleted(r)
             \/ CascadeRefresh(r) \/ ListRefresh(r) \/ RefreshDeleted(r)
             \/ (\E t \in Requests : DeleteListedRefresh(r, t))
             \/ RevokeRefreshFind(r) \/ RevokeRefresh(r)
      PROVE  Goal
  <2>1. UNCHANGED access
    BY <1>8
    DEF Arrive, StartCode, StartRefresh, StartRevokeAccess, StartRevokeRefresh, Start,
        RedeemStep, CodeNotFound, CodeReplayed, CodeRejected, CodeAccepted, ReadCode,
        ConsumeCode, ConsumeCodeRead, ConsumeCodeWrite, Recheck,
        RotateStep, RefreshNotFound, RefreshReplayed, RefreshRejected, RefreshAccepted,
        ReadRefresh, RetireRefresh, RetireRefreshRead, RetireRefreshWrite,
        Generate, StoreRefresh, Respond, ListAccess, AccessDeleted,
        CascadeRefresh, ListRefresh, DeleteListedRefresh, RefreshDeleted,
        RevokeRefreshFind, RevokeRefresh,
        Fail, SigningFails, StoreFails, ResponseLost
  <2> QED BY <1>2, <2>1
<1> HIDE DEF Goal
<1>9. ASSUME NEW r \in Requests, Arrive(r) \/ Serve(r) \/ Fail(r) PROVE Goal
  BY <1>3, <1>4, <1>5, <1>6, <1>7, <1>8, <1>9 DEF Serve, IssueStep, CascadeStep, RevokeStep
<1>10. CASE Next
  BY <1>2, <1>9, <1>10 DEF Next, Clock, Tick, IssueCode
<1> QED BY <1>2, <1>10 DEF vars

\* The refresh tokens stored stay within their grants, are born of closed codes
\* and end when the family does.
LEMMA RefreshKept ==
  ASSUME Typed, Safe, [Next]_vars
  PROVE  \A t \in Requests, e \in RefreshEntry : refresh'[t] = e => RefreshSafe(e)'
<1> DEFINE Goal == \A t \in Requests, e \in RefreshEntry : refresh'[t] = e => RefreshSafe(e)'
<1> SUFFICES Goal
  OBVIOUS
<1>t. /\ refresh \in [Requests -> RefreshEntry \cup {Absent}]
      /\ \A t \in Requests, e \in RefreshEntry : refresh[t] = e => RefreshSafe(e) /\ RefreshSafe(e)'
      /\ Absent \notin RefreshEntry
  <2>1. \A e \in RefreshEntry : RefreshSafe(e) => RefreshSafe(e)'
    BY EntriesKept
  <2> QED BY <2>1, StoresAssumption DEF Typed, TypeOK, StoresTypeOK, Safe
<1>s. ASSUME NEW e \in RefreshEntry, RefreshSafe(e)
      PROVE  Spent(e) \in RefreshEntry /\ RefreshSafe(Spent(e))
  BY <1>s DEF Spent, RefreshEntry, RefreshSafe, Within
<1>1. ASSUME \A t \in Requests : refresh'[t] \in {refresh[t], Absent} PROVE Goal
  BY <1>1, <1>t
<1>2. CASE UNCHANGED refresh
  BY <1>1, <1>2
<1>3. ASSUME NEW r \in Requests, NEW e \in RefreshEntry, RefreshSafe(e),
             refresh' = [refresh EXCEPT ![r] = e]
      PROVE  Goal
  <2>1. RefreshSafe(e)'
    BY <1>3, EntriesKept
  <2> QED BY <1>3, <1>t, <2>1
<1>4. ASSUME NEW r \in Requests, StoreRefresh(r) PROVE Goal
  <2>1. req[r] \in Request /\ Knows("storeRefresh", req[r])
    BY <1>4 DEF StoreRefresh, Typed, TypeOK, StoresTypeOK, Control
  <2>2. RequestSafe("storeRefresh", req[r])
    BY <1>4, <2>1 DEF StoreRefresh, Safe, Running
  <2>3. PICK e : e = IssuedRefresh(r)
    OBVIOUS
  <2>4. /\ e.grant = req[r].grant /\ e.client = req[r].client
        /\ e.scope = req[r].scope \cup {OfflineAccess}
        /\ e.originalIssuedAt = req[r].originalIssuedAt
        /\ e.expiresAt = e.originalIssuedAt + RefreshLifetime
        /\ req[r].grant \in Grants /\ req[r].originalIssuedAt \in Nat
    BY <2>1, <2>3 DEF IssuedRefresh, Knows
  <2>5. e \in RefreshEntry
    BY <2>1, <2>3, <2>4, StoresAssumption DEF IssuedRefresh, RefreshEntry, Request
  <2>6. RefreshSafe(e)
    BY <2>2, <2>4 DEF RefreshSafe, Within, RequestSafe, Inherits
  <2>7. refresh' = [refresh EXCEPT ![r] = e]
    BY <1>4, <2>3 DEF StoreRefresh, AfterSet
  <2> QED BY <1>3, <2>5, <2>6, <2>7
<1>5. ASSUME NEW r \in Requests, RetireRefresh(r) PROVE Goal
  <2>1. req[r].token \in Requests
    BY <1>5 DEF RetireRefresh, At, Typed, TypeOK, Control, Knows
  <2>2. CASE refresh[req[r].token] = Absent
    BY <1>2, <1>5, <2>2 DEF RetireRefresh, AfterConsume
  <2>3. CASE refresh[req[r].token] # Absent
    <3>1. PICK e : e = refresh[req[r].token]
      OBVIOUS
    <3>2. e \in RefreshEntry /\ RefreshSafe(e)
      BY <1>t, <2>1, <2>3, <3>1
    <3>3. refresh' = [refresh EXCEPT ![req[r].token] = Spent(e)]
      BY <1>5, <2>3, <3>1 DEF RetireRefresh, AfterConsume
    <3> QED BY <1>3, <1>s, <2>1, <3>2, <3>3
  <2> QED BY <2>2, <2>3
<1>6. ASSUME NEW r \in Requests, RetireRefreshWrite(r) PROVE Goal
  <2>1. req[r] \in Request /\ Knows("markRetired", req[r]) /\ req[r].kind = "refresh"
    BY <1>6 DEF RetireRefreshWrite, At, Typed, TypeOK, Control
  <2>2. RequestSafe("markRetired", req[r])
    BY <1>6, <2>1 DEF RetireRefreshWrite, At, Safe, Running
  <2>3. req[r].entry \in RefreshEntry /\ RefreshSafe(req[r].entry) /\ req[r].token \in Requests
    BY <2>1, <2>2 DEF Knows, RequestSafe
  <2>4. refresh' = [refresh EXCEPT ![req[r].token] = Spent(req[r].entry)]
    BY <1>6 DEF RetireRefreshWrite, AfterSet
  <2> QED BY <1>3, <1>s, <2>3, <2>4
<1>7. ASSUME NEW r \in Requests,
             \/ RefreshNotFound(r) \/ RefreshReplayed(r) \/ RefreshRejected(r)
             \/ RefreshAccepted(r) \/ RetireRefreshRead(r) \/ RevokeRefreshFind(r)
      PROVE  Goal
  <2>1. refresh' = AfterGet(refresh, req[r].token)
    BY <1>7 DEF RefreshNotFound, RefreshReplayed, RefreshRejected, RefreshAccepted,
                RetireRefreshRead, RevokeRefreshFind, ReadRefresh
  <2> QED BY <1>1, <1>t, <2>1 DEF AfterGet, Fetch
<1>8. ASSUME NEW r \in Requests, CascadeRefresh(r) PROVE Goal
  BY <1>1, <1>8, <1>t DEF CascadeRefresh, AfterRevokeByGrant
<1>9. ASSUME NEW r \in Requests, NEW t \in Requests, DeleteListedRefresh(r, t) PROVE Goal
  BY <1>1, <1>9, <1>t DEF DeleteListedRefresh, AfterDelete
<1>10. ASSUME NEW r \in Requests, RevokeRefresh(r) PROVE Goal
  BY <1>1, <1>10, <1>t DEF RevokeRefresh, AfterDelete
<1>11. ASSUME NEW r \in Requests,
              \/ Arrive(r) \/ RedeemStep(r) \/ Fail(r)
              \/ Generate(r) \/ StoreAccess(r) \/ Respond(r)
              \/ CascadeAccess(r) \/ ListAccess(r) \/ AccessDeleted(r)
              \/ ListRefresh(r) \/ RefreshDeleted(r)
              \/ (\E t \in Requests : DeleteListedAccess(r, t))
              \/ RevokeAccessFind(r) \/ RevokeAccess(r)
       PROVE  Goal
  <2>1. UNCHANGED refresh
    BY <1>11
    DEF Arrive, StartCode, StartRefresh, StartRevokeAccess, StartRevokeRefresh, Start,
        RedeemStep, CodeNotFound, CodeReplayed, CodeRejected, CodeAccepted, ReadCode,
        ConsumeCode, ConsumeCodeRead, ConsumeCodeWrite, Recheck,
        Generate, StoreAccess, Respond,
        CascadeAccess, ListAccess, DeleteListedAccess, AccessDeleted, ListRefresh, RefreshDeleted, RevokeAccessFind, RevokeAccess,
        Fail, SigningFails, StoreFails, ResponseLost
  <2> QED BY <1>2, <2>1
<1> HIDE DEF Goal
<1>12. ASSUME NEW r \in Requests, Arrive(r) \/ Serve(r) \/ Fail(r) PROVE Goal
  BY <1>4, <1>5, <1>6, <1>7, <1>8, <1>9, <1>10, <1>11, <1>12
  DEF Serve, RotateStep, IssueStep, CascadeStep, RevokeStep
<1>13. CASE Next
  BY <1>2, <1>12, <1>13 DEF Next, Clock, Tick, IssueCode
<1> QED BY <1>2, <1>13 DEF vars

\* What requests in flight hold stays within their grants, and a request that may
\* issue tokens holds a closed code or descends from one.
LEMMA RequestsKept ==
  ASSUME Typed, Safe, [Next]_vars
  PROVE  \A r \in Requests, label \in Running \cup Ended, q \in Request :
           pc'[r] = label /\ req'[r] = q => RequestSafe(label, q)'
<1> DEFINE Goal == \A r \in Requests, label \in Running \cup Ended, q \in Request :
                     pc'[r] = label /\ req'[r] = q => RequestSafe(label, q)'
           Quiet == {"cascadeAccess", "deleteAccess", "cascadeRefresh", "deleteRefresh",
                     "retire", "respond", "delete"} \cup Ended
<1> SUFFICES Goal
  OBVIOUS
<1>t. /\ pc \in [Requests -> Running \cup Ended \cup {"idle"}]
      /\ req \in [Requests -> Request \cup {Absent}]
      /\ now \in Nat
      /\ codes \in [Grants -> CodeEntry \cup {Absent}]
      /\ refresh \in [Requests -> RefreshEntry \cup {Absent}]
      /\ Absent \notin Request /\ Absent \notin CodeEntry /\ Absent \notin RefreshEntry
  BY StoresAssumption, EndpointAssumption DEF Typed, TypeOK, StoresTypeOK
<1>k. \A r \in Requests : pc[r] # "idle" =>
        /\ req[r] \in Request /\ Knows(pc[r], req[r]) /\ RequestSafe(pc[r], req[r])
  BY <1>t DEF Typed, Control, Safe
<1>n. \A r \in Requests : req'[r] # Absent => Knows(pc'[r], req'[r])
  BY NextTyped DEF Typed, Control
<1>e. \A q \in Request, label \in Running \cup Ended :
        Knows(label, q) /\ RequestSafe(label, q) => RequestSafe(label, q)'
  BY EntriesKept
<1>1. CASE UNCHANGED <<pc, req>>
  <2> SUFFICES ASSUME NEW s \in Requests, NEW l \in Running \cup Ended, NEW p \in Request,
                      pc'[s] = l, req'[s] = p
               PROVE  RequestSafe(l, p)'
    OBVIOUS
  <2>1. pc[s] = l /\ req[s] = p /\ l # "idle"
    BY <1>1 DEF Running, Ended
  <2>2. Knows(l, p) /\ RequestSafe(l, p)
    BY <2>1, <1>k
  <2> QED BY <2>2, <1>e
<1>2. ASSUME NEW r \in Requests, NEW label \in Running \cup Ended, NEW q \in Request,
             pc' = [pc EXCEPT ![r] = label], req' = [req EXCEPT ![r] = q],
             RequestSafe(label, q)'
      PROVE  Goal
  <2> SUFFICES ASSUME NEW s \in Requests, NEW l \in Running \cup Ended, NEW p \in Request,
                      pc'[s] = l, req'[s] = p
               PROVE  RequestSafe(l, p)'
    OBVIOUS
  <2>1. CASE s = r
    <3>1. l = label /\ p = q
      BY <1>2, <1>t, <2>1
    <3> QED BY <1>2, <3>1
  <2>2. CASE s # r
    <3>1. pc[s] = l /\ req[s] = p /\ l # "idle"
      BY <1>2, <1>t, <2>2 DEF Running, Ended
    <3>2. Knows(l, p) /\ RequestSafe(l, p)
      BY <3>1, <1>k
    <3> QED BY <3>2, <1>e
  <2> QED BY <2>1, <2>2
<1>3. ASSUME NEW r \in Requests, NEW label \in Running \cup Ended, NEW q \in Request,
             pc' = [pc EXCEPT ![r] = label], req' = [req EXCEPT ![r] = q],
             RequestSafe(label, q)
      PROVE  Goal
  <2>1. pc'[r] = label /\ req'[r] = q
    BY <1>3, <1>t
  <2>2. Knows(label, q)
    BY <1>n, <1>t, <2>1
  <2> QED BY <1>2, <1>3, <1>e, <2>2
<1>4. ASSUME NEW r \in Requests, NEW label \in Quiet, NEW q \in Request, pc[r] # "idle",
             pc' = [pc EXCEPT ![r] = label], req' = [req EXCEPT ![r] = q],
             q.kind = req[r].kind, q.kind = "code" => q.grant = req[r].grant
      PROVE  Goal
  <2>1. RequestSafe(label, q)
    BY <1>4, <1>k DEF RequestSafe, Ended
  <2>2. label \in Running \cup Ended
    BY DEF Running
  <2> QED BY <1>3, <1>4, <2>1, <2>2
<1>5. ASSUME NEW r \in Requests, NEW label \in Quiet, pc[r] # "idle", Goto(r, label), UNCHANGED req
      PROVE  Goal
  <2>1. req' = [req EXCEPT ![r] = req[r]] /\ req[r] \in Request
    BY <1>5, <1>t, <1>k
  <2> QED BY <1>4, <1>5, <2>1 DEF Goto
<1>6. ASSUME NEW r \in Requests, NEW kind, NEW client, NEW grant, NEW token,
             NEW proven, NEW asks, NEW scope,
             Start(r, kind, client, grant, token, proven, asks, scope),
             kind = "code" => granted[grant] # Absent
      PROVE  Goal
  <2> DEFINE q == [kind |-> kind, client |-> client, grant |-> grant, token |-> token,
                   proven |-> proven, asks |-> asks, scope |-> scope, entry |-> Absent,
                   doomed |-> {}, minted |-> Absent, madeAt |-> Absent,
                   issuedAt |-> Absent, originalIssuedAt |-> Absent]
  <2>2. pc' = [pc EXCEPT ![r] = "find"] /\ req' = [req EXCEPT ![r] = q]
    BY <1>6 DEF Start, Goto
  <2>3. q # Absent
    <3>1. pc'[r] = "find" /\ req'[r] = q
      BY <1>t, <2>2
    <3>2. pc'[r] = "idle" <=> req'[r] = Absent
      BY NextTyped DEF Typed, Control
    <3> QED BY <3>1, <3>2
  <2>4. q \in Request
    <3>1. req'[r] = q
      BY <1>t, <2>2
    <3> HIDE DEF q
    <3> QED BY <2>3, <3>1, NextTyped DEF Typed, TypeOK
  <2>5. RequestSafe("find", q)
    BY <1>6 DEF RequestSafe
  <2> HIDE DEF q
  <2> QED BY <1>3, <2>2, <2>4, <2>5 DEF Running
<1>7. ASSUME NEW r \in Requests, CodeAccepted(r) PROVE Goal
  <2> DEFINE q == [req[r] EXCEPT !.scope = FindCode(r).scope]
  <2>1. /\ req[r] \in Request /\ req[r].kind = "code" /\ req[r].grant \in Grants
        /\ RequestSafe("find", req[r])
    BY <1>7, <1>k DEF CodeAccepted, At, Knows
  <2>2. /\ FindCode(r) \in CodeEntry /\ Matches(req[r].grant, FindCode(r))
        /\ FindCode(r).client = req[r].client
    BY <1>7, <1>t, <2>1 DEF CodeAccepted, CodeProven, FindCode, Fetch, Safe, CodeSafe
  <2>3. q \in Request
    BY <2>1, <2>2, RequestUpdates DEF CodeEntry
  <2>4. /\ q.kind = "code" /\ q.grant = req[r].grant /\ q.client = req[r].client
        /\ q.scope = FindCode(r).scope /\ q.issuedAt = req[r].issuedAt
    BY <2>1 DEF Request
  <2>5. RequestSafe("consume", q)
    <3> HIDE DEF q
    <3> QED BY <2>1, <2>2, <2>4 DEF RequestSafe, Matches, Inherits
  <2>6. pc' = [pc EXCEPT ![r] = "consume"] /\ req' = [req EXCEPT ![r] = q]
    BY <1>7 DEF CodeAccepted, Goto
  <2> HIDE DEF q
  <2> QED BY <1>3, <2>3, <2>5, <2>6 DEF Running
<1>c. ASSUME NEW r \in Requests, NEW q \in Request, pc[r] \in {"consume", "markUsed"},
             q.kind = "code", Inherits(q.grant, q.client, q.scope), q.grant \in Grants,
             q.issuedAt = Absent, UNCHANGED <<now, granted>>,
             codes'[q.grant] # Absent => codes'[q.grant].used,
             pc' = [pc EXCEPT ![r] = "recheck"], req' = [req EXCEPT ![r] = q]
      PROVE  Goal
  <2>1. Closed(q.grant)'
    <3>1. CodeSafe(q.grant)'
      BY <1>c, CodesKept
    <3> QED BY <1>c, <3>1 DEF CodeSafe, Closed, Inherits
  <2>2. RequestSafe("recheck", q)'
    BY <1>c, <2>1 DEF RequestSafe, Inherits
  <2> QED BY <1>2, <1>c, <2>2 DEF Running
<1>8. ASSUME NEW r \in Requests, ConsumeCode(r) PROVE Goal
  <2>1. /\ req[r] \in Request /\ req[r].kind = "code" /\ req[r].grant \in Grants
        /\ RequestSafe("consume", req[r])
    BY <1>8, <1>k DEF ConsumeCode, At, Knows
  <2>2. codes'[req[r].grant] # Absent => codes'[req[r].grant].used
    BY <1>8, <1>t, <2>1 DEF ConsumeCode, AfterConsume, Spent, CodeEntry
  <2>3. /\ pc[r] = "consume" /\ UNCHANGED <<now, granted>>
        /\ pc' = [pc EXCEPT ![r] = "recheck"] /\ req' = [req EXCEPT ![r] = req[r]]
    BY <1>8, <1>t DEF ConsumeCode, At, Goto
  <2> QED BY <1>c, <2>1, <2>2, <2>3 DEF RequestSafe
<1>9. ASSUME NEW r \in Requests, ConsumeCodeRead(r) PROVE Goal
  <2> DEFINE q == [req[r] EXCEPT !.entry = FindCode(r)]
  <2>1. /\ req[r] \in Request /\ req[r].kind = "code" /\ req[r].grant \in Grants
        /\ RequestSafe("consume", req[r])
    BY <1>9, <1>k DEF ConsumeCodeRead, At, Knows
  <2>2. /\ FindCode(r) \in CodeEntry \cup {Absent}
        /\ FindCode(r) # Absent => Matches(req[r].grant, FindCode(r))
    BY <1>9, <1>t, <2>1 DEF FindCode, Fetch, Safe, CodeSafe
  <2>3. q \in Request
    BY <2>1, <2>2, RequestUpdates
  <2>4. /\ q.kind = "code" /\ q.grant = req[r].grant /\ q.client = req[r].client
        /\ q.scope = req[r].scope /\ q.issuedAt = req[r].issuedAt /\ q.entry = FindCode(r)
    BY <2>1 DEF Request
  <2>5. req' = [req EXCEPT ![r] = q] /\ UNCHANGED <<now, granted>> /\ pc[r] = "consume"
    BY <1>9 DEF ConsumeCodeRead, ReadCode, At
  <2> HIDE DEF q
  <2>6. CASE FindCode(r) = Absent
    <3>1. codes'[q.grant] = Absent /\ pc' = [pc EXCEPT ![r] = "recheck"]
      BY <1>9, <1>t, <2>1, <2>4, <2>6 DEF ConsumeCodeRead, ReadCode, FindCode, AfterGet, Goto
    <3> QED BY <1>c, <2>1, <2>3, <2>4, <2>5, <3>1 DEF RequestSafe
  <2>7. CASE FindCode(r) # Absent
    <3>1. RequestSafe("markUsed", q)
      BY <2>1, <2>2, <2>4, <2>7 DEF RequestSafe
    <3>2. pc' = [pc EXCEPT ![r] = "markUsed"]
      BY <1>9, <2>7 DEF ConsumeCodeRead, Goto
    <3> QED BY <1>3, <2>3, <2>5, <3>1, <3>2 DEF Running
  <2> QED BY <2>6, <2>7
<1>10. ASSUME NEW r \in Requests, ConsumeCodeWrite(r) PROVE Goal
  <2>1. /\ req[r] \in Request /\ req[r].kind = "code" /\ req[r].grant \in Grants
        /\ req[r].entry \in CodeEntry /\ RequestSafe("markUsed", req[r])
    BY <1>10, <1>k DEF ConsumeCodeWrite, At, Knows
  <2>2. codes'[req[r].grant].used
    BY <1>10, <1>t, <2>1 DEF ConsumeCodeWrite, AfterSet, Spent, CodeEntry
  <2>3. /\ pc[r] = "markUsed" /\ UNCHANGED <<now, granted>>
        /\ pc' = [pc EXCEPT ![r] = "recheck"] /\ req' = [req EXCEPT ![r] = req[r]]
    BY <1>10, <1>t DEF ConsumeCodeWrite, At, Goto
  <2> QED BY <1>c, <2>1, <2>2, <2>3 DEF RequestSafe
<1>11. ASSUME NEW r \in Requests, Recheck(r) PROVE Goal
  <2>1. /\ req[r] \in Request /\ req[r].kind = "code" /\ RequestSafe("recheck", req[r])
        /\ pc[r] = "recheck" /\ req' = [req EXCEPT ![r] = req[r]] /\ UNCHANGED req
    BY <1>11, <1>k, <1>t DEF Recheck, At, End
  <2>2. CASE FindCode(r) = Absent
    BY <1>5, <1>11, <2>1, <2>2 DEF Recheck, End, Ended
  <2>3. CASE FindCode(r) # Absent
    <3>1. RequestSafe("sign", req[r])
      BY <2>1 DEF RequestSafe
    <3>2. pc' = [pc EXCEPT ![r] = "sign"]
      BY <1>11, <2>3 DEF Recheck, End, Goto
    <3> QED BY <1>3, <2>1, <3>1, <3>2 DEF Running
  <2> QED BY <2>2, <2>3
<1>12. ASSUME NEW r \in Requests, Arrive(r) PROVE Goal
  <2>1. ASSUME NEW g, NEW client, NEW proven, StartCode(r, g, client, proven) PROVE Goal
    <3>1. Start(r, "code", client, g, Absent, proven, FALSE, {}) /\ granted[g] # Absent
      BY <2>1 DEF StartCode
    <3> QED BY <1>6, <3>1
  <2>2. ASSUME NEW t, NEW client, NEW asks, NEW scope, StartRefresh(r, t, client, asks, scope)
        PROVE  Goal
    BY <1>6, <2>2 DEF StartRefresh
  <2>3. ASSUME NEW t, NEW client, StartRevokeAccess(r, t, client) PROVE Goal
    <3>1. Start(r, "revokeAccess", client, Absent, req[t].minted, TRUE, FALSE, {})
      BY <2>3 DEF StartRevokeAccess
    <3> QED BY <1>6, <3>1
  <2>4. ASSUME NEW t, NEW client, StartRevokeRefresh(r, t, client) PROVE Goal
    <3>1. Start(r, "revokeRefresh", client, Absent, t, TRUE, FALSE, {})
      BY <2>4 DEF StartRevokeRefresh
    <3> QED BY <1>6, <3>1
  <2> HIDE DEF Goal
  <2> QED BY <1>12, <2>1, <2>2, <2>3, <2>4 DEF Arrive
<1>13. ASSUME NEW r \in Requests, RefreshAccepted(r) PROVE Goal
  <2> DEFINE q == [req[r] EXCEPT !.grant = FindRefresh(r).grant, !.entry = FindRefresh(r),
                     !.scope = IF req[r].asks THEN @ ELSE FindRefresh(r).scope,
                     !.originalIssuedAt = FindRefresh(r).originalIssuedAt]
  <2>1. /\ req[r] \in Request /\ req[r].kind = "refresh" /\ req[r].token \in Requests
        /\ RequestSafe("find", req[r])
    BY <1>13, <1>k DEF RefreshAccepted, At, Knows
  <2>2. /\ FindRefresh(r) \in RefreshEntry /\ RefreshSafe(FindRefresh(r))
        /\ FindRefresh(r).client = req[r].client
        /\ req[r].asks => req[r].scope \subseteq FindRefresh(r).scope
    BY <1>13, <1>t, <2>1
    DEF RefreshAccepted, RefreshAllowed, ScopeAllowed, FindRefresh, Fetch, Safe
  <2>3. /\ q.kind = "refresh" /\ q.grant = FindRefresh(r).grant
        /\ q.client = FindRefresh(r).client /\ q.scope \subseteq FindRefresh(r).scope
        /\ q.entry = FindRefresh(r) /\ q.issuedAt = req[r].issuedAt
        /\ q.originalIssuedAt = FindRefresh(r).originalIssuedAt
    BY <2>1, <2>2 DEF Request
  <2>4. RequestSafe("sign", q)
    <3> HIDE DEF q
    <3> QED BY <2>1, <2>2, <2>3 DEF RequestSafe, RefreshSafe, Within, Inherits
  <2>5. pc' = [pc EXCEPT ![r] = "sign"] /\ req' = [req EXCEPT ![r] = q]
    BY <1>13 DEF RefreshAccepted, Goto
  <2>6. q \in Request
    <3>1. req'[r] = q /\ pc'[r] = "sign"
      BY <1>t, <2>5
    <3> HIDE DEF q
    <3> QED BY <3>1, NextTyped DEF Typed, TypeOK, Control
  <2> HIDE DEF q
  <2> QED BY <1>3, <2>4, <2>5, <2>6 DEF Running
<1>14. ASSUME NEW r \in Requests, StoreAccess(r) PROVE Goal
  <2> DEFINE label == IF GrantHasOfflineAccess(r) THEN "storeRefresh" ELSE AfterIssuance(r)
  <2>1. /\ req[r] \in Request /\ Knows("issue", req[r]) /\ RequestSafe("issue", req[r])
        /\ pc[r] = "issue" /\ pc[r] # "idle"
    BY <1>14, <1>k DEF StoreAccess
  <2>2. OriginalIssuedAt(r) \in Nat
    BY <1>t, <2>1 DEF OriginalIssuedAt, Knows
  <2>3. PICK q \in Request :
          q = [req[r] EXCEPT !.issuedAt = now, !.originalIssuedAt = OriginalIssuedAt(r)]
    BY <1>t, <2>1, <2>2, RequestUpdates
  <2>4. /\ q.kind = req[r].kind /\ q.grant = req[r].grant /\ q.client = req[r].client
        /\ q.scope = req[r].scope /\ q.issuedAt = now
        /\ q.originalIssuedAt = OriginalIssuedAt(r)
        /\ q.grant \in Grants
    BY <2>1, <2>3 DEF Request, Knows, Cascading
  <2>5. pc' = [pc EXCEPT ![r] = label] /\ req' = [req EXCEPT ![r] = q] /\ UNCHANGED granted
    BY <1>14, <2>3 DEF StoreAccess, Goto
  <2>6. CASE ~GrantHasOfflineAccess(r)
    <3>1. label \in Quiet
      BY <2>6 DEF AfterIssuance
    <3> HIDE DEF label
    <3> QED BY <1>4, <2>1, <2>3, <2>4, <2>5, <3>1
  <2>7. CASE GrantHasOfflineAccess(r)
    <3>1. pc' = [pc EXCEPT ![r] = "storeRefresh"]
      BY <2>5, <2>7
    <3>2. /\ Inherits(q.grant, q.client, q.scope) /\ Closed(q.grant)
          /\ OfflineAccess \in granted[q.grant].scope
      BY <2>1, <2>4, <2>7 DEF RequestSafe, Inherits, GrantHasOfflineAccess
    <3>3. Closed(q.grant)'
      BY <2>4, <3>2, CodesKept
    <3>4. Rooted(q.grant, q.originalIssuedAt)'
      <4>1. CASE req[r].kind = "refresh"
        BY <2>1, <2>2, <2>4, <4>1, HistoryKept DEF RequestSafe, OriginalIssuedAt
      <4>2. CASE req[r].kind # "refresh"
        <5>1. req'[r] = q /\ q.issuedAt = q.originalIssuedAt /\ q.issuedAt # Absent
          BY <1>t, <2>4, <2>5, <4>2, EndpointAssumption DEF OriginalIssuedAt
        <5>2. req[r].kind = "code" /\ req'[r] # Absent
          BY <1>t, <2>1, <2>3, <4>2, <5>1 DEF Knows
        <5> QED BY <2>4, <5>1, <5>2 DEF Rooted, HasIssued
      <4> QED BY <4>1, <4>2
    <3>5. RequestSafe("storeRefresh", q)'
      BY <2>1, <2>4, <2>5, <3>2, <3>3, <3>4 DEF RequestSafe, Inherits
    <3> QED BY <1>2, <2>3, <2>5, <3>1, <3>5 DEF Running
  <2> QED BY <2>6, <2>7
<1>15. ASSUME NEW r \in Requests, RetireRefreshRead(r) PROVE Goal
  <2>1. /\ req[r] \in Request /\ req[r].kind = "refresh" /\ req[r].token \in Requests
        /\ pc[r] # "idle" /\ req' = [req EXCEPT ![r].entry = FindRefresh(r)]
    BY <1>15, <1>k DEF RetireRefreshRead, At, Knows
  <2>2. /\ FindRefresh(r) \in RefreshEntry \cup {Absent}
        /\ FindRefresh(r) # Absent => RefreshSafe(FindRefresh(r))
    BY <1>15, <1>t, <2>1 DEF FindRefresh, Fetch, Safe
  <2>3. PICK q \in Request : q = [req[r] EXCEPT !.entry = FindRefresh(r)]
    BY <2>1, <2>2, RequestUpdates
  <2>4. q.kind = "refresh" /\ q.entry = FindRefresh(r) /\ req' = [req EXCEPT ![r] = q]
    BY <2>1, <2>3 DEF Request
  <2>5. CASE FindRefresh(r) = Absent
    <3>1. pc' = [pc EXCEPT ![r] = "respond"]
      BY <1>15, <2>5 DEF RetireRefreshRead, Goto
    <3> QED BY <1>4, <2>1, <2>4, <3>1
  <2>6. CASE FindRefresh(r) # Absent
    <3>1. pc' = [pc EXCEPT ![r] = "markRetired"]
      BY <1>15, <2>6 DEF RetireRefreshRead, Goto
    <3>2. RequestSafe("markRetired", q)
      BY <2>2, <2>4, <2>6 DEF RequestSafe
    <3> QED BY <1>3, <2>4, <3>1, <3>2 DEF Running
  <2> QED BY <2>5, <2>6
<1>16. ASSUME NEW r \in Requests, RefreshReplayed(r) \/ RevokeRefreshFind(r) PROVE Goal
  <2>1. PICK label \in Quiet : pc' = [pc EXCEPT ![r] = label]
    BY <1>16 DEF RefreshReplayed, RevokeRefreshFind, Verdict, Goto, Ended
  <2>2. /\ req[r] \in Request /\ req[r].kind \in {"refresh", "revokeRefresh"}
        /\ pc[r] # "idle"
    BY <1>16, <1>k DEF RefreshReplayed, RevokeRefreshFind, At
  <2>3. PICK g : req' = [req EXCEPT ![r].grant = g]
    <3>1. CASE RefreshReplayed(r)
      BY <3>1 DEF RefreshReplayed
    <3>2. CASE RevokeRefreshFind(r)
      BY <3>2 DEF RevokeRefreshFind
    <3> QED BY <1>16, <3>1, <3>2
  <2>4. PICK q : q = [req[r] EXCEPT !.grant = g]
    OBVIOUS
  <2>5. q.kind = req[r].kind /\ req' = [req EXCEPT ![r] = q]
    BY <2>2, <2>3, <2>4 DEF Request
  <2>6. q \in Request
    <3>1. req'[r] = q /\ pc'[r] = label /\ label # "idle"
      BY <1>t, <2>1, <2>5 DEF Ended
    <3> QED BY <3>1, NextTyped DEF Typed, TypeOK, Control
  <2> QED BY <1>4, <2>1, <2>2, <2>5, <2>6
<1>17. ASSUME NEW r \in Requests, ListAccess(r) \/ ListRefresh(r) PROVE Goal
  <2>1. PICK d \in SUBSET Requests : req' = [req EXCEPT ![r].doomed = d]
    BY <1>17 DEF ListAccess, ListRefresh, ListedOfGrant, KeysOfGrant,
                 Typed, TypeOK, StoresTypeOK
  <2>2. PICK label \in Quiet : pc' = [pc EXCEPT ![r] = label]
    BY <1>17 DEF ListAccess, ListRefresh, Goto
  <2>3. req[r] \in Request /\ pc[r] # "idle"
    BY <1>17, <1>k DEF ListAccess, ListRefresh
  <2>4. PICK q \in Request : q = [req[r] EXCEPT !.doomed = d]
    BY <2>3, RequestUpdates
  <2>5. q.kind = req[r].kind /\ q.grant = req[r].grant /\ req' = [req EXCEPT ![r] = q]
    BY <2>1, <2>3, <2>4 DEF Request
  <2> QED BY <1>4, <2>2, <2>3, <2>5
<1>18. ASSUME NEW r \in Requests, NEW t \in Requests,
              DeleteListedAccess(r, t) \/ DeleteListedRefresh(r, t)
       PROVE  Goal
  <2>1. req[r] \in Request /\ pc[r] \in Quiet /\ pc[r] # "idle"
    BY <1>18, <1>k DEF DeleteListedAccess, DeleteListedRefresh
  <2>2. req[r].doomed \ {t} \in SUBSET Requests
    BY <2>1 DEF Request
  <2>3. PICK q \in Request : q = [req[r] EXCEPT !.doomed = req[r].doomed \ {t}]
    BY <2>1, <2>2, RequestUpdates
  <2>4. q.kind = req[r].kind /\ q.grant = req[r].grant
    BY <2>1, <2>3 DEF Request
  <2>5. req' = [req EXCEPT ![r] = q] /\ pc' = [pc EXCEPT ![r] = pc[r]]
    BY <1>18, <1>t, <2>3 DEF DeleteListedAccess, DeleteListedRefresh
  <2> QED BY <1>4, <2>1, <2>4, <2>5
<1>19. ASSUME NEW r \in Requests,
              \/ CodeNotFound(r) \/ CodeReplayed(r) \/ CodeRejected(r)
              \/ RefreshNotFound(r) \/ RefreshRejected(r)
              \/ RetireRefresh(r) \/ RetireRefreshWrite(r)
              \/ StoreRefresh(r) \/ Respond(r)
              \/ CascadeAccess(r) \/ AccessDeleted(r)
              \/ CascadeRefresh(r) \/ RefreshDeleted(r)
              \/ RevokeAccessFind(r) \/ RevokeAccess(r) \/ RevokeRefresh(r)
              \/ Fail(r)
       PROVE  Goal
  <2>1. PICK label \in Quiet : Goto(r, label)
    BY <1>19
    DEF End, CodeNotFound, CodeReplayed, CodeRejected, RefreshNotFound, RefreshRejected,
        RetireRefresh, RetireRefreshWrite, StoreRefresh, AfterIssuance, Respond,
        CascadeAccess, AccessDeleted, AfterAccessCascade, CascadeRefresh, RefreshDeleted,
        RevokeAccessFind, Verdict, RevokeAccess, RevokeRefresh,
        Fail, SigningFails, StoreFails, ResponseLost, Ended
  <2>2. UNCHANGED req /\ pc[r] # "idle"
    BY <1>19
    DEF End, At, CodeNotFound, CodeReplayed, CodeRejected, RefreshNotFound, RefreshRejected,
        RetireRefresh, RetireRefreshWrite, StoreRefresh, Respond,
        CascadeAccess, AccessDeleted, CascadeRefresh, RefreshDeleted,
        RevokeAccessFind, RevokeAccess, RevokeRefresh,
        Fail, SigningFails, StoreFails, ResponseLost, Running
  <2> QED BY <1>5, <2>1, <2>2
<1>22. ASSUME NEW r \in Requests, Generate(r) PROVE Goal
  <2>1. PICK t \in AccessNames(r) : req' = [req EXCEPT ![r].minted = t, ![r].madeAt = now]
    BY <1>22 DEF Generate
  <2>2. /\ req[r] \in Request /\ RequestSafe("sign", req[r]) /\ t \in Requests
        /\ pc' = [pc EXCEPT ![r] = "issue"]
    BY <1>22, <1>k, NamesAreRequests DEF Generate, Goto
  <2>3. PICK q \in Request : q = [req[r] EXCEPT !.minted = t, !.madeAt = now]
    BY <1>t, <2>2, RequestUpdates
  <2>4. /\ \A k \in {"kind", "client", "grant", "scope", "entry", "originalIssuedAt", "issuedAt"} :
             q[k] = req[r][k]
        /\ req' = [req EXCEPT ![r] = q]
    BY <2>1, <2>2, <2>3 DEF Request
  <2>5. RequestSafe("issue", q)
    BY <2>2, <2>4 DEF RequestSafe
  <2> QED BY <1>3, <2>2, <2>4, <2>5 DEF Running
<1> HIDE DEF Goal
<1>20. ASSUME NEW r \in Requests, Serve(r) PROVE Goal
  BY <1>7, <1>8, <1>9, <1>10, <1>11, <1>13, <1>14, <1>15, <1>16, <1>17, <1>18, <1>19, <1>20, <1>22
  DEF Serve, RedeemStep, RotateStep, IssueStep, CascadeStep, RevokeStep
<1>21. CASE Next
  BY <1>1, <1>12, <1>19, <1>20, <1>21 DEF Next, Clock, IssueCode
<1> QED BY <1>1, <1>21 DEF vars

-----------------------------------------------------------------------------
(* The theorems.                                                           *)

\* Nothing is stored and nothing is known at the start, so all is safe.
LEMMA InitSafe == Init => Safe
  BY StoresAssumption
  DEF Init, StoresInit, Safe, CodeSafe, Running, Ended

\* Safe is preserved by every step of the endpoints.
LEMMA NextSafe ==
  ASSUME Typed, Safe, [Next]_vars
  PROVE  Typed' /\ Safe'
<1>1. Typed'
  BY NextTyped
<1>2. \A g \in Grants : CodeSafe(g)'
  BY CodesKept
<1>3. Safe'
  BY <1>2, AccessKept, RefreshKept, RequestsKept DEF Safe
<1> QED BY <1>1, <1>3

\* All that is stored and all that a request in flight has read is safe.
THEOREM SafetyInvariant == Spec => [](Typed /\ Safe)
<1>1. Init => Typed /\ Safe
  BY InitTyped, InitSafe
<1>2. Typed /\ Safe /\ [Next]_vars => (Typed /\ Safe)'
  BY NextSafe
<1> QED BY <1>1, <1>2, PTL DEF Spec

\* No token exceeds its grant: right client, granted scope, offline_access.
THEOREM TokensStayWithinGrant == Spec => []TokensWithinGrant
<1>1. Typed /\ Safe => TokensWithinGrant
  BY DEF Typed, TypeOK, StoresTypeOK, Safe, AccessSafe, RefreshSafe, TokensWithinGrant
<1> QED BY <1>1, SafetyInvariant, PTL

\* The replay of a code is detectable for as long as the code lives.
THEOREM ReplaysAreDetectable == Spec => []ReplayDetectable
<1>1. Typed /\ Safe => ReplayDetectable
  BY DEF Typed, TypeOK, StoresTypeOK, Safe, AccessSafe, RefreshSafe, ReplayDetectable
<1> QED BY <1>1, SafetyInvariant, PTL

\* Rotation never moves the end of a refresh token family.
THEOREM LifetimeIsAbsolute == Spec => []AbsoluteLifetime
<1>1. Typed /\ Safe => AbsoluteLifetime
  <2> SUFFICES ASSUME Typed, Safe, NEW t \in Requests, refresh[t] # Absent
               PROVE  \E root \in Requests :
                        /\ HasIssued(root) /\ req[root].kind = "code"
                        /\ req[root].grant = refresh[t].grant
                        /\ refresh[t].expiresAt = req[root].issuedAt + RefreshLifetime
    BY DEF AbsoluteLifetime
  <2>1. RefreshSafe(refresh[t])
    BY DEF Typed, TypeOK, StoresTypeOK, Safe
  <2> QED BY <2>1 DEF RefreshSafe, Rooted
<1> QED BY <1>1, SafetyInvariant, PTL
=============================================================================
