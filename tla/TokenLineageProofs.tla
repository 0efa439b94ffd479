------------------------- MODULE TokenLineageProofs --------------------------
(***************************************************************************)
(* Where the tokens of a grant come from, proved for any number of grants, *)
(* clients, scopes and requests, both kinds of store, and any interleaving *)
(* and failure: a spent refresh token has its successor, no token comes    *)
(* back to life, and the endpoints implement TokenLifecycle.               *)
(*                                                                         *)
(* The first part catalogues what one step may do to a request, to a       *)
(* stored token and to the record of cascades; the proofs after it cite    *)
(* the catalogue and do not split on the actions again.                    *)
(***************************************************************************)
EXTENDS TokenEndpointProofs

\* The labels a request stands at before it saved its access token.
Early == Unmade \cup {"issue"}

\* One request moves at a time.
LEMMA OthersWait ==
  ASSUME Typed, NEW r \in Requests, Arrive(r) \/ Serve(r) \/ Fail(r)
  PROVE  \A s \in Requests \ {r} : pc'[s] = pc[s] /\ req'[s] = req[s]
<1> DEFINE Goal == \A s \in Requests \ {r} : pc'[s] = pc[s] /\ req'[s] = req[s]
<1>t. /\ pc \in [Requests -> Running \cup Ended \cup {"idle"}]
      /\ req \in [Requests -> Request \cup {Absent}]
  BY DEF Typed, TypeOK
<1>g. ASSUME NEW label, Goto(r, label), UNCHANGED req PROVE Goal
  BY <1>g, <1>t DEF Goto
<1>1. CASE Arrive(r)
  BY <1>1, <1>t
  DEF Arrive, StartCode, StartRefresh, StartRevokeAccess, StartRevokeRefresh, Start, Goto
<1>2. CASE RedeemStep(r)
  BY <1>2, <1>t
  DEF RedeemStep, CodeNotFound, CodeReplayed, CodeRejected, CodeAccepted, ConsumeCode,
      ConsumeCodeRead, ConsumeCodeWrite, Recheck, End, Goto
<1>3. CASE RotateStep(r)
  BY <1>3, <1>t
  DEF RotateStep, RefreshNotFound, RefreshReplayed, RefreshRejected, RefreshAccepted,
      RetireRefresh, RetireRefreshRead, RetireRefreshWrite, End, Goto
<1>4. CASE IssueStep(r)
  BY <1>4, <1>t DEF IssueStep, Generate, StoreAccess, StoreRefresh, Respond, End, Goto
<1>5. CASE CascadeStep(r)
  BY <1>5, <1>t
  DEF CascadeStep, CascadeAccess, ListAccess, AccessDeleted, CascadeRefresh, ListRefresh,
      RefreshDeleted, DeleteListedAccess, DeleteListedRefresh, End, Goto
<1>6. CASE RevokeStep(r)
  BY <1>6, <1>t
  DEF RevokeStep, RevokeAccessFind, RevokeAccess, RevokeRefreshFind, RevokeRefresh, End, Goto
<1>7. CASE Fail(r)
  BY <1>7, <1>t DEF Fail, SigningFails, StoreFails, ResponseLost, End, Goto
<1> QED BY <1>1, <1>2, <1>3, <1>4, <1>5, <1>6, <1>7 DEF Serve

\* A request that has saved an access token has settled everything but the
\* entry it last read and its list of keys to delete.
LEMMA IssuedKept ==
  ASSUME Typed, Safe, [Next]_vars, NEW t \in Requests, HasIssued(t)
  PROVE  /\ HasIssued(t)'
         /\ req'[t].kind = req[t].kind /\ req'[t].token = req[t].token
         /\ req'[t].grant = req[t].grant /\ req'[t].client = req[t].client
         /\ req'[t].issuedAt = req[t].issuedAt
         /\ req'[t].originalIssuedAt = req[t].originalIssuedAt
<1> DEFINE Goal ==
      /\ HasIssued(t)'
      /\ req'[t].kind = req[t].kind /\ req'[t].token = req[t].token
      /\ req'[t].grant = req[t].grant /\ req'[t].client = req[t].client
      /\ req'[t].issuedAt = req[t].issuedAt
      /\ req'[t].originalIssuedAt = req[t].originalIssuedAt
<1> SUFFICES Goal
  OBVIOUS
<1>t. /\ req \in [Requests -> Request \cup {Absent}]
      /\ req[t] \in Request /\ req[t] # Absent
      /\ req[t].issuedAt # Absent
      /\ pc[t] \notin Early /\ Knows(pc[t], req[t])
  <2>1. req[t] # Absent /\ req[t].issuedAt # Absent
    BY DEF HasIssued
  <2>2. req \in [Requests -> Request \cup {Absent}] /\ req[t] \in Request
    BY <2>1 DEF Typed, TypeOK
  <2>3. pc[t] # "idle"
    BY <2>1 DEF Typed, Control
  <2>4. pc[t] \in Running \cup Ended
    BY <2>3 DEF Typed, TypeOK
  <2>5. RequestSafe(pc[t], req[t])
    BY <2>2, <2>4 DEF Safe
  <2>6. pc[t] \notin Early
    BY <2>1, <2>3, <2>5 DEF RequestSafe, Early, Unmade
  <2> QED BY <2>1, <2>2, <2>6 DEF Typed, Control
<1>1. CASE req'[t] = req[t]
  BY <1>1 DEF HasIssued
<1>2. ASSUME NEW e \in CodeEntry \cup RefreshEntry \cup {Absent},
             req' = [req EXCEPT ![t].entry = e] PROVE Goal
  <2>1. req'[t] = [req[t] EXCEPT !.entry = e]
    BY <1>2, <1>t
  <2>2. req'[t] \in Request
    BY <2>1, <1>t, RequestUpdates
  <2> QED BY <2>1, <2>2, <1>t, EndpointAssumption DEF HasIssued, Request
<1>3. ASSUME NEW d \in SUBSET Requests, req' = [req EXCEPT ![t].doomed = d] PROVE Goal
  <2>1. req'[t] = [req[t] EXCEPT !.doomed = d]
    BY <1>3, <1>t
  <2>2. req'[t] \in Request
    BY <2>1, <1>t, RequestUpdates
  <2> QED BY <2>1, <2>2, <1>t, EndpointAssumption DEF HasIssued, Request
<1> HIDE DEF Goal
<1>4. CASE UNCHANGED req
  BY <1>1, <1>4
<1>5. ASSUME NEW r \in Requests, r # t, Arrive(r) \/ Serve(r) \/ Fail(r) PROVE Goal
  BY <1>1, <1>5, OthersWait
<1>6. CASE Arrive(t)
  <2>1. pc[t] = "idle"
    BY <1>6 DEF Arrive, StartCode, StartRefresh, StartRevokeAccess, StartRevokeRefresh, Start
  <2> QED BY <1>t, <2>1 DEF Early, Unmade
<1>7. CASE Fail(t)
  BY <1>4, <1>7 DEF Fail, SigningFails, StoreFails, ResponseLost, End
<1>8. CASE RedeemStep(t)
  <2>1. UNCHANGED req \/ pc[t] \in Early
    BY <1>8
    DEF RedeemStep, CodeNotFound, CodeReplayed, CodeRejected, CodeAccepted, ConsumeCode,
        ConsumeCodeRead, ConsumeCodeWrite, Recheck, End, At, Early, Unmade
  <2> QED BY <1>4, <1>t, <2>1
<1>9. CASE RotateStep(t)
  <2>1. CASE RetireRefreshRead(t)
    <3>1. req[t].token \in Requests /\ req' = [req EXCEPT ![t].entry = FindRefresh(t)]
      BY <1>t, <2>1 DEF RetireRefreshRead, At, Knows
    <3>2. FindRefresh(t) \in RefreshEntry \cup {Absent}
      BY <3>1, RefreshStoreTyped DEF FindRefresh, Typed, TypeOK, StoresTypeOK
    <3> QED BY <1>2, <3>1, <3>2
  <2>2. CASE ~RetireRefreshRead(t)
    <3>1. UNCHANGED req \/ pc[t] \in Early
      BY <1>9, <2>2
      DEF RotateStep, RefreshNotFound, RefreshReplayed, RefreshRejected, RefreshAccepted,
          RetireRefresh, RetireRefreshWrite, End, At, Early, Unmade
    <3> QED BY <1>4, <1>t, <3>1
  <2> QED BY <2>1, <2>2
<1>10. CASE IssueStep(t)
  <2>1. UNCHANGED req \/ pc[t] \in Early
    BY <1>10 DEF IssueStep, Generate, StoreAccess, StoreRefresh, Respond, End, Early, Unmade
  <2> QED BY <1>4, <1>t, <2>1
<1>11. CASE CascadeStep(t)
  <2>1. UNCHANGED req \/ \E d \in SUBSET Requests : req' = [req EXCEPT ![t].doomed = d]
    <3>1. ASSUME NEW u \in Requests, DeleteListedAccess(t, u) \/ DeleteListedRefresh(t, u)
          PROVE  /\ req' = [req EXCEPT ![t].doomed = req[t].doomed \ {u}]
                 /\ req[t].doomed \ {u} \in SUBSET Requests
      BY <3>1, <1>t DEF DeleteListedAccess, DeleteListedRefresh, Request
    <3>2. CASE \E u \in Requests : DeleteListedAccess(t, u) \/ DeleteListedRefresh(t, u)
      BY <3>1, <3>2
    <3>3. CASE ListAccess(t) \/ ListRefresh(t)
      BY <3>3 DEF ListAccess, ListRefresh, ListedOfGrant, KeysOfGrant, Typed, TypeOK, StoresTypeOK
    <3>4. CASE CascadeAccess(t) \/ AccessDeleted(t) \/ CascadeRefresh(t) \/ RefreshDeleted(t)
      BY <3>4 DEF CascadeAccess, AccessDeleted, CascadeRefresh, RefreshDeleted, End
    <3> QED BY <1>11, <3>2, <3>3, <3>4 DEF CascadeStep
  <2> QED BY <1>3, <1>4, <2>1
<1>12. CASE RevokeStep(t)
  <2>1. UNCHANGED req \/ pc[t] \in Early
    BY <1>12 DEF RevokeStep, RevokeAccessFind, RevokeAccess, RevokeRefreshFind,
                 RevokeRefresh, End, At, Early, Unmade
  <2> QED BY <1>4, <1>t, <2>1
<1>13. CASE Clock \/ \E g \in Grants, client \in Clients, scope \in SUBSET Scopes :
                        IssueCode(g, client, scope)
  BY <1>4, <1>13 DEF Clock, IssueCode
<1>14. CASE UNCHANGED vars
  BY <1>4, <1>14 DEF vars
<1>15. ASSUME NEW r \in Requests, Arrive(r) \/ Serve(r) \/ Fail(r) PROVE Goal
  <2>1. CASE r # t
    BY <1>5, <1>15, <2>1
  <2>2. CASE r = t
    BY <1>6, <1>7, <1>8, <1>9, <1>10, <1>11, <1>12, <1>15, <2>2 DEF Serve
  <2> QED BY <2>1, <2>2
<1> QED BY <1>13, <1>14, <1>15 DEF Next

\* A request moves back to none of the labels before its tokens are made, and
\* stands at storeRefresh only right after it.
LEMMA LabelsAdvance ==
  ASSUME Typed, [Next]_vars, NEW t \in Requests
  PROVE  /\ pc'[t] \in Unmade => pc[t] \in Unmade
         /\ pc'[t] = "issue" => pc[t] = "issue" \/ Generate(t)
         /\ pc'[t] = "storeRefresh" => pc[t] = "storeRefresh" \/ StoreAccess(t)
<1> DEFINE Goal ==
      /\ pc'[t] \in Unmade => pc[t] \in Unmade
      /\ pc'[t] = "issue" => pc[t] = "issue" \/ Generate(t)
      /\ pc'[t] = "storeRefresh" => pc[t] = "storeRefresh" \/ StoreAccess(t)
<1>t. pc \in [Requests -> Running \cup Ended \cup {"idle"}]
  BY DEF Typed, TypeOK
<1>1. CASE pc'[t] = pc[t]
  BY <1>1
<1>2. CASE pc[t] \in Unmade /\ pc'[t] \notin {"issue", "storeRefresh"}
  BY <1>2
<1>3. CASE pc'[t] \notin Unmade \cup {"issue", "storeRefresh"}
  BY <1>3
<1>4. CASE Arrive(t)
  <2>1. pc[t] = "idle" /\ pc'[t] = "find"
    BY <1>4, <1>t
    DEF Arrive, StartCode, StartRefresh, StartRevokeAccess, StartRevokeRefresh, Start, Goto
  <2> QED BY <1>2, <2>1 DEF Unmade
<1>5. CASE RedeemStep(t)
  <2>1. pc[t] \in Unmade /\ pc'[t] \notin {"issue", "storeRefresh"}
    BY <1>5, <1>t
    DEF RedeemStep, CodeNotFound, CodeReplayed, CodeRejected, CodeAccepted, ConsumeCode,
        ConsumeCodeRead, ConsumeCodeWrite, Recheck, End, Goto, At, Unmade
  <2> QED BY <1>2, <2>1
<1>6. CASE RotateStep(t)
  <2>1. \/ pc[t] \in Unmade /\ pc'[t] \notin {"issue", "storeRefresh"}
        \/ pc'[t] \in {"respond", "markRetired"}
    BY <1>6, <1>t
    DEF RotateStep, RefreshNotFound, RefreshReplayed, RefreshRejected, RefreshAccepted,
        RetireRefresh, RetireRefreshRead, RetireRefreshWrite, End, Goto, At, Unmade
  <2> QED BY <1>2, <1>3, <2>1 DEF Unmade
<1>11. CASE Generate(t)
  <2>1. pc[t] = "sign" /\ pc'[t] = "issue"
    BY <1>11, <1>t DEF Generate, Goto
  <2> QED BY <1>11, <2>1 DEF Unmade
<1>7. CASE StoreAccess(t)
  <2>1. pc'[t] \in {"storeRefresh", "retire", "respond"}
    BY <1>7, <1>t DEF StoreAccess, AfterIssuance, Goto
  <2> QED BY <1>7, <2>1 DEF Unmade
<1>8. CASE StoreRefresh(t) \/ Respond(t) \/ CascadeStep(t) \/ Fail(t)
  <2>1. \/ pc'[t] = pc[t]
        \/ pc'[t] \in {"retire", "respond", "done", "replayed", "lost", "cut", "deleteAccess",
                       "cascadeRefresh", "deleteRefresh"}
    BY <1>8, <1>t
    DEF StoreRefresh, AfterIssuance, Respond, CascadeStep, CascadeAccess, ListAccess,
        AccessDeleted, CascadeRefresh, ListRefresh, RefreshDeleted, DeleteListedAccess,
        DeleteListedRefresh, AfterAccessCascade, Fail, SigningFails, StoreFails,
        ResponseLost, End, Goto
  <2> QED BY <1>1, <1>3, <2>1 DEF Unmade
<1>9. CASE RevokeStep(t)
  <2>1. pc'[t] \in {"done", "denied", "delete", "cascadeAccess"}
    BY <1>9, <1>t
    DEF RevokeStep, RevokeAccessFind, RevokeAccess, RevokeRefreshFind, RevokeRefresh,
        Verdict, End, Goto
  <2> QED BY <1>3, <2>1 DEF Unmade
<1>10. ASSUME NEW r \in Requests, Arrive(r) \/ Serve(r) \/ Fail(r) PROVE Goal
  <2>1. CASE r # t
    BY <1>1, <1>10, <2>1, OthersWait
  <2>2. CASE r = t
    BY <1>4, <1>5, <1>6, <1>7, <1>8, <1>9, <1>10, <1>11, <2>2 DEF Serve, IssueStep
  <2> QED BY <2>1, <2>2
<1> QED BY <1>1, <1>10 DEF Next, Clock, IssueCode, vars

\* An access token is stored by a request that made it, and by no other.
LEMMA AccessSteps ==
  ASSUME Typed, [Next]_vars, NEW t \in Requests
  PROVE  \/ access'[t] \in {access[t], Absent}
         \/ \E r \in Requests :
              StoreAccess(r) /\ req[r].minted = t /\ access'[t] = IssuedAccess(r)
<1> DEFINE Goal ==
      \/ access'[t] \in {access[t], Absent}
      \/ \E r \in Requests :
           StoreAccess(r) /\ req[r].minted = t /\ access'[t] = IssuedAccess(r)
<1> SUFFICES Goal
  OBVIOUS
<1>t. access \in [Requests -> AccessEntry \cup {Absent}]
  BY DEF Typed, TypeOK, StoresTypeOK
<1>1. CASE UNCHANGED access
  BY <1>1
<1>2. ASSUME NEW r \in Requests, Arrive(r) \/ RedeemStep(r) \/ RotateStep(r) \/ Fail(r)
      PROVE  Goal
  <2>1. UNCHANGED access
    BY <1>2
    DEF Arrive, StartCode, StartRefresh, StartRevokeAccess, StartRevokeRefresh, Start,
        RedeemStep, CodeNotFound, CodeReplayed, CodeRejected, CodeAccepted, ReadCode,
        ConsumeCode, ConsumeCodeRead, ConsumeCodeWrite, Recheck,
        RotateStep, RefreshNotFound, RefreshReplayed, RefreshRejected, RefreshAccepted,
        ReadRefresh, RetireRefresh, RetireRefreshRead, RetireRefreshWrite,
        Fail, SigningFails, StoreFails, ResponseLost
  <2> QED BY <1>1, <2>1
<1>3. ASSUME NEW r \in Requests, IssueStep(r) PROVE Goal
  BY <1>3, <1>t DEF IssueStep, Generate, StoreAccess, StoreRefresh, Respond, AfterSet
<1>4. ASSUME NEW r \in Requests, CascadeStep(r) PROVE Goal
  BY <1>4, <1>t
  DEF CascadeStep, CascadeAccess, ListAccess, AccessDeleted, CascadeRefresh, ListRefresh,
      RefreshDeleted, DeleteListedAccess, DeleteListedRefresh, AfterRevokeByGrant, AfterDelete
<1>5. ASSUME NEW r \in Requests, RevokeStep(r) PROVE Goal
  BY <1>5, <1>t
  DEF RevokeStep, RevokeAccessFind, RevokeAccess, RevokeRefreshFind, RevokeRefresh,
      ReadRefresh, AfterGet, Fetch, AfterDelete
<1> HIDE DEF Goal
<1>6. ASSUME NEW r \in Requests, Arrive(r) \/ Serve(r) \/ Fail(r) PROVE Goal
  BY <1>2, <1>3, <1>4, <1>5, <1>6 DEF Serve
<1> QED BY <1>1, <1>6 DEF Next, Clock, Tick, IssueCode, vars

\* The ways a refresh token leaves its store.
Evicted(t) == refresh[t].expiresAt <= now

Revoked(t) ==
  \E r \in Requests :
    \/ CascadeRefresh(r) /\ refresh[t].grant = req[r].grant
    \/ DeleteListedRefresh(r, t)
    \/ RevokeRefresh(r) /\ req[r].token = t

\* A refresh token is stored by the request that mints it, is marked used by a
\* request that presented it, and leaves the store evicted or revoked.
LEMMA RefreshSteps ==
  ASSUME Typed, [Next]_vars, NEW t \in Requests
  PROVE  \/ refresh'[t] = refresh[t]
         \/ refresh[t] # Absent /\ refresh'[t] = Absent /\ (Evicted(t) \/ Revoked(t))
         \/ StoreRefresh(t) /\ refresh'[t] = IssuedRefresh(t)
         \/ \E r \in Requests :
              /\ RetireRefresh(r) /\ req[r].token = t
              /\ refresh[t] # Absent /\ refresh'[t] = Spent(refresh[t])
         \/ \E r \in Requests :
              /\ RetireRefreshWrite(r) /\ req[r].token = t
              /\ refresh'[t] = Spent(req[r].entry)
<1> DEFINE Goal ==
      \/ refresh'[t] = refresh[t]
      \/ refresh[t] # Absent /\ refresh'[t] = Absent /\ (Evicted(t) \/ Revoked(t))
      \/ StoreRefresh(t) /\ refresh'[t] = IssuedRefresh(t)
      \/ \E r \in Requests :
           /\ RetireRefresh(r) /\ req[r].token = t
           /\ refresh[t] # Absent /\ refresh'[t] = Spent(refresh[t])
      \/ \E r \in Requests :
           /\ RetireRefreshWrite(r) /\ req[r].token = t
           /\ refresh'[t] = Spent(req[r].entry)
<1> SUFFICES Goal
  OBVIOUS
<1>t. refresh \in [Requests -> RefreshEntry \cup {Absent}]
  BY DEF Typed, TypeOK, StoresTypeOK
<1>1. CASE UNCHANGED refresh
  BY <1>1
<1>2. ASSUME NEW r \in Requests,
             \/ Arrive(r) \/ RedeemStep(r) \/ Fail(r)
             \/ Generate(r) \/ StoreAccess(r) \/ Respond(r)
             \/ CascadeAccess(r) \/ ListAccess(r) \/ AccessDeleted(r)
             \/ ListRefresh(r) \/ RefreshDeleted(r)
             \/ (\E u \in Requests : DeleteListedAccess(r, u))
             \/ RevokeAccessFind(r) \/ RevokeAccess(r)
      PROVE  Goal
  <2>1. UNCHANGED refresh
    BY <1>2
    DEF Arrive, StartCode, StartRefresh, StartRevokeAccess, StartRevokeRefresh, Start,
        RedeemStep, CodeNotFound, CodeReplayed, CodeRejected, CodeAccepted, ReadCode,
        ConsumeCode, ConsumeCodeRead, ConsumeCodeWrite, Recheck,
        Generate, StoreAccess, Respond,
        CascadeAccess, ListAccess, DeleteListedAccess, AccessDeleted,
        ListRefresh, RefreshDeleted, RevokeAccessFind, RevokeAccess,
        Fail, SigningFails, StoreFails, ResponseLost
  <2> QED BY <1>1, <2>1
<1>3. ASSUME NEW r \in Requests,
             \/ RefreshNotFound(r) \/ RefreshReplayed(r) \/ RefreshRejected(r)
             \/ RefreshAccepted(r) \/ RetireRefreshRead(r) \/ RevokeRefreshFind(r)
      PROVE  Goal
  <2>1. refresh' = AfterGet(refresh, req[r].token)
    BY <1>3 DEF RefreshNotFound, RefreshReplayed, RefreshRejected, RefreshAccepted,
                RetireRefreshRead, RevokeRefreshFind, ReadRefresh
  <2> QED BY <1>t, <2>1 DEF AfterGet, Fetch, Evicted
<1>4. ASSUME NEW r \in Requests, StoreRefresh(r) PROVE Goal
  BY <1>4, <1>t DEF StoreRefresh, AfterSet
<1>5. ASSUME NEW r \in Requests, RetireRefresh(r) PROVE Goal
  <2>1. refresh' = AfterConsume(refresh, req[r].token)
    BY <1>5 DEF RetireRefresh
  <2>2. CASE req[r].token = t
    BY <1>5, <1>t, <2>1, <2>2 DEF AfterConsume
  <2>3. CASE req[r].token # t
    BY <1>t, <2>1, <2>3 DEF AfterConsume
  <2> QED BY <2>2, <2>3
<1>6. ASSUME NEW r \in Requests, RetireRefreshWrite(r) PROVE Goal
  BY <1>6, <1>t DEF RetireRefreshWrite, AfterSet
<1>7. ASSUME NEW r \in Requests, CascadeRefresh(r) PROVE Goal
  BY <1>7, <1>t DEF CascadeRefresh, AfterRevokeByGrant, KeysOfGrant, Revoked
<1>8. ASSUME NEW r \in Requests, NEW u \in Requests, DeleteListedRefresh(r, u) PROVE Goal
  BY <1>8, <1>t DEF DeleteListedRefresh, AfterDelete, Revoked
<1>9. ASSUME NEW r \in Requests, RevokeRefresh(r) PROVE Goal
  BY <1>9, <1>t DEF RevokeRefresh, AfterDelete, Revoked
<1> HIDE DEF Goal
<1>10. ASSUME NEW r \in Requests, Arrive(r) \/ Serve(r) \/ Fail(r) PROVE Goal
  BY <1>2, <1>3, <1>4, <1>5, <1>6, <1>7, <1>8, <1>9, <1>10
  DEF Serve, RotateStep, IssueStep, CascadeStep, RevokeStep
<1> QED BY <1>1, <1>10 DEF Next, Clock, Tick, IssueCode, vars

\* A request past its find keeps its kind, client, scope and grant and the token
\* it presented, whatever it reads, and makes its tokens once.
LEMMA GrantKept ==
  ASSUME Typed, [Next]_vars, NEW t \in Requests, pc[t] \notin {"idle", "find"}
  PROVE  /\ req'[t] \in Request /\ req'[t] # Absent
         /\ req'[t].kind = req[t].kind /\ req'[t].grant = req[t].grant
         /\ req'[t].token = req[t].token
         /\ req'[t].client = req[t].client /\ req'[t].scope = req[t].scope
         /\ pc[t] # "sign" =>
              req'[t].minted = req[t].minted /\ req'[t].madeAt = req[t].madeAt
<1> DEFINE Names == /\ req'[t].kind = req[t].kind /\ req'[t].grant = req[t].grant
                    /\ req'[t].token = req[t].token
                    /\ req'[t].client = req[t].client /\ req'[t].scope = req[t].scope
                    /\ pc[t] # "sign" =>
                         req'[t].minted = req[t].minted /\ req'[t].madeAt = req[t].madeAt
           Goal == req'[t] \in Request /\ req'[t] # Absent /\ Names
<1> SUFFICES Goal
  OBVIOUS
<1>t. /\ pc \in [Requests -> Running \cup Ended \cup {"idle"}]
      /\ req \in [Requests -> Request \cup {Absent}]
      /\ req[t] \in Request /\ req[t] # Absent /\ Absent \notin Request
  BY EndpointAssumption DEF Typed, TypeOK, Control
<1>1. CASE req'[t] = req[t]
  BY <1>1, <1>t
<1>2. ASSUME \/ pc[t] = "sign" /\ \E m, i : req'[t] = [req[t] EXCEPT !.minted = m, !.madeAt = i]
             \/ \E e : req'[t] = [req[t] EXCEPT !.entry = e]
             \/ \E d : req'[t] = [req[t] EXCEPT !.doomed = d]
             \/ \E i, o : req'[t] = [req[t] EXCEPT !.issuedAt = i, !.originalIssuedAt = o],
             pc'[t] # "idle"
      PROVE  Goal
  <2>1. Names
    <3>1. ASSUME pc[t] = "sign", NEW m, NEW i,
                 req'[t] = [req[t] EXCEPT !.minted = m, !.madeAt = i]
          PROVE  Names
      BY <3>1, <1>t DEF Request
    <3>2. ASSUME NEW e, req'[t] = [req[t] EXCEPT !.entry = e]
          PROVE  Names
      BY <3>2, <1>t DEF Request
    <3>3. ASSUME NEW d, req'[t] = [req[t] EXCEPT !.doomed = d]
          PROVE  Names
      BY <3>3, <1>t DEF Request
    <3>4. ASSUME NEW i, NEW o,
                 req'[t] = [req[t] EXCEPT !.issuedAt = i, !.originalIssuedAt = o]
          PROVE  Names
      BY <3>4, <1>t DEF Request
    <3> QED BY <3>1, <3>2, <3>3, <3>4, <1>2
  <2>2. req'[t] \in Request /\ req'[t] # Absent
    BY <1>2, <1>t, NextTyped DEF Typed, TypeOK, Control
  <2> QED BY <2>1, <2>2
<1>3. CASE RedeemStep(t)
  <2>1. UNCHANGED req \/ (\E e : req'[t] = [req[t] EXCEPT !.entry = e])
    BY <1>3, <1>t
    DEF RedeemStep, CodeNotFound, CodeReplayed, CodeRejected, CodeAccepted, ConsumeCode,
        ConsumeCodeRead, ConsumeCodeWrite, Recheck, End, At
  <2>2. pc'[t] # "idle"
    BY <1>3, <1>t
    DEF RedeemStep, CodeNotFound, CodeReplayed, CodeRejected, CodeAccepted, ConsumeCode,
        ConsumeCodeRead, ConsumeCodeWrite, Recheck, End, Goto
  <2> HIDE DEF Goal
  <2> QED BY <1>1, <1>2, <2>1, <2>2
<1>4. CASE RotateStep(t)
  <2>1. UNCHANGED req \/ (\E e : req'[t] = [req[t] EXCEPT !.entry = e])
    BY <1>4, <1>t
    DEF RotateStep, RefreshNotFound, RefreshReplayed, RefreshRejected, RefreshAccepted,
        RetireRefresh, RetireRefreshRead, RetireRefreshWrite, End, At
  <2>2. pc'[t] # "idle"
    BY <1>4, <1>t
    DEF RotateStep, RefreshNotFound, RefreshReplayed, RefreshRejected, RefreshAccepted,
        RetireRefresh, RetireRefreshRead, RetireRefreshWrite, End, Goto
  <2> HIDE DEF Goal
  <2> QED BY <1>1, <1>2, <2>1, <2>2
<1>5. CASE IssueStep(t)
  <2>1. \/ UNCHANGED req
        \/ \E i, o : req'[t] = [req[t] EXCEPT !.issuedAt = i, !.originalIssuedAt = o]
        \/ pc[t] = "sign" /\ \E m, i : req'[t] = [req[t] EXCEPT !.minted = m, !.madeAt = i]
    <3>3. CASE Generate(t)
      <4>1. PICK m : req' = [req EXCEPT ![t].minted = m, ![t].madeAt = now]
        BY <3>3 DEF Generate
      <4>2. req'[t] = [req[t] EXCEPT !.minted = m, !.madeAt = now]
        BY <4>1, <1>t
      <4> QED BY <3>3, <4>2 DEF Generate
    <3>1. CASE StoreAccess(t)
      <4>1. req'[t] = [req[t] EXCEPT !.issuedAt = now,
                                     !.originalIssuedAt = OriginalIssuedAt(t)]
        BY <3>1, <1>t DEF StoreAccess
      <4> QED BY <4>1
    <3>2. CASE StoreRefresh(t) \/ Respond(t)
      BY <3>2 DEF StoreRefresh, Respond, End
    <3> QED BY <1>5, <3>1, <3>2, <3>3 DEF IssueStep
  <2>2. pc'[t] # "idle"
    BY <1>5, <1>t DEF IssueStep, Generate, StoreAccess, StoreRefresh, AfterIssuance, Respond, End, Goto
  <2> HIDE DEF Goal
  <2> QED BY <1>1, <1>2, <2>1, <2>2
<1>6. CASE CascadeStep(t)
  <2>1. UNCHANGED req \/ \E d : req'[t] = [req[t] EXCEPT !.doomed = d]
    <3>1. ASSUME NEW u \in Requests, DeleteListedAccess(t, u) \/ DeleteListedRefresh(t, u)
          PROVE  req'[t] = [req[t] EXCEPT !.doomed = req[t].doomed \ {u}]
      BY <3>1, <1>t DEF DeleteListedAccess, DeleteListedRefresh
    <3>2. CASE ListAccess(t) \/ ListRefresh(t)
      BY <3>2, <1>t DEF ListAccess, ListRefresh
    <3>3. CASE CascadeAccess(t) \/ AccessDeleted(t) \/ CascadeRefresh(t) \/ RefreshDeleted(t)
      BY <3>3 DEF CascadeAccess, AccessDeleted, CascadeRefresh, RefreshDeleted, End
    <3> QED BY <1>6, <3>1, <3>2, <3>3 DEF CascadeStep
  <2>2. pc'[t] # "idle"
    BY <1>6, <1>t
    DEF CascadeStep, CascadeAccess, ListAccess, AccessDeleted, CascadeRefresh, ListRefresh,
        RefreshDeleted, DeleteListedAccess, DeleteListedRefresh, AfterAccessCascade, End, Goto
  <2> HIDE DEF Goal
  <2> QED BY <1>1, <1>2, <2>1, <2>2
<1>7. CASE RevokeStep(t) \/ Fail(t)
  <2>1. UNCHANGED req
    BY <1>7 DEF RevokeStep, RevokeAccessFind, RevokeAccess, RevokeRefreshFind, RevokeRefresh,
                Fail, SigningFails, StoreFails, ResponseLost, End, At
  <2> QED BY <1>1, <2>1
<1>8. CASE Arrive(t)
  BY <1>8 DEF Arrive, StartCode, StartRefresh, StartRevokeAccess, StartRevokeRefresh, Start
<1> HIDE DEF Goal
<1>9. ASSUME NEW r \in Requests, Arrive(r) \/ Serve(r) \/ Fail(r) PROVE Goal
  <2>1. CASE r # t
    BY <1>1, <1>9, <2>1, OthersWait
  <2>2. CASE r = t
    BY <1>3, <1>4, <1>5, <1>6, <1>7, <1>8, <1>9, <2>2 DEF Serve
  <2> QED BY <2>1, <2>2
<1> QED BY <1>1, <1>9 DEF Next, Clock, IssueCode, vars

\* Time does not run backwards.
LEMMA ClockAdvances ==
  ASSUME Typed, [Next]_vars
  PROVE  now \in Nat /\ now' \in Nat /\ now <= now'
<1>1. now \in Nat
  BY DEF Typed, TypeOK, StoresTypeOK
<1>2. ASSUME NEW r \in Requests, Arrive(r) \/ Serve(r) \/ Fail(r) PROVE UNCHANGED now
  BY <1>2
  DEF Arrive, StartCode, StartRefresh, StartRevokeAccess, StartRevokeRefresh, Start,
      Serve, RedeemStep, CodeNotFound, CodeReplayed, CodeRejected, CodeAccepted, ReadCode,
      ConsumeCode, ConsumeCodeRead, ConsumeCodeWrite, Recheck,
      RotateStep, RefreshNotFound, RefreshReplayed, RefreshRejected, RefreshAccepted,
      ReadRefresh, RetireRefresh, RetireRefreshRead, RetireRefreshWrite,
      IssueStep, Generate, StoreAccess, StoreRefresh, Respond,
      CascadeStep, CascadeAccess, ListAccess, DeleteListedAccess, AccessDeleted,
      CascadeRefresh, ListRefresh, DeleteListedRefresh, RefreshDeleted,
      RevokeStep, RevokeAccessFind, RevokeAccess, RevokeRefreshFind, RevokeRefresh,
      Fail, SigningFails, StoreFails, ResponseLost
<1>3. now' = now \/ now' = now + 1
  BY <1>2 DEF Next, Clock, Tick, IssueCode, vars
<1> QED BY <1>1, <1>3

-----------------------------------------------------------------------------
(* The lineage of a token: the request that minted it says of which grant  *)
(* it is and when its family began, and never unsays it.                   *)

\* The request has saved its access token, for a code of this grant.
Of(t, g) == HasIssued(t) /\ req[t].grant = g

\* It has saved its refresh token too, or will not save one.
Born(t) == HasIssued(t) /\ pc[t] # "storeRefresh"

\* The refresh token entry is one that request t may have stored.
Descends(t, e) ==
  /\ Born(t)
  /\ e.grant = req[t].grant
  /\ e.originalIssuedAt = req[t].originalIssuedAt

\* What a request in flight knows of the tokens it has read.
LineageOf(label, q) ==
  /\ q.kind = "refresh" /\ (label \in {"sign", "issue"} \/ q.issuedAt # Absent) =>
       /\ Of(q.token, q.grant)
       /\ req[q.token].originalIssuedAt = q.originalIssuedAt
  /\ label \in {"sign", "issue"} /\ q.kind = "refresh" => OfflineAccess \in q.entry.scope
  /\ label = "markRetired" => Descends(q.token, q.entry)
  /\ label = "delete" /\ q.kind = "revokeRefresh" => Of(q.token, q.grant)
  /\ label = "deleteRefresh" => \A t \in q.doomed : Of(t, q.grant)
  /\ label \in {"storeRefresh", "retire", "markRetired"} => q.issuedAt # Absent
  /\ label = "find" /\ q.kind # "code" => q.grant = Absent
  /\ q.issuedAt # Absent => q.grant \in Grants /\ q.originalIssuedAt \in Nat

\* The access token of q is the one that t made first, in the same second.
MadeAs(q, t) ==
  /\ pc[q] \notin Unmade
  /\ q = t \/ AccessTokenFormat = "jwt"
  /\ req[q].madeAt \in Nat /\ req[q].madeAt <= now
  /\ req[t] # Absent /\ req[t].minted = t
  /\ req[q].madeAt = req[t].madeAt
  /\ req[q].client = req[t].client /\ req[q].scope = req[t].scope

\* Access tokens are stored under the names of the requests that made them first.
Named ==
  /\ \A q \in Requests, t \in Requests :
       req[q] # Absent /\ req[q].minted = t => MadeAs(q, t)
  /\ \A t \in Requests : access[t] # Absent =>
       /\ req[t] # Absent /\ req[t].minted = t
       /\ AccessTokenFormat = "jwt" \/ HasIssued(t)

Lineage ==
  /\ Named
  /\ \A t \in Requests, e \in RefreshEntry : refresh[t] = e => Descends(t, e)
  /\ \A r \in Requests, label \in Running \cup Ended, q \in Request :
       pc[r] = label /\ req[r] = q => LineageOf(label, q)

\* A request that has moved past the labels before its access token has one.
LEMMA IssuedIsLate ==
  ASSUME Typed, Safe, NEW t \in Requests, HasIssued(t)
  PROVE  pc[t] \notin Early /\ req[t] \in Request /\ req[t] # Absent
<1>1. req[t] # Absent /\ req[t].issuedAt # Absent
  BY DEF HasIssued
<1>2. pc[t] \in Running \cup Ended /\ req[t] \in Request /\ pc[t] # "idle"
  BY <1>1 DEF Typed, TypeOK, Control
<1>3. RequestSafe(pc[t], req[t])
  BY <1>2 DEF Safe
<1> QED BY <1>1, <1>2, <1>3 DEF RequestSafe, Early, Unmade

\* Descent is for good.
LEMMA DescentKept ==
  ASSUME Typed, Safe, [Next]_vars, NEW t \in Requests
  PROVE  /\ \A g \in Grants : Of(t, g) => Of(t, g)'
         /\ Born(t) => Born(t)'
         /\ \A e \in RefreshEntry : Descends(t, e) => Descends(t, e)'
<1>1. CASE ~HasIssued(t)
  BY <1>1 DEF Of, Born, Descends
<1>2. CASE HasIssued(t)
  <2>1. /\ HasIssued(t)'
        /\ req'[t].grant = req[t].grant
        /\ req'[t].originalIssuedAt = req[t].originalIssuedAt
    BY <1>2, IssuedKept
  <2>2. Born(t) => Born(t)'
    <3>1. pc[t] \notin Early
      BY <1>2, IssuedIsLate
    <3>2. pc'[t] = "storeRefresh" => pc[t] = "storeRefresh"
      BY <3>1, LabelsAdvance DEF StoreAccess, Early, Unmade
    <3> QED BY <2>1, <3>2 DEF Born
  <2> QED BY <2>1, <2>2 DEF Of, Descends
<1> QED BY <1>1, <1>2

\* What a request in flight knows stays true while it waits.
LEMMA LineageWaits ==
  ASSUME Typed, Safe, [Next]_vars,
         NEW label \in Running \cup Ended, NEW q \in Request,
         Knows(label, q), LineageOf(label, q)
  PROVE  LineageOf(label, q)'
<1>1. q.kind # "code" => q.token \in Requests
  BY DEF Knows
<1>2. \A t \in Requests : HasIssued(t) =>
        req'[t].grant = req[t].grant /\ req'[t].originalIssuedAt = req[t].originalIssuedAt
  BY IssuedKept
<1>3. \A t \in Requests : HasIssued(t) => HasIssued(t)'
  BY IssuedKept
<1>4. \A t \in Requests : Of(t, q.grant) => Of(t, q.grant)'
  BY <1>2, <1>3 DEF Of
<1>5. q.kind = "refresh" /\ (label \in {"sign", "issue"} \/ q.issuedAt # Absent) =>
        /\ Of(q.token, q.grant)'
        /\ req'[q.token].originalIssuedAt = q.originalIssuedAt
  <2> SUFFICES ASSUME q.kind = "refresh", label \in {"sign", "issue"} \/ q.issuedAt # Absent
               PROVE  /\ Of(q.token, q.grant)'
                      /\ req'[q.token].originalIssuedAt = q.originalIssuedAt
    OBVIOUS
  <2>1. /\ Of(q.token, q.grant) /\ q.token \in Requests
        /\ req[q.token].originalIssuedAt = q.originalIssuedAt
    BY <1>1 DEF LineageOf
  <2> QED BY <1>2, <1>4, <2>1 DEF Of
<1>6. label = "markRetired" => Descends(q.token, q.entry)'
  <2> SUFFICES ASSUME label = "markRetired" PROVE Descends(q.token, q.entry)'
    OBVIOUS
  <2>1. q.token \in Requests /\ q.entry \in RefreshEntry /\ Descends(q.token, q.entry)
    BY <1>1 DEF Knows, LineageOf
  <2> QED BY <2>1, DescentKept
<1>7. label = "delete" /\ q.kind = "revokeRefresh" => Of(q.token, q.grant)'
  BY <1>1, <1>4 DEF LineageOf
<1>8. label = "deleteRefresh" => \A t \in q.doomed : Of(t, q.grant)'
  BY <1>4 DEF LineageOf, Request
<1>9. /\ label \in {"sign", "issue"} /\ q.kind = "refresh" => OfflineAccess \in q.entry.scope
      /\ label \in {"storeRefresh", "retire", "markRetired"} => q.issuedAt # Absent
      /\ label = "find" /\ q.kind # "code" => q.grant = Absent
      /\ q.issuedAt # Absent => q.grant \in Grants /\ q.originalIssuedAt \in Nat
  BY DEF LineageOf
<1> QED BY <1>5, <1>6, <1>7, <1>8, <1>9 DEF LineageOf

\* Marking an entry used changes nothing else of it.
LEMMA SpentSays ==
  ASSUME NEW e \in RefreshEntry
  PROVE  /\ Spent(e) \in RefreshEntry /\ Spent(e).used
         /\ Spent(e).grant = e.grant
         /\ Spent(e).originalIssuedAt = e.originalIssuedAt
         /\ Spent(e).expiresAt = e.expiresAt
  BY DEF Spent, RefreshEntry

\* Refresh tokens are stored under the names of the requests that minted them.
LEMMA StoresKeepLineage ==
  ASSUME Typed, Safe, Lineage, [Next]_vars
  PROVE  \A t \in Requests, e \in RefreshEntry : refresh'[t] = e => Descends(t, e)'
<1>t. /\ pc \in [Requests -> Running \cup Ended \cup {"idle"}]
      /\ req \in [Requests -> Request \cup {Absent}]
      /\ now \in Nat /\ Absent \notin Nat
      /\ Absent \notin RefreshEntry /\ Absent \notin Request
      /\ refresh \in [Requests -> RefreshEntry \cup {Absent}]
  BY StoresAssumption, EndpointAssumption DEF Typed, TypeOK, StoresTypeOK
<1>2. ASSUME NEW t \in Requests, NEW e \in RefreshEntry, refresh'[t] = e
      PROVE  Descends(t, e)'
  <2>0. \A d \in RefreshEntry : Descends(t, d) => Descends(t, d)'
    BY DescentKept
  <2>1. CASE refresh[t] = e
    BY <2>0, <2>1 DEF Lineage
  <2>2. CASE StoreRefresh(t) /\ e = IssuedRefresh(t)
    <3>1. req[t] \in Request /\ pc[t] = "storeRefresh" /\ req[t] # Absent
      BY <1>t, <2>2 DEF StoreRefresh, Typed, Control
    <3>2. req[t].issuedAt # Absent
      BY <3>1 DEF Lineage, LineageOf, Running
    <3>3. UNCHANGED req /\ pc'[t] # "storeRefresh"
      BY <1>t, <2>2 DEF StoreRefresh, AfterIssuance, Goto
    <3>4. e.grant = req[t].grant /\ e.originalIssuedAt = req[t].originalIssuedAt
      BY <2>2 DEF IssuedRefresh
    <3> QED BY <3>1, <3>2, <3>3, <3>4 DEF Descends, Born, HasIssued
  <2>3. ASSUME NEW d \in RefreshEntry, Descends(t, d), e = Spent(d) PROVE Descends(t, e)'
    BY <2>0, <2>3, SpentSays DEF Descends
  <2>4. CASE refresh[t] # Absent /\ e = Spent(refresh[t])
    BY <1>t, <2>3, <2>4 DEF Lineage
  <2>5. ASSUME NEW r \in Requests, RetireRefreshWrite(r), req[r].token = t,
               e = Spent(req[r].entry)
        PROVE  Descends(t, e)'
    <3>1. pc[r] = "markRetired" /\ req[r] \in Request /\ Knows("markRetired", req[r])
      BY <1>t, <2>5 DEF RetireRefreshWrite, At, Typed, Control
    <3>2. Descends(t, req[r].entry) /\ req[r].entry \in RefreshEntry
      BY <2>5, <3>1 DEF Lineage, LineageOf, Knows, Running
    <3> QED BY <2>3, <2>5, <3>2
  <2>6. refresh'[t] # Absent
    BY <1>2, <1>t
  <2> QED BY <1>2, <2>1, <2>2, <2>4, <2>5, <2>6, RefreshSteps
<1> QED BY <1>2

\* What requests in flight know of the tokens they read is so.
LEMMA RequestsKeepLineage ==
  ASSUME Typed, Safe, Lineage, [Next]_vars
  PROVE  \A r \in Requests, label \in Running \cup Ended, q \in Request :
           pc'[r] = label /\ req'[r] = q => LineageOf(label, q)'
<1> DEFINE Goal == \A r \in Requests, label \in Running \cup Ended, q \in Request :
                     pc'[r] = label /\ req'[r] = q => LineageOf(label, q)'
           Quiet == {"consume", "markUsed", "recheck", "cascadeAccess", "deleteAccess",
                     "cascadeRefresh", "respond"} \cup Ended
           Same(q, p) == /\ q.kind = p.kind /\ q.token = p.token
                         /\ q.issuedAt = p.issuedAt
                         /\ q.issuedAt # Absent =>
                              /\ q.grant = p.grant
                              /\ q.originalIssuedAt = p.originalIssuedAt
<1> SUFFICES Goal
  OBVIOUS
<1>t. /\ pc \in [Requests -> Running \cup Ended \cup {"idle"}]
      /\ req \in [Requests -> Request \cup {Absent}]
      /\ now \in Nat
      /\ codes \in [Grants -> CodeEntry \cup {Absent}]
      /\ access \in [Requests -> AccessEntry \cup {Absent}]
      /\ refresh \in [Requests -> RefreshEntry \cup {Absent}]
      /\ Absent \notin Request /\ Absent \notin CodeEntry /\ Absent \notin RefreshEntry
      /\ Absent \notin Nat
  BY StoresAssumption, EndpointAssumption DEF Typed, TypeOK, StoresTypeOK
<1>k. \A r \in Requests : pc[r] # "idle" =>
        /\ pc[r] \in Running \cup Ended
        /\ req[r] \in Request /\ Knows(pc[r], req[r]) /\ RequestSafe(pc[r], req[r])
        /\ LineageOf(pc[r], req[r])
  BY <1>t DEF Typed, Control, Safe, Lineage
<1>n. \A r \in Requests : /\ req'[r] # Absent => Knows(pc'[r], req'[r]) /\ req'[r] \in Request
                          /\ pc'[r] # "idle" => req'[r] # Absent
  BY NextTyped DEF Typed, TypeOK, Control
<1>w. ASSUME NEW q \in Request, NEW label \in Running \cup Ended,
             Knows(label, q), LineageOf(label, q)
      PROVE  LineageOf(label, q)'
  BY <1>w, LineageWaits
<1>1. CASE UNCHANGED <<pc, req>>
  <2> SUFFICES ASSUME NEW s \in Requests, NEW l \in Running \cup Ended, NEW p \in Request,
                      pc'[s] = l, req'[s] = p
               PROVE  LineageOf(l, p)'
    OBVIOUS
  <2>1. pc[s] = l /\ req[s] = p /\ l # "idle"
    BY <1>1 DEF Running, Ended
  <2> QED BY <2>1, <1>k, <1>w
<1>2. ASSUME NEW r \in Requests, Arrive(r) \/ Serve(r) \/ Fail(r),
             \A l \in Running \cup Ended, p \in Request :
               pc'[r] = l /\ req'[r] = p => LineageOf(l, p)'
      PROVE  Goal
  <2> SUFFICES ASSUME NEW s \in Requests, NEW l \in Running \cup Ended, NEW p \in Request,
                      pc'[s] = l, req'[s] = p
               PROVE  LineageOf(l, p)'
    OBVIOUS
  <2>1. CASE s = r
    BY <1>2, <2>1
  <2>2. CASE s # r
    <3>1. pc[s] = l /\ req[s] = p /\ l # "idle"
      BY <1>2, <2>2, OthersWait DEF Running, Ended
    <3> QED BY <3>1, <1>k, <1>w
  <2> QED BY <2>1, <2>2
<1>3. ASSUME NEW r \in Requests, Arrive(r) \/ Serve(r) \/ Fail(r),
             NEW label \in Running \cup Ended, NEW q \in Request,
             pc'[r] = label, req'[r] = q, LineageOf(label, q)
      PROVE  Goal
  <2>1. Knows(label, q)
    BY <1>3, <1>t, <1>n
  <2>2. LineageOf(label, q)'
    BY <1>3, <1>w, <2>1
  <2> QED BY <1>2, <1>3, <2>2
<1>4. ASSUME NEW r \in Requests, Arrive(r) \/ Serve(r) \/ Fail(r), pc[r] # "idle",
             pc'[r] \in Quiet, Same(req'[r], req[r])
      PROVE  Goal
  <2>1. PICK label \in Running \cup Ended, q \in Request :
          pc'[r] = label /\ req'[r] = q /\ label \in Quiet
    <3>1. pc'[r] # "idle" /\ pc'[r] \in Running \cup Ended
      BY <1>4 DEF Running, Ended
    <3> QED BY <1>4, <1>n, <3>1
  <2>2. LineageOf(pc[r], req[r])
    BY <1>4, <1>k
  <2>3. /\ q.kind = req[r].kind /\ q.token = req[r].token /\ q.issuedAt = req[r].issuedAt
        /\ q.issuedAt # Absent => q.grant = req[r].grant /\ q.originalIssuedAt = req[r].originalIssuedAt
    BY <1>4, <2>1
  <2>4. label \notin {"sign", "issue", "markRetired", "delete", "deleteRefresh", "storeRefresh", "retire", "find"}
    BY <2>1 DEF Ended
  <2>5. LineageOf(label, q)
    BY <2>2, <2>3, <2>4 DEF LineageOf
  <2> QED BY <1>3, <1>4, <2>1, <2>5
<1>5. ASSUME NEW r \in Requests, Arrive(r) \/ Serve(r) \/ Fail(r), pc[r] # "idle",
             pc'[r] \in Quiet, UNCHANGED req
      PROVE  Goal
  BY <1>4, <1>5
<1>6. ASSUME NEW r \in Requests, Arrive(r) PROVE Goal
  <2>1. PICK q \in Request : pc'[r] = "find" /\ req'[r] = q
    <3>1. pc'[r] = "find"
      BY <1>6, <1>t DEF Arrive, StartCode, StartRefresh, StartRevokeAccess,
                        StartRevokeRefresh, Start, Goto
    <3> QED BY <1>n, <3>1
  <2>2. q.issuedAt = Absent /\ (q.kind # "code" => q.grant = Absent)
    BY <1>6, <1>t, <2>1 DEF Arrive, StartCode, StartRefresh, StartRevokeAccess,
                            StartRevokeRefresh, Start
  <2>3. LineageOf("find", q)
    BY <2>2 DEF LineageOf
  <2> QED BY <1>3, <1>6, <2>1, <2>3 DEF Running
<1>7. ASSUME NEW r \in Requests,
             \/ CodeNotFound(r) \/ CodeReplayed(r) \/ CodeRejected(r)
             \/ ConsumeCode(r) \/ ConsumeCodeWrite(r)
             \/ RefreshNotFound(r) \/ RefreshRejected(r)
             \/ RetireRefresh(r) \/ RetireRefreshWrite(r) \/ Respond(r)
             \/ CascadeAccess(r) \/ AccessDeleted(r)
             \/ CascadeRefresh(r) \/ RefreshDeleted(r)
             \/ RevokeAccess(r) \/ RevokeRefresh(r) \/ Fail(r)
      PROVE  Goal
  <2>1. pc'[r] \in Quiet /\ UNCHANGED req /\ pc[r] # "idle"
    BY <1>7, <1>t
    DEF End, Goto, At, CodeNotFound, CodeReplayed, CodeRejected, ConsumeCode,
        ConsumeCodeWrite, RefreshNotFound, RefreshRejected, RetireRefresh,
        RetireRefreshWrite, Respond, CascadeAccess, AccessDeleted, AfterAccessCascade,
        CascadeRefresh, RefreshDeleted, RevokeAccess, RevokeRefresh,
        Fail, SigningFails, StoreFails, ResponseLost, Running, Ended
  <2>2. Serve(r) \/ Fail(r)
    BY <1>7 DEF Serve, RedeemStep, RotateStep, IssueStep, CascadeStep, RevokeStep
  <2> QED BY <1>5, <2>1, <2>2
<1>8. ASSUME NEW r \in Requests, Recheck(r) \/ RevokeAccessFind(r) \/ StoreRefresh(r)
      PROVE  Goal
  <2>1. /\ UNCHANGED req /\ pc[r] # "idle"
        /\ pc[r] \in {"recheck", "find", "storeRefresh"}
        /\ pc'[r] \in Quiet \cup {"sign", "delete", "retire"}
        /\ pc'[r] = "sign" => req[r].kind = "code"
        /\ pc'[r] = "delete" => req[r].kind = "revokeAccess"
        /\ pc'[r] = "retire" => pc[r] = "storeRefresh"
    BY <1>8, <1>t DEF Recheck, RevokeAccessFind, StoreRefresh, Verdict, AfterIssuance,
                      End, Goto, At, Ended
  <2>2. Serve(r)
    BY <1>8 DEF Serve, RedeemStep, IssueStep, RevokeStep
  <2>3. PICK label \in Running \cup Ended, q \in Request :
          pc'[r] = label /\ req'[r] = q /\ q = req[r]
    <3>1. pc'[r] \in Running \cup Ended
      BY <2>1 DEF Running
    <3> QED BY <1>k, <2>1, <3>1
  <2>4. LineageOf(pc[r], q)
    BY <1>k, <2>1, <2>3
  <2>5. LineageOf(label, q)
    BY <2>1, <2>3, <2>4 DEF LineageOf, Ended
  <2> QED BY <1>3, <2>2, <2>3, <2>5
<1>9. ASSUME NEW r \in Requests,
             CodeAccepted(r) \/ ConsumeCodeRead(r) \/ RefreshReplayed(r)
      PROVE  Goal
  <2>1. /\ pc[r] \in {"find", "consume"} /\ pc[r] # "idle"
        /\ pc'[r] \in Quiet
    BY <1>9, <1>t DEF CodeAccepted, ConsumeCodeRead, RefreshReplayed, At, Goto
  <2>2. Serve(r)
    BY <1>9 DEF Serve, RedeemStep, RotateStep
  <2>3. req[r] \in Request /\ req[r].issuedAt = Absent
    BY <1>k, <2>1 DEF RequestSafe
  <2>4. /\ req'[r].kind = req[r].kind /\ req'[r].token = req[r].token
        /\ req'[r].issuedAt = req[r].issuedAt
    BY <1>9, <1>t, <2>3 DEF CodeAccepted, ConsumeCodeRead, RefreshReplayed, Request
  <2>5. Same(req'[r], req[r])
    BY <2>3, <2>4
  <2> HIDE DEF Same, Goal
  <2> QED BY <1>4, <2>1, <2>2, <2>5
<1>10. ASSUME NEW r \in Requests, NEW d \in SUBSET Requests,
              req' = [req EXCEPT ![r].doomed = d],
              ListAccess(r) \/ \E u \in Requests : DeleteListedAccess(r, u)
       PROVE  Goal
  <2>1. pc[r] \in Cascading /\ pc[r] # "idle" /\ pc'[r] \in Quiet
    BY <1>10, <1>t DEF ListAccess, DeleteListedAccess, Goto, Cascading
  <2>2. Serve(r)
    BY <1>10 DEF Serve, CascadeStep
  <2>3. req[r] \in Request
    BY <1>k, <2>1
  <2>4. Same(req'[r], req[r])
    BY <1>10, <1>t, <2>3 DEF Request
  <2> HIDE DEF Same, Goal
  <2> QED BY <1>4, <2>1, <2>2, <2>4
<1>11. ASSUME NEW r \in Requests, ListAccess(r) PROVE Goal
  <2>1. PICK d \in SUBSET Requests : d = ListedOfGrant(access, req[r].grant)
    BY <1>t DEF ListedOfGrant, KeysOfGrant
  <2>2. req' = [req EXCEPT ![r].doomed = d]
    BY <1>11, <2>1 DEF ListAccess
  <2> QED BY <1>10, <1>11, <2>2
<1>12. ASSUME NEW r \in Requests, NEW u \in Requests, DeleteListedAccess(r, u) PROVE Goal
  <2>1. req[r] \in Request
    BY <1>12, <1>k DEF DeleteListedAccess
  <2>2. req[r].doomed \ {u} \in SUBSET Requests
    BY <2>1 DEF Request
  <2>3. req' = [req EXCEPT ![r].doomed = req[r].doomed \ {u}]
    BY <1>12 DEF DeleteListedAccess
  <2> QED BY <1>10, <1>12, <2>2, <2>3
\* A refresh token that is found in the store is of its minter's grant.
<1>f. ASSUME NEW t \in Requests, Fetch(refresh, t) # Absent
      PROVE  Fetch(refresh, t) \in RefreshEntry /\ Descends(t, Fetch(refresh, t))
  BY <1>f, <1>t DEF Fetch, Lineage
<1>13. ASSUME NEW r \in Requests, RefreshAccepted(r) PROVE Goal
  <2>1. /\ req[r] \in Request /\ req[r].kind = "refresh" /\ req[r].token \in Requests
        /\ pc[r] = "find" /\ req[r].issuedAt = Absent /\ Serve(r)
    BY <1>13, <1>k DEF RefreshAccepted, At, Knows, RequestSafe, Serve, RotateStep
  <2>2. /\ FindRefresh(r) \in RefreshEntry /\ Descends(req[r].token, FindRefresh(r))
        /\ FindRefresh(r) # Absent
    BY <1>13, <1>f, <2>1 DEF RefreshAccepted, FindRefresh
  <2>3. RefreshSafe(FindRefresh(r))
    BY <1>13, <2>1, <2>2 DEF FindRefresh, Fetch, Safe
  <2>4. PICK q \in Request : req'[r] = q /\ pc'[r] = "sign"
    <3>1. pc'[r] = "sign"
      BY <1>13, <1>t DEF RefreshAccepted, Goto
    <3> QED BY <1>n, <3>1
  <2>5. /\ q.kind = req[r].kind /\ q.token = req[r].token
        /\ q.issuedAt = req[r].issuedAt
        /\ q.grant = FindRefresh(r).grant /\ q.entry = FindRefresh(r)
        /\ q.originalIssuedAt = FindRefresh(r).originalIssuedAt
    <3>1. req'[r] = [req[r] EXCEPT !.grant = FindRefresh(r).grant, !.entry = FindRefresh(r),
                       !.scope = IF req[r].asks THEN @ ELSE FindRefresh(r).scope,
                       !.originalIssuedAt = FindRefresh(r).originalIssuedAt]
      BY <1>13, <1>t DEF RefreshAccepted
    <3> QED BY <2>1, <2>4, <3>1 DEF Request
  <2>6. LineageOf("sign", q)
    BY <2>1, <2>2, <2>3, <2>5 DEF LineageOf, Descends, Born, Of, RefreshSafe
  <2> QED BY <1>3, <2>1, <2>4, <2>6 DEF Running
<1>22. ASSUME NEW r \in Requests, Generate(r) PROVE Goal
  <2>1. /\ req[r] \in Request /\ LineageOf("sign", req[r]) /\ Serve(r)
        /\ pc'[r] = "issue"
    BY <1>22, <1>t, <1>k DEF Generate, Goto, Serve, IssueStep
  <2>2. PICK q \in Request : req'[r] = q
    BY <1>n, <2>1
  <2>3. /\ q.kind = req[r].kind /\ q.token = req[r].token /\ q.grant = req[r].grant
        /\ q.entry = req[r].entry /\ q.issuedAt = req[r].issuedAt
        /\ q.originalIssuedAt = req[r].originalIssuedAt
    <3>1. PICK m : req' = [req EXCEPT ![r].minted = m, ![r].madeAt = now]
      BY <1>22 DEF Generate
    <3>2. q = [req[r] EXCEPT !.minted = m, !.madeAt = now]
      BY <1>t, <2>2, <3>1
    <3> QED BY <2>1, <3>2 DEF Request
  <2>4. LineageOf("issue", q)
    BY <2>1, <2>3 DEF LineageOf
  <2> QED BY <1>3, <2>1, <2>2, <2>4 DEF Running
<1>14. ASSUME NEW r \in Requests, StoreAccess(r) PROVE Goal
  <2>1. /\ req[r] \in Request /\ pc[r] = "issue" /\ LineageOf("issue", req[r])
        /\ Knows("issue", req[r]) /\ Serve(r)
    BY <1>14, <1>k DEF StoreAccess, Serve, IssueStep
  <2>2. PICK label \in {"storeRefresh", "retire", "respond"}, q \in Request :
          pc'[r] = label /\ req'[r] = q
    <3>1. pc'[r] \in {"storeRefresh", "retire", "respond"}
      BY <1>14, <1>t DEF StoreAccess, AfterIssuance, Goto
    <3> QED BY <1>n, <3>1
  <2>3. /\ q.kind = req[r].kind /\ q.token = req[r].token
        /\ q.grant = req[r].grant /\ q.issuedAt = now
        /\ q.originalIssuedAt = OriginalIssuedAt(r)
    BY <1>14, <1>t, <2>1, <2>2 DEF StoreAccess, Request
  <2>4. LineageOf(label, q)
    BY <1>t, <2>1, <2>2, <2>3 DEF LineageOf, OriginalIssuedAt, Knows
  <2> QED BY <1>3, <2>1, <2>2, <2>4 DEF Running
<1>15. ASSUME NEW r \in Requests, RetireRefreshRead(r) PROVE Goal
  <2>1. /\ req[r] \in Request /\ pc[r] = "retire" /\ LineageOf("retire", req[r])
        /\ req[r].kind = "refresh" /\ req[r].token \in Requests /\ Serve(r)
    BY <1>15, <1>k DEF RetireRefreshRead, At, Knows, Serve, RotateStep
  <2>2. PICK label \in {"markRetired", "respond"}, q \in Request :
          pc'[r] = label /\ req'[r] = q
    <3>1. pc'[r] \in {"markRetired", "respond"}
      BY <1>15, <1>t DEF RetireRefreshRead, Goto
    <3> QED BY <1>n, <3>1
  <2>3. /\ q.kind = req[r].kind /\ q.token = req[r].token
        /\ q.grant = req[r].grant /\ q.issuedAt = req[r].issuedAt
        /\ q.originalIssuedAt = req[r].originalIssuedAt
        /\ q.entry = FindRefresh(r)
    BY <1>15, <1>t, <2>1, <2>2 DEF RetireRefreshRead, Request
  <2>4. label = "markRetired" => Descends(q.token, q.entry)
    BY <1>15, <1>t, <1>f, <2>1, <2>2, <2>3 DEF RetireRefreshRead, FindRefresh, Goto
  <2>5. LineageOf(label, q)
    BY <2>1, <2>3, <2>4 DEF LineageOf
  <2> QED BY <1>3, <2>1, <2>2, <2>5 DEF Running
<1>16. ASSUME NEW r \in Requests, NEW d \in SUBSET Requests,
              pc[r] # "idle", req' = [req EXCEPT ![r].doomed = d],
              pc'[r] = "deleteRefresh", \A u \in d : Of(u, req[r].grant), Serve(r)
       PROVE  Goal
  <2>1. req[r] \in Request /\ LineageOf(pc[r], req[r])
    BY <1>16, <1>k
  <2>2. PICK q \in Request : req'[r] = q
    BY <1>16, <1>n
  <2>3. /\ q.kind = req[r].kind /\ q.token = req[r].token
        /\ q.grant = req[r].grant /\ q.issuedAt = req[r].issuedAt
        /\ q.originalIssuedAt = req[r].originalIssuedAt
        /\ q.doomed = d
    BY <1>16, <1>t, <2>1, <2>2 DEF Request
  <2>4. LineageOf("deleteRefresh", q)
    BY <1>16, <2>1, <2>3 DEF LineageOf
  <2> QED BY <1>3, <1>16, <2>2, <2>4 DEF Running
<1>17. ASSUME NEW r \in Requests, ListRefresh(r) PROVE Goal
  <2>1. PICK d \in SUBSET Requests : d = ListedOfGrant(refresh, req[r].grant)
    BY <1>t DEF ListedOfGrant, KeysOfGrant
  <2>2. \A u \in d : Of(u, req[r].grant)
    BY <1>t, <2>1 DEF ListedOfGrant, KeysOfGrant, Lineage, Descends, Born, Of
  <2>3. /\ pc[r] # "idle" /\ pc'[r] = "deleteRefresh" /\ Serve(r)
        /\ req' = [req EXCEPT ![r].doomed = d]
    BY <1>17, <1>t, <2>1 DEF ListRefresh, Goto, Serve, CascadeStep
  <2> QED BY <1>16, <2>2, <2>3
<1>18. ASSUME NEW r \in Requests, NEW u \in Requests, DeleteListedRefresh(r, u) PROVE Goal
  <2>1. req[r] \in Request /\ pc[r] = "deleteRefresh" /\ LineageOf("deleteRefresh", req[r])
    BY <1>18, <1>k DEF DeleteListedRefresh
  <2>2. PICK d \in SUBSET Requests : d = req[r].doomed \ {u}
    BY <2>1 DEF Request
  <2>3. /\ pc'[r] = "deleteRefresh" /\ req' = [req EXCEPT ![r].doomed = d] /\ Serve(r)
    BY <1>18, <1>t, <2>2 DEF DeleteListedRefresh, Serve, CascadeStep
  <2>4. \A v \in d : Of(v, req[r].grant)
    BY <2>1, <2>2 DEF LineageOf
  <2> QED BY <1>16, <2>1, <2>3, <2>4
<1>19. ASSUME NEW r \in Requests, RevokeRefreshFind(r) PROVE Goal
  <2>1. /\ req[r] \in Request /\ pc[r] = "find" /\ req[r].kind = "revokeRefresh"
        /\ req[r].token \in Requests /\ req[r].issuedAt = Absent /\ Serve(r)
    BY <1>19, <1>k DEF RevokeRefreshFind, At, Knows, RequestSafe, Serve, RevokeStep
  <2>2. PICK label \in {"done", "denied", "delete"}, q \in Request :
          pc'[r] = label /\ req'[r] = q
    <3>1. pc'[r] \in {"done", "denied", "delete"}
      BY <1>19, <1>t DEF RevokeRefreshFind, Verdict, Goto
    <3> QED BY <1>n, <3>1
  <2>3. /\ q.kind = "revokeRefresh" /\ q.token = req[r].token
        /\ q.issuedAt = Absent
        /\ label = "delete" => q.grant = FindRefresh(r).grant /\ FindRefresh(r) # Absent
    BY <1>19, <1>t, <2>1, <2>2 DEF RevokeRefreshFind, Verdict, Goto, Request
  <2>4. label = "delete" => Of(q.token, q.grant)
    BY <1>f, <2>1, <2>3 DEF FindRefresh, Descends, Born, Of
  <2>5. LineageOf(label, q)
    BY <2>2, <2>3, <2>4 DEF LineageOf
  <2> QED BY <1>3, <2>1, <2>2, <2>5 DEF Running, Ended
<1> HIDE DEF Goal
<1>20. ASSUME NEW r \in Requests, Serve(r) PROVE Goal
  BY <1>7, <1>8, <1>9, <1>11, <1>12, <1>13, <1>14, <1>15, <1>17, <1>18, <1>19, <1>20, <1>22
  DEF Serve, RedeemStep, RotateStep, IssueStep, CascadeStep, RevokeStep
<1>21. CASE Next
  BY <1>1, <1>6, <1>7, <1>20, <1>21 DEF Next, Clock, IssueCode
<1> QED BY <1>1, <1>21 DEF vars

\* A request that has made no access token makes one with Generate only.
LEMMA UnmadeKept ==
  ASSUME Typed, [Next]_vars, NEW t \in Requests, pc[t] \in Unmade, ~Generate(t),
         req[t] # Absent => req[t].minted = Absent
  PROVE  req'[t] # Absent => req'[t].minted = Absent
<1> DEFINE Goal == req'[t] # Absent => req'[t].minted = Absent
<1> SUFFICES Goal
  OBVIOUS
<1>t. /\ req \in [Requests -> Request \cup {Absent}]
      /\ pc[t] # "idle" => req[t] \in Request /\ req[t].minted = Absent
  BY EndpointAssumption DEF Typed, TypeOK, Control
<1>1. CASE req'[t] = req[t]
  BY <1>1
<1>2. CASE Arrive(t)
  BY <1>2, <1>t
  DEF Arrive, StartCode, StartRefresh, StartRevokeAccess, StartRevokeRefresh, Start
<1>3. ASSUME RedeemStep(t) \/ RotateStep(t) \/ RevokeStep(t) PROVE Goal
  <2>1. pc[t] # "idle"
    BY <1>3
    DEF RedeemStep, CodeNotFound, CodeReplayed, CodeRejected, CodeAccepted, ConsumeCode,
        ConsumeCodeRead, ConsumeCodeWrite, Recheck, RotateStep, RefreshNotFound,
        RefreshReplayed, RefreshRejected, RefreshAccepted, RetireRefresh, RetireRefreshRead,
        RetireRefreshWrite, RevokeStep, RevokeAccessFind, RevokeAccess, RevokeRefreshFind,
        RevokeRefresh, At
  <2>2. req[t] \in Request /\ req[t].minted = Absent
    BY <1>t, <2>1
  <2>3. CASE RedeemStep(t)
    BY <1>t, <2>2, <2>3
    DEF RedeemStep, CodeNotFound, CodeReplayed, CodeRejected, CodeAccepted, ConsumeCode,
        ConsumeCodeRead, ConsumeCodeWrite, Recheck, End, Request
  <2>4. CASE RotateStep(t)
    BY <1>t, <2>2, <2>4
    DEF RotateStep, RefreshNotFound, RefreshReplayed, RefreshRejected, RefreshAccepted,
        RetireRefresh, RetireRefreshRead, RetireRefreshWrite, End, Request
  <2>5. CASE RevokeStep(t)
    BY <1>t, <2>2, <2>5
    DEF RevokeStep, RevokeAccessFind, RevokeAccess, RevokeRefreshFind, RevokeRefresh, End,
        Request
  <2> QED BY <1>3, <2>3, <2>4, <2>5
<1>4. CASE StoreAccess(t) \/ StoreRefresh(t) \/ Respond(t) \/ CascadeStep(t)
  BY <1>4
  DEF StoreAccess, StoreRefresh, Respond, CascadeStep, CascadeAccess, ListAccess,
      AccessDeleted, CascadeRefresh, ListRefresh, RefreshDeleted, DeleteListedAccess,
      DeleteListedRefresh, Unmade
<1>5. CASE Fail(t)
  <2>1. UNCHANGED req
    BY <1>5 DEF Fail, SigningFails, StoreFails, ResponseLost, End
  <2> QED BY <1>1, <2>1
<1> HIDE DEF Goal
<1>6. ASSUME NEW r \in Requests, Arrive(r) \/ Serve(r) \/ Fail(r) PROVE Goal
  <2>1. CASE r # t
    BY <1>1, <1>6, <2>1, OthersWait
  <2>2. CASE r = t
    BY <1>2, <1>3, <1>4, <1>5, <1>6, <2>2 DEF Serve, IssueStep
  <2> QED BY <2>1, <2>2
<1> QED BY <1>1, <1>6 DEF Next, Clock, IssueCode, vars

\* A name once given to an access token stands for the second, client and scope
\* it was first made with.
LEMMA NamedKept ==
  ASSUME Typed, Safe, Lineage, [Next]_vars
  PROVE  Named'
<1>t. /\ req \in [Requests -> Request \cup {Absent}]
      /\ pc \in [Requests -> Running \cup Ended \cup {"idle"}]
      /\ now \in Nat /\ now' \in Nat /\ now <= now'
      /\ Absent \notin Requests /\ Absent \notin Nat
  BY ClockAdvances, StoresAssumption, EndpointAssumption DEF Typed, TypeOK
<1>n. ASSUME NEW q \in Requests, NEW t \in Requests, req[q] # Absent, req[q].minted = t
      PROVE  MadeAs(q, t)
  BY <1>n DEF Lineage, Named
<1>k. ASSUME NEW t \in Requests, pc[t] \notin Unmade
      PROVE  /\ req[t] # Absent /\ req'[t] # Absent /\ pc'[t] \notin Unmade
             /\ req'[t].minted = req[t].minted /\ req'[t].madeAt = req[t].madeAt
             /\ req'[t].client = req[t].client /\ req'[t].scope = req[t].scope
  <2>1. pc[t] \notin {"idle", "find", "sign"}
    BY <1>k DEF Unmade
  <2> QED BY <1>k, <2>1, GrantKept, LabelsAdvance DEF Typed, Control
\* The name's first maker keeps what it made.
<1>o. ASSUME NEW t \in Requests, req[t] # Absent, req[t].minted = t
      PROVE  /\ req'[t] # Absent /\ req'[t].minted = t
             /\ req'[t].madeAt = req[t].madeAt
             /\ req'[t].client = req[t].client /\ req'[t].scope = req[t].scope
  <2>1. pc[t] \notin Unmade
    BY <1>n, <1>o DEF MadeAs
  <2> QED BY <1>k, <1>o, <2>1
<1>1. ASSUME NEW q \in Requests, NEW t \in Requests, req'[q] # Absent, req'[q].minted = t
      PROVE  MadeAs(q, t)'
  <2>1. CASE Generate(q)
    <3>1. /\ pc[q] = "sign" /\ pc'[q] = "issue" /\ now' = now
          /\ req[q] \in Request /\ req[q] # Absent
      BY <1>t, <2>1 DEF Generate, Goto, Typed, Control
    <3>2. /\ req'[q].madeAt = now /\ t \in AccessNames(q)
          /\ req'[q].client = req[q].client /\ req'[q].scope = req[q].scope
      BY <1>1, <1>t, <2>1, <3>1 DEF Generate, Request
    <3>3. CASE t = q
      BY <1>1, <1>t, <3>1, <3>2, <3>3 DEF MadeAs, Unmade
    <3>4. CASE t # q
      <4>1. AccessTokenFormat = "jwt" /\ \E p \in Twins(q) : t = req[p].minted
        BY <3>2, <3>4 DEF AccessNames
      <4>2. PICK p \in Requests :
              /\ req[p] # Absent /\ req[p].minted = t /\ req[p].madeAt = now
              /\ req[p].client = req[q].client /\ req[p].scope = req[q].scope
        BY <4>1 DEF Twins
      <4>3. MadeAs(p, t)
        BY <1>n, <4>2
      <4>4. req'[t] = req[t]
        BY <1>t, <2>1, <3>4 DEF Generate
      <4> QED BY <1>t, <3>1, <3>2, <4>1, <4>2, <4>3, <4>4 DEF MadeAs, Unmade
    <3> QED BY <3>3, <3>4
  <2>2. CASE ~Generate(q) /\ pc[q] \in Unmade
    <3>1. req[q] # Absent => req[q].minted = Absent
      <4> SUFFICES ASSUME req[q] # Absent, req[q].minted # Absent PROVE FALSE
        OBVIOUS
      <4>1. req[q].minted \in Requests
        BY <1>t DEF Request
      <4> QED BY <1>n, <2>2, <4>1 DEF MadeAs
    <3> QED BY <1>1, <1>t, <2>2, <3>1, UnmadeKept
  <2>3. CASE ~Generate(q) /\ pc[q] \notin Unmade
    <3>1. /\ req[q].minted = t /\ MadeAs(q, t) /\ pc'[q] \notin Unmade
          /\ req'[q].madeAt = req[q].madeAt
          /\ req'[q].client = req[q].client /\ req'[q].scope = req[q].scope
      BY <1>1, <1>k, <1>n, <2>3
    <3>2. req[t] # Absent /\ req[t].minted = t
      BY <3>1 DEF MadeAs
    <3>3. /\ req'[t] # Absent /\ req'[t].minted = t
          /\ req'[t].madeAt = req[t].madeAt
          /\ req'[t].client = req[t].client /\ req'[t].scope = req[t].scope
      BY <1>o, <3>2
    <3> QED BY <1>t, <3>1, <3>3 DEF MadeAs
  <2> QED BY <2>1, <2>2, <2>3
<1>2. ASSUME NEW t \in Requests, access'[t] # Absent
      PROVE  /\ req'[t] # Absent /\ req'[t].minted = t
             /\ AccessTokenFormat = "jwt" \/ HasIssued(t)'
  <2>1. CASE access'[t] = access[t]
    <3>1. req[t] # Absent /\ req[t].minted = t /\ (AccessTokenFormat = "jwt" \/ HasIssued(t))
      BY <1>2, <2>1 DEF Lineage, Named
    <3> QED BY <1>o, <3>1, IssuedKept
  <2>2. ASSUME NEW r \in Requests, StoreAccess(r), req[r].minted = t
        PROVE  /\ req'[t] # Absent /\ req'[t].minted = t
               /\ AccessTokenFormat = "jwt" \/ HasIssued(t)'
    <3>1. req[r] # Absent /\ pc[r] = "issue" /\ req[r] \in Request
      BY <1>t, <2>2 DEF StoreAccess, Typed, Control
    <3>2. MadeAs(r, t)
      BY <1>n, <2>2, <3>1
    <3>3. req'[t] # Absent /\ req'[t].minted = t
      BY <1>o, <3>2 DEF MadeAs
    <3>4. r = t => req'[t].issuedAt # Absent
      BY <1>t, <2>2, <3>1 DEF StoreAccess, Request
    <3> QED BY <3>2, <3>3, <3>4 DEF MadeAs, HasIssued
  <2> QED BY <1>2, <2>1, <2>2, AccessSteps
<1> QED BY <1>1, <1>2 DEF Named

\* Nothing is stored and nobody is served at the start.
LEMMA InitLineage == Init => Lineage
  BY StoresAssumption DEF Init, StoresInit, Lineage, Named, Running, Ended

\* The lineage is preserved by every step of the endpoints.
LEMMA NextLineage ==
  ASSUME Typed, Safe, Lineage, [Next]_vars
  PROVE  Lineage'
BY NamedKept, StoresKeepLineage, RequestsKeepLineage DEF Lineage

\* Every stored token can be traced to the request that minted it.
LEMMA LineageInvariant == Spec => []Lineage
<1>1. Typed /\ Safe /\ Lineage /\ [Next]_vars => Lineage'
  BY NextLineage
<1> QED BY <1>1, InitLineage, SafetyInvariant, PTL DEF Spec

-----------------------------------------------------------------------------
(* No token comes back to life.                                            *)

\* A token that is usable after a step was so before, as the same entry, or is
\* stored by this step.
LEMMA UsableSteps ==
  ASSUME Typed, [Next]_vars, NEW t \in Requests, Usable(t)'
  PROVE  \/ Usable(t) /\ refresh'[t] = refresh[t]
         \/ StoreRefresh(t) /\ refresh'[t] = IssuedRefresh(t)
<1>t. /\ refresh \in [Requests -> RefreshEntry \cup {Absent}]
      /\ \A e \in RefreshEntry : e.expiresAt \in Nat
      /\ now \in Nat /\ now' \in Nat /\ now <= now'
  BY ClockAdvances DEF Typed, TypeOK, StoresTypeOK, RefreshEntry
<1>1. refresh'[t] # Absent /\ ~(refresh'[t].expiresAt <= now') /\ ~refresh'[t].used
  BY DEF Usable, Fetch
<1>2. CASE refresh'[t] = refresh[t]
  BY <1>1, <1>2, <1>t DEF Usable, Fetch
<1>3. CASE refresh[t] # Absent /\ refresh'[t] = Spent(refresh[t])
  BY <1>1, <1>3, <1>t, SpentSays
<1>4. ASSUME NEW r \in Requests, RetireRefreshWrite(r), refresh'[t] = Spent(req[r].entry)
      PROVE  FALSE
  <2>1. req[r].entry \in RefreshEntry
    BY <1>4 DEF RetireRefreshWrite, At, Typed, TypeOK, Control, Knows
  <2> QED BY <1>1, <1>4, <2>1, SpentSays
<1> QED BY <1>1, <1>2, <1>3, <1>4, RefreshSteps

\* The same of an access token.
LEMMA ActiveSteps ==
  ASSUME Typed, [Next]_vars, NEW t \in Requests, Active(t)'
  PROVE  \/ Active(t) /\ access'[t] = access[t]
         \/ \E r \in Requests :
              StoreAccess(r) /\ req[r].minted = t /\ access'[t] = IssuedAccess(r)
<1>t. /\ access \in [Requests -> AccessEntry \cup {Absent}]
      /\ \A e \in AccessEntry : e.expiresAt \in Nat
      /\ now \in Nat /\ now' \in Nat /\ now <= now'
  BY ClockAdvances DEF Typed, TypeOK, StoresTypeOK, AccessEntry
<1>1. access'[t] # Absent /\ ~(access'[t].expiresAt <= now')
  BY DEF Active, Fetch
<1>2. CASE access'[t] = access[t]
  BY <1>1, <1>2, <1>t DEF Active, Fetch
<1> QED BY <1>1, <1>2, AccessSteps

\* What a request at the issue label made is the text of the name it holds.
LEMMA MadeIsSameText ==
  ASSUME Lineage, NEW r \in Requests, NEW t \in Requests,
         req[r] # Absent, req[r].minted = t
  PROVE  SameText(r, t)
<1>1. MadeAs(r, t)
  BY DEF Lineage, Named
<1> QED BY <1>1 DEF MadeAs, SameText

\* No delayed write-back of a JSON store brings a revoked or rotated token back to
\* life: a refresh token is good once, and an access token is good again only if a
\* request stores the same JWT, made in the same second for the same client and scope.
THEOREM NothingRevives == Spec => NoRevival
<1>1. ASSUME Typed, Lineage, [Next]_vars, NEW t \in Requests, Active(t)', ~Active(t)
      PROVE  \E r \in Requests :
               pc[r] = "issue" /\ pc'[r] # "issue" /\ req[r].minted = t /\ SameText(r, t)
  <2>1. PICK r \in Requests : StoreAccess(r) /\ req[r].minted = t
    BY <1>1, ActiveSteps
  <2>2. pc[r] = "issue" /\ pc'[r] # "issue" /\ req[r] # Absent
    BY <1>1, <2>1 DEF StoreAccess, AfterIssuance, Goto, Typed, TypeOK, Control
  <2> QED BY <1>1, <2>1, <2>2, MadeIsSameText
<1>2. ASSUME Typed, [Next]_vars, NEW t \in Requests, Usable(t)', ~Usable(t)
      PROVE  pc[t] = "storeRefresh"
  BY <1>2, UsableSteps DEF StoreRefresh
<1>3. Typed /\ Lineage /\ [Next]_vars =>
        [\A t \in Requests :
           /\ Usable(t)' /\ ~Usable(t) => pc[t] = "storeRefresh"
           /\ Active(t)' /\ ~Active(t) =>
                \E r \in Requests :
                  pc[r] = "issue" /\ pc'[r] # "issue" /\ req[r].minted = t /\ SameText(r, t)]_vars
  BY <1>1, <1>2
<1> QED BY <1>3, SafetyInvariant, LineageInvariant, PTL DEF Spec, NoRevival

-----------------------------------------------------------------------------
(* The endpoints implement TokenLifecycle.                                 *)

\* A token's name stands for nothing before the request has made or stored it.
LEMMA NothingEarly ==
  ASSUME Typed, Safe, Lineage, NEW t \in Requests
  PROVE  /\ pc[t] \in Unmade => access[t] = Absent
         /\ pc[t] \in Early \cup {"storeRefresh"} => refresh[t] = Absent
<1>1. refresh \in [Requests -> RefreshEntry \cup {Absent}]
  BY DEF Typed, TypeOK, StoresTypeOK
<1>2. access[t] # Absent => pc[t] \notin Unmade
  BY DEF Lineage, Named, MadeAs
<1>3. refresh[t] # Absent => Born(t)
  BY <1>1 DEF Lineage, Descends
<1>4. HasIssued(t) => pc[t] \notin Early
  BY IssuedIsLate
<1> QED BY <1>2, <1>3, <1>4 DEF Born

\* Whether a request may yet store the token, spelt out for either store.
LEMMA ToComeSays ==
  ASSUME NEW t \in Requests
  PROVE  /\ ToCome(<<"access", t>>) <=>
              \/ pc[t] \in Unmade
              \/ \E r \in Requests : pc[r] = "issue" /\ req[r].minted = t
              \/ /\ AccessTokenFormat = "jwt"
                 /\ req[t].minted = t /\ req[t].madeAt = now
         /\ ToCome(<<"refresh", t>>) <=> pc[t] \in Early \cup {"storeRefresh"}
  BY DEF ToCome, Early, Unmade

\* A token that nobody will store any more is never to come again.
LEMMA ToComeEnds ==
  ASSUME Typed, Safe, Lineage, [Next]_vars, NEW t \in Requests, ToCome(<<"access", t>>)'
  PROVE  ToCome(<<"access", t>>)
<1>t. /\ req \in [Requests -> Request \cup {Absent}]
      /\ now \in Nat /\ now' \in Nat /\ now <= now'
  BY ClockAdvances DEF Typed, TypeOK
<1> SUFFICES ASSUME pc[t] \notin Unmade PROVE ToCome(<<"access", t>>)
  BY ToComeSays
<1>0. pc'[t] \notin Unmade
  BY LabelsAdvance
<1>n. ASSUME NEW q \in Requests, NEW u \in Requests, req[q] # Absent, req[q].minted = u
      PROVE  MadeAs(q, u)
  BY <1>n DEF Lineage, Named
<1>1. ASSUME NEW r \in Requests, pc'[r] = "issue", req'[r].minted = t
      PROVE  ToCome(<<"access", t>>)
  <2>1. CASE pc[r] = "issue"
    <3>1. req'[r].minted = req[r].minted
      BY <2>1, GrantKept
    <3> QED BY <1>1, <2>1, <3>1, ToComeSays
  <2>2. CASE Generate(r)
    <3>1. pc[r] = "sign" /\ req[r] \in Request
      BY <1>t, <2>2 DEF Generate, Typed, Control
    <3>2. t \in AccessNames(r) /\ t # r
      BY <1>1, <1>t, <2>2, <3>1 DEF Generate, Request, Unmade
    <3>3. PICK p \in Requests :
            /\ AccessTokenFormat = "jwt"
            /\ req[p] # Absent /\ req[p].minted = t /\ req[p].madeAt = now
      BY <3>2 DEF AccessNames, Twins
    <3>4. MadeAs(p, t)
      BY <1>n, <3>3
    <3> QED BY <3>3, <3>4, ToComeSays DEF MadeAs
  <2> QED BY <1>1, <2>1, <2>2, LabelsAdvance
<1>2. CASE /\ AccessTokenFormat = "jwt"
           /\ req'[t].minted = t /\ req'[t].madeAt = now'
  <2>1. pc[t] \notin {"idle", "find", "sign"} /\ req[t] # Absent
    BY DEF Unmade, Typed, Control
  <2>2. req[t].minted = t /\ req[t].madeAt = now'
    BY <1>2, <2>1, GrantKept
  <2>3. req[t].madeAt \in Nat /\ req[t].madeAt <= now
    BY <1>n, <2>1, <2>2 DEF MadeAs
  <2>4. req[t].madeAt = now
    BY <1>t, <2>2, <2>3
  <2> QED BY <1>2, <2>2, <2>4, ToComeSays
<1>3. \/ pc'[t] \in Unmade
      \/ \E r \in Requests : pc'[r] = "issue" /\ req'[r].minted = t
      \/ /\ AccessTokenFormat = "jwt"
         /\ req'[t].minted = t /\ req'[t].madeAt = now'
  BY DEF ToCome, Unmade
<1> QED BY <1>0, <1>1, <1>2, <1>3

\* A random string is stored once: while it is good nobody is to store it.
LEMMA OpaqueOnce ==
  ASSUME Typed, Safe, Lineage, NEW t \in Requests,
         AccessTokenFormat # "jwt", access[t] # Absent
  PROVE  ~ToCome(<<"access", t>>)
<1>1. HasIssued(t)
  BY DEF Lineage, Named
<1>2. pc[t] \notin Early
  BY <1>1, IssuedIsLate
<1>3. ASSUME NEW r \in Requests, pc[r] = "issue", req[r].minted = t PROVE FALSE
  <2>1. req[r] # Absent
    BY <1>3 DEF Typed, Control
  <2>2. r = t
    BY <1>3, <2>1 DEF Lineage, Named, MadeAs
  <2> QED BY <1>2, <1>3, <2>2 DEF Early
<1>4. ~(pc[t] \in Unmade) /\ ~\E r \in Requests : pc[r] = "issue" /\ req[r].minted = t
  BY <1>2, <1>3 DEF Early
<1> QED BY <1>4, ToComeSays, Zenon

\* At the start no code is issued and every token is to come.
LEMMA LifecycleInit == Init => Lifecycle!Init
<1> SUFFICES ASSUME Init PROVE Lifecycle!Init
  OBVIOUS
<1>1. \A g \in Grants : granted[g] = Absent
  BY DEF Init
<1>2. \A t \in Requests : access[t] = Absent /\ refresh[t] = Absent /\ pc[t] = "idle"
  BY DEF Init, StoresInit
<1>3. AbstractCode = [g \in Grants |-> "none"]
  BY <1>1 DEF AbstractCode
<1>4. ASSUME NEW n \in TokenNames
      PROVE  ~Alive(n) /\ ToCome(n)
  <2>1. n[2] \in Requests
    BY <1>4 DEF TokenNames
  <2> QED BY <1>2, <2>1 DEF Alive, Active, Usable, Fetch, ToCome, Unmade
<1>5. AbstractLife = [n \in TokenNames |-> "pending"]
  BY <1>4 DEF AbstractLife
<1>6. AbstractParent = [n \in TokenNames |-> Absent]
  BY <1>4 DEF AbstractParent
<1> QED BY <1>3, <1>5, <1>6 DEF Lifecycle!Init

\* A code is issued open, and closes for good.
LEMMA CodesMove ==
  ASSUME Typed, Safe, [Next]_vars, NEW g \in Grants
  PROVE  Lifecycle!CodeMoves(g)
<1>c. /\ AbstractCode[g] = IF granted[g] = Absent THEN "none"
                           ELSE IF Closed(g) THEN "closed" ELSE "open"
      /\ AbstractCode'[g] = IF granted'[g] = Absent THEN "none"
                            ELSE IF Closed(g)' THEN "closed" ELSE "open"
  BY DEF AbstractCode
<1>1. CASE granted[g] # Absent
  <2>1. granted'[g] # Absent /\ (Closed(g) => Closed(g)')
    BY <1>1, HistoryKept, CodesKept
  <2> QED BY <1>1, <1>c, <2>1 DEF Lifecycle!CodeMoves
<1>2. CASE granted[g] = Absent /\ granted'[g] = Absent
  BY <1>2, <1>c DEF Lifecycle!CodeMoves
<1>3. ASSUME NEW h \in Grants, NEW client \in Clients, NEW scope \in SUBSET Scopes,
             IssueCode(h, client, scope), granted[g] = Absent, granted'[g] # Absent
      PROVE  Lifecycle!CodeMoves(g)
  <2>1. g = h
    BY <1>3 DEF IssueCode, Typed, TypeOK
  <2>2. /\ granted'[g].expiresAt = now + CodeLifetime /\ now' = now
        /\ codes'[g].used = FALSE
    BY <1>3, <2>1 DEF IssueCode, AfterSet, Typed, TypeOK, StoresTypeOK
  <2>3. now \in Nat /\ CodeLifetime \in Nat \ {0}
    BY StoresAssumption DEF Typed, TypeOK, StoresTypeOK
  <2>4. ~Closed(g)'
    BY <2>2, <2>3 DEF Closed
  <2> QED BY <1>3, <1>c, <2>4 DEF Lifecycle!CodeMoves
<1>4. CASE ~\E h \in Grants, client \in Clients, scope \in SUBSET Scopes :
               IssueCode(h, client, scope)
  <2>1. UNCHANGED granted
    <3>1. ASSUME NEW r \in Requests, Arrive(r) \/ Serve(r) \/ Fail(r)
          PROVE  UNCHANGED granted
      BY <3>1
      DEF Arrive, StartCode, StartRefresh, StartRevokeAccess, StartRevokeRefresh, Start,
          Serve, RedeemStep, CodeNotFound, CodeReplayed, CodeRejected, CodeAccepted, ReadCode,
          ConsumeCode, ConsumeCodeRead, ConsumeCodeWrite, Recheck,
          RotateStep, RefreshNotFound, RefreshReplayed, RefreshRejected, RefreshAccepted,
          ReadRefresh, RetireRefresh, RetireRefreshRead, RetireRefreshWrite,
          IssueStep, Generate, StoreAccess, StoreRefresh, Respond,
          CascadeStep, CascadeAccess, ListAccess, DeleteListedAccess, AccessDeleted,
          CascadeRefresh, ListRefresh, DeleteListedRefresh, RefreshDeleted,
          RevokeStep, RevokeAccessFind, RevokeAccess, RevokeRefreshFind, RevokeRefresh,
          Fail, SigningFails, StoreFails, ResponseLost
    <3> QED BY <1>4, <3>1 DEF Next, Clock, vars
  <2> QED BY <1>1, <1>2, <2>1
<1> QED BY <1>1, <1>2, <1>3, <1>4

\* An access token stays as it is, is stored for a closed code, goes, or dies.
LEMMA AccessTokensMove ==
  ASSUME Typed, Safe, Lineage, [Next]_vars, NEW t \in Requests
  PROVE  LET n == <<"access", t>>
         IN  \/ Lifecycle!TokenStays(n)
             \/ Lifecycle!TokenIsBorn(n)
             \/ Lifecycle!TokenGoes(n)
             \/ Lifecycle!TokenDies(n)
<1> DEFINE n == <<"access", t>>
           Goal == \/ Lifecycle!TokenStays(n)
                   \/ Lifecycle!TokenIsBorn(n)
                   \/ Lifecycle!TokenGoes(n)
                   \/ Lifecycle!TokenDies(n)
<1> SUFFICES Goal
  OBVIOUS
<1>n. n \in TokenNames /\ n[1] = "access" /\ n[2] = t
  BY DEF TokenNames
<1>r. AccessTokenFormat = "jwt" => n \in RenewableNames
  BY DEF RenewableNames
<1>o. AccessTokenFormat = "jwt" \/ ~(Active(t) /\ ToCome(n))
  BY OpaqueOnce DEF Active, Fetch
<1>e. ToCome(n)' => ToCome(n)
  BY ToComeEnds
<1>i. \A r \in Requests : pc[r] = "issue" /\ req[r].minted = t => ToCome(n)
  BY ToComeSays
<1> HIDE DEF n
<1>c. /\ AbstractLife[n] = IF Active(t) THEN "live"
                           ELSE IF ToCome(n) THEN "pending" ELSE "dead"
      /\ AbstractLife'[n] = IF Active(t)' THEN "live"
                            ELSE IF ToCome(n)' THEN "pending" ELSE "dead"
      /\ AbstractParent[n] = IF ~Active(t) THEN Absent ELSE access[t].grant
      /\ AbstractParent'[n] = IF ~Active(t)' THEN Absent ELSE access'[t].grant
  BY <1>n DEF AbstractLife, AbstractParent, Alive
<1>1. CASE Active(t)' /\ Active(t) /\ access'[t] = access[t]
  BY <1>1, <1>c DEF Lifecycle!TokenStays
<1>2. ASSUME NEW r \in Requests, Active(t)', StoreAccess(r), req[r].minted = t,
             access'[t] = IssuedAccess(r)
      PROVE  Goal
  <2>1. pc[r] = "issue" /\ req[r] \in Request /\ req[r].grant \in Grants
        /\ RequestSafe("issue", req[r])
    BY <1>2 DEF StoreAccess, Typed, TypeOK, Control, Knows, Safe, Running
  <2>2. AbstractLife[n] \in {"pending"} \cup (IF n \in RenewableNames THEN {"live"} ELSE {})
    BY <1>2, <1>c, <1>i, <1>o, <1>r, <2>1
  <2>3. AbstractCode[req[r].grant] = "closed"
    BY <2>1 DEF RequestSafe, Inherits, AbstractCode
  <2>4. access'[t].grant = req[r].grant
    BY <1>2 DEF IssuedAccess
  <2> QED BY <1>2, <1>c, <2>1, <2>2, <2>3, <2>4 DEF Lifecycle!TokenIsBorn
<1>3. CASE ~Active(t)' /\ ToCome(n)' /\ ~Active(t)
  BY <1>3, <1>c, <1>e DEF Lifecycle!TokenStays
<1>4. CASE ~Active(t)' /\ ToCome(n)' /\ Active(t)
  BY <1>4, <1>c, <1>e, <1>o, <1>r DEF Lifecycle!TokenGoes
<1>5. CASE ~Active(t)' /\ ~ToCome(n)'
  BY <1>5, <1>c DEF Lifecycle!TokenDies
<1> HIDE DEF Goal
<1> QED BY <1>1, <1>2, <1>3, <1>4, <1>5, ActiveSteps

\* A refresh token, alive for as long as it is usable, is born once and dies once.
LEMMA RefreshTokensMove ==
  ASSUME Typed, Safe, Lineage, [Next]_vars, NEW t \in Requests
  PROVE  LET n == <<"refresh", t>>
         IN  \/ Lifecycle!TokenStays(n)
             \/ Lifecycle!TokenIsBorn(n)
             \/ Lifecycle!TokenDies(n)
<1> DEFINE n == <<"refresh", t>>
           early == Early \cup {"storeRefresh"}
           Goal == \/ Lifecycle!TokenStays(n)
                   \/ Lifecycle!TokenIsBorn(n)
                   \/ Lifecycle!TokenDies(n)
<1> SUFFICES Goal
  OBVIOUS
<1>n. n \in TokenNames /\ n[1] # "access" /\ n[2] = t
  BY DEF TokenNames
<1>b. ToCome(n) <=> pc[t] \in early
  BY ToComeSays
<1>b2. ToCome(n)' <=> pc'[t] \in early
  BY DEF ToCome, Early, Unmade
<1> HIDE DEF n, early
<1>c. /\ AbstractLife[n] = IF Usable(t) THEN "live"
                           ELSE IF pc[t] \in early THEN "pending" ELSE "dead"
      /\ AbstractLife'[n] = IF Usable(t)' THEN "live"
                            ELSE IF pc'[t] \in early THEN "pending" ELSE "dead"
      /\ AbstractParent[n] = IF ~Usable(t) THEN Absent ELSE refresh[t].grant
      /\ AbstractParent'[n] = IF ~Usable(t)' THEN Absent ELSE refresh'[t].grant
  BY <1>n, <1>b, <1>b2 DEF AbstractLife, AbstractParent, Alive
<1>e. pc[t] \in early => ~Usable(t)
  BY NothingEarly DEF early, Usable, Fetch
<1>1. CASE Usable(t)' /\ Usable(t) /\ refresh'[t] = refresh[t]
  BY <1>1, <1>c DEF Lifecycle!TokenStays
<1>2. CASE Usable(t)' /\ StoreRefresh(t) /\ refresh'[t] = IssuedRefresh(t)
  <2>1. pc[t] = "storeRefresh" /\ req[t] \in Request /\ req[t].grant \in Grants
        /\ RequestSafe("storeRefresh", req[t])
    BY <1>2 DEF StoreRefresh, Typed, TypeOK, Control, Knows, Safe, Running
  <2>2. pc[t] \in early /\ ~Usable(t)
    BY <1>e, <2>1 DEF early
  <2>3. AbstractCode[req[t].grant] = "closed"
    BY <2>1 DEF RequestSafe, Inherits, AbstractCode
  <2>4. refresh'[t].grant = req[t].grant
    BY <1>2 DEF IssuedRefresh
  <2> QED BY <1>2, <1>c, <2>1, <2>2, <2>3, <2>4 DEF Lifecycle!TokenIsBorn
<1>3. CASE ~Usable(t)' /\ pc'[t] \in early
  <2>1. pc[t] \in early
    BY <1>3, LabelsAdvance DEF early, StoreAccess, Generate, Early, Unmade
  <2> QED BY <1>3, <1>c, <1>e, <2>1 DEF Lifecycle!TokenStays
<1>4. CASE ~Usable(t)' /\ pc'[t] \notin early
  BY <1>4, <1>c DEF Lifecycle!TokenDies
<1> QED BY <1>1, <1>2, <1>3, <1>4, UsableSteps

\* Every step of the endpoints is a step of the life cycle, or none.
LEMMA LifecycleStep ==
  ASSUME Typed, Safe, Lineage, [Next]_vars
  PROVE  Lifecycle!Next
<1>1. AbstractCode' \in [Grants -> {"none", "open", "closed"}]
  BY DEF AbstractCode
<1>2. AbstractLife' \in [TokenNames -> {"pending", "live", "dead"}]
  BY DEF AbstractLife
<1>3. AbstractParent' \in [TokenNames -> Grants \cup {Absent}]
  <2>1. /\ access' \in [Requests -> AccessEntry \cup {Absent}]
        /\ refresh' \in [Requests -> RefreshEntry \cup {Absent}]
    BY NextTyped DEF Typed, TypeOK, StoresTypeOK
  <2>2. ASSUME NEW n \in TokenNames, Alive(n)'
        PROVE  (IF n[1] = "access" THEN access'[n[2]].grant ELSE refresh'[n[2]].grant)
                 \in Grants
    <3>1. n[2] \in Requests
      BY <2>2 DEF TokenNames
    <3>2. IF n[1] = "access" THEN access'[n[2]] # Absent ELSE refresh'[n[2]] # Absent
      BY <2>2 DEF Alive, Active, Usable, Fetch
    <3> QED BY <2>1, <3>1, <3>2 DEF AccessEntry, RefreshEntry
  <2> QED BY <2>2 DEF AbstractParent
<1>4. ASSUME NEW n \in TokenNames
      PROVE  \/ Lifecycle!TokenStays(n) \/ Lifecycle!TokenIsBorn(n)
             \/ Lifecycle!TokenGoes(n) \/ Lifecycle!TokenDies(n)
  <2>1. PICK t \in Requests : n = <<"access", t>> \/ n = <<"refresh", t>>
    BY <1>4 DEF TokenNames
  <2> QED BY <2>1, AccessTokensMove, RefreshTokensMove
<1> QED BY <1>1, <1>2, <1>3, <1>4, CodesMove DEF Lifecycle!Next

\* The token and revocation endpoints implement the abstract life cycle: whatever
\* the interleaving, codes close before tokens are stored; a refresh or opaque token is
\* born once, and a JWT is dead when the second it was made in is over.
THEOREM EndpointsImplementLifecycle == Spec => ImplementsLifecycle
<1>1. Typed /\ Safe /\ Lineage /\ [Next]_vars =>
        [Lifecycle!Next]_<<AbstractCode, AbstractLife, AbstractParent>>
  BY LifecycleStep
<1> QED BY <1>1, LifecycleInit, SafetyInvariant, LineageInvariant, PTL
        DEF Spec, ImplementsLifecycle, Lifecycle!Spec

-----------------------------------------------------------------------------
(* Tokens that are revoked from outside the endpoints, as when a consent   *)
(* is withdrawn.                                                           *)

\* Some tokens go, and nothing else changes.
TokensGo ==
  /\ UNCHANGED <<now, codes, pc, req, granted>>
  /\ access' \in [Requests -> AccessEntry \cup {Absent}]
  /\ refresh' \in [Requests -> RefreshEntry \cup {Absent}]
  /\ \A t \in Requests :
       access'[t] \in {access[t], Absent} /\ refresh'[t] \in {refresh[t], Absent}

\* What was safe stays so when tokens go.
LEMMA GoingIsSafe ==
  ASSUME Typed, Safe, Lineage, TokensGo
  PROVE  Typed' /\ Safe' /\ Lineage'
<1>1. Typed'
  BY DEF TokensGo, Typed, TypeOK, StoresTypeOK, Control
<1>a. Absent \notin AccessEntry /\ Absent \notin RefreshEntry
  BY StoresAssumption
<1>2. /\ \A t \in Requests, e \in AccessEntry : access'[t] = e => access[t] = e
      /\ \A t \in Requests, e \in RefreshEntry : refresh'[t] = e => refresh[t] = e
  BY <1>a DEF TokensGo
<1>3. Safe'
  <2>1. UNCHANGED <<now, codes, pc, req, granted>>
    BY DEF TokensGo
  <2>2. \A g \in Grants : CodeSafe(g)'
    BY <2>1 DEF Safe, CodeSafe, Matches
  <2>3. /\ \A e \in AccessEntry : AccessSafe(e) => AccessSafe(e)'
        /\ \A e \in RefreshEntry : RefreshSafe(e) => RefreshSafe(e)'
    BY <2>1 DEF AccessSafe, RefreshSafe, Within, Closed, Rooted, HasIssued
  <2>4. ASSUME NEW label \in Running \cup Ended, NEW q \in Request, RequestSafe(label, q)
        PROVE  RequestSafe(label, q)'
    BY <2>1, <2>4
    DEF RequestSafe, RefreshSafe, Matches, Inherits, Within, Closed, Rooted, HasIssued
  <2>5. \A r \in Requests, label \in Running \cup Ended, q \in Request :
          pc'[r] = label /\ req'[r] = q => RequestSafe(label, q)'
    BY <2>1, <2>4 DEF Safe
  <2> QED BY <1>2, <2>2, <2>3, <2>5 DEF Safe
<1>4. Lineage'
  <2>1. UNCHANGED <<now, codes, pc, req, granted>>
    BY DEF TokensGo
  <2> QED BY <1>2, <2>1 
         DEF Lineage, Named, MadeAs, TokensGo, LineageOf, Descends, Born, Of, HasIssued
<1> QED BY <1>1, <1>3, <1>4

\* To the life cycle, the tokens that go are gone or dead.
LEMMA GoingIsAStep ==
  ASSUME Typed, Safe, Lineage, TokensGo
  PROVE  Lifecycle!Next
<1>0. /\ UNCHANGED <<now, codes, pc, req, granted>>
      /\ access' \in [Requests -> AccessEntry \cup {Absent}]
      /\ refresh' \in [Requests -> RefreshEntry \cup {Absent}]
  BY DEF TokensGo
<1>1. AbstractCode' = AbstractCode
  BY <1>0 DEF AbstractCode, Closed
<1>2. AbstractCode' \in [Grants -> {"none", "open", "closed"}]
  BY DEF AbstractCode
<1>3. AbstractLife' \in [TokenNames -> {"pending", "live", "dead"}]
  BY DEF AbstractLife
<1>4. ASSUME NEW n \in TokenNames PROVE Alive(n)' => Alive(n)
  <2>1. n[2] \in Requests
    BY <1>4 DEF TokenNames
  <2> QED BY <1>0, <2>1 DEF TokensGo, Alive, Active, Usable, Fetch
<1>5. AbstractParent' \in [TokenNames -> Grants \cup {Absent}]
  <2>1. ASSUME NEW n \in TokenNames, Alive(n)'
        PROVE  (IF n[1] = "access" THEN access'[n[2]].grant ELSE refresh'[n[2]].grant)
                 \in Grants
    <3>1. n[2] \in Requests
      BY <2>1 DEF TokenNames
    <3>2. IF n[1] = "access" THEN access'[n[2]] # Absent ELSE refresh'[n[2]] # Absent
      BY <2>1 DEF Alive, Active, Usable, Fetch
    <3> QED BY <1>0, <3>1, <3>2 DEF AccessEntry, RefreshEntry
  <2> QED BY <2>1 DEF AbstractParent
<1>6. ASSUME NEW n \in TokenNames
      PROVE  \/ Lifecycle!TokenStays(n) \/ Lifecycle!TokenGoes(n)
             \/ Lifecycle!TokenDies(n)
  <2>0. PICK t \in Requests : n = <<"access", t>> \/ n = <<"refresh", t>>
    BY <1>6 DEF TokenNames
  <2>1. ToCome(n)' <=> ToCome(n)
    BY <1>0 DEF ToCome
  <2>2. CASE Alive(n) <=> Alive(n)'
    <3>1. AbstractLife'[n] = AbstractLife[n]
      BY <2>1, <2>2, <1>6 DEF AbstractLife
    <3>2. Alive(n)' => IF n[1] = "access" THEN access'[n[2]] = access[n[2]]
                                           ELSE refresh'[n[2]] = refresh[n[2]]
      BY <2>0 DEF TokensGo, Alive, Active, Usable, Fetch
    <3>3. AbstractParent'[n] = AbstractParent[n]
      BY <2>2, <3>2, <1>6 DEF AbstractParent
    <3> QED BY <3>1, <3>3 DEF Lifecycle!TokenStays
  <2>3. CASE Alive(n) /\ ~Alive(n)' /\ ~ToCome(n)
    BY <2>1, <2>3, <1>6 DEF Lifecycle!TokenDies, AbstractLife, AbstractParent
  <2>4. CASE Alive(n) /\ ~Alive(n)' /\ ToCome(n)
    <3>1. n = <<"access", t>>
      <4> SUFFICES ASSUME n = <<"refresh", t>> PROVE FALSE
        BY <2>0
      <4>1. pc[t] \in Early \cup {"storeRefresh"}
        BY <2>4, ToComeSays, Zenon
      <4>2. refresh[t] # Absent
        BY <2>4 DEF Alive, Usable, Fetch
      <4> QED BY <4>1, <4>2, NothingEarly
    <3>2. n \in RenewableNames
      BY <2>4, <3>1, OpaqueOnce, EndpointAssumption DEF Alive, Active, Fetch, RenewableNames
    <3> QED BY <2>1, <2>4, <3>2, <1>6 DEF Lifecycle!TokenGoes, AbstractLife, AbstractParent
  <2> QED BY <1>4, <2>2, <2>3, <2>4, <1>6
<1>7. \A g \in Grants : Lifecycle!CodeMoves(g)
  BY <1>1 DEF Lifecycle!CodeMoves
<1> QED BY <1>2, <1>3, <1>5, <1>6, <1>7 DEF Lifecycle!Next

-----------------------------------------------------------------------------
(* A spent refresh token has its successor.                                *)

\* A cascade that has begun is on record until it is over, and after.
LEMMA CascadesAdvance ==
  ASSUME Typed, [Next]_vars, NEW t \in Requests,
         pc[t] \in Cascading \cup {"replayed", "cut"}, req[t].kind # "revokeRefresh"
  PROVE  pc'[t] \in Cascading \cup {"replayed", "cut"}
<1> DEFINE Goal == pc'[t] \in Cascading \cup {"replayed", "cut"}
<1>t. pc \in [Requests -> Running \cup Ended \cup {"idle"}]
  BY DEF Typed, TypeOK
<1>1. CASE pc'[t] = pc[t]
  BY <1>1
<1>2. CASE Arrive(t) \/ RedeemStep(t) \/ RotateStep(t) \/ IssueStep(t) \/ RevokeStep(t)
  BY <1>2
  DEF Arrive, StartCode, StartRefresh, StartRevokeAccess, StartRevokeRefresh, Start,
      RedeemStep, CodeNotFound, CodeReplayed, CodeRejected, CodeAccepted, ConsumeCode,
      ConsumeCodeRead, ConsumeCodeWrite, Recheck,
      RotateStep, RefreshNotFound, RefreshReplayed, RefreshRejected, RefreshAccepted,
      RetireRefresh, RetireRefreshRead, RetireRefreshWrite,
      IssueStep, Generate, StoreAccess, StoreRefresh, Respond,
      RevokeStep, RevokeAccessFind, RevokeAccess, RevokeRefreshFind, RevokeRefresh,
      At, Cascading
<1>3. CASE CascadeStep(t) \/ Fail(t)
  <2>1. CASE \E u \in Requests : DeleteListedAccess(t, u) \/ DeleteListedRefresh(t, u)
    BY <2>1 DEF DeleteListedAccess, DeleteListedRefresh
  <2>2. CASE \/ CascadeAccess(t) \/ ListAccess(t) \/ AccessDeleted(t)
             \/ CascadeRefresh(t) \/ ListRefresh(t) \/ RefreshDeleted(t)
    BY <2>2, <1>t
    DEF CascadeAccess, ListAccess, AccessDeleted, CascadeRefresh, ListRefresh,
        RefreshDeleted, AfterAccessCascade, End, Goto, Cascading
  <2>3. CASE Fail(t)
    BY <2>3, <1>t DEF Fail, SigningFails, StoreFails, ResponseLost, End, Goto,
                    Cascading, Running
  <2> QED BY <1>3, <2>1, <2>2, <2>3 DEF CascadeStep
<1>4. ASSUME NEW r \in Requests, Arrive(r) \/ Serve(r) \/ Fail(r) PROVE Goal
  <2>1. CASE r # t
    BY <1>1, <1>4, <2>1, OthersWait
  <2>2. CASE r = t
    BY <1>2, <1>3, <1>4, <2>2 DEF Serve
  <2> QED BY <2>1, <2>2
<1> QED BY <1>1, <1>4 DEF Next, Clock, IssueCode, vars

\* A grant a cascade or a revocation has been at work on stays so marked.
LEMMA DisturbedKept ==
  ASSUME Typed, Safe, Lineage, [Next]_vars, NEW g \in Grants, Disturbed(g)
  PROVE  Disturbed(g)'
<1>1. PICK r \in Requests :
        /\ req[r] # Absent
        /\ req[r].grant = g
        /\ req[r].kind = "revokeRefresh" \/ pc[r] \in Cascading \cup {"replayed", "cut"}
  BY DEF Disturbed
<1>2. pc[r] \notin {"idle", "find"}
  <2>1. /\ req[r] \in Request /\ pc[r] \in Running \cup Ended /\ pc[r] # "idle"
    BY <1>1 DEF Typed, TypeOK, Control
  <2>2. LineageOf(pc[r], req[r])
    BY <2>1 DEF Lineage
  <2>3. g # Absent
    BY StoresAssumption
  <2> QED BY <1>1, <2>1, <2>2, <2>3 DEF LineageOf, Cascading
<1>3. req'[r] # Absent /\ req'[r].kind = req[r].kind /\ req'[r].grant = g
  BY <1>1, <1>2, GrantKept
<1>4. req'[r].kind = "revokeRefresh" \/ pc'[r] \in Cascading \cup {"replayed", "cut"}
  BY <1>1, <1>3, CascadesAdvance
<1> QED BY <1>3, <1>4 DEF Disturbed

\* The request has stored its refresh token, or its grant was disturbed, or the
\* lifetime of its family is over.
Settled(r) ==
  \/ refresh[r] # Absent
  \/ Disturbed(req[r].grant)
  \/ req[r].originalIssuedAt + RefreshLifetime <= now

\* A refresh token is retired only by a request that is settled.
Succession ==
  /\ \A r \in Requests : pc[r] \in {"retire", "markRetired"} => Settled(r)
  /\ \A t \in Requests, e \in RefreshEntry : refresh[t] = e /\ e.used =>
       \E r \in Requests :
         /\ HasIssued(r) /\ req[r].kind = "refresh" /\ req[r].token = t
         /\ Settled(r)

\* What an issued request has on record.
LEMMA IssuedHas ==
  ASSUME Typed, Safe, Lineage, NEW r \in Requests, HasIssued(r)
  PROVE  /\ req[r].grant \in Grants /\ req[r].originalIssuedAt \in Nat
         /\ req[r].kind = "refresh" =>
              /\ req[r].token \in Requests /\ Of(req[r].token, req[r].grant)
              /\ req[req[r].token].originalIssuedAt = req[r].originalIssuedAt
<1>1. /\ req[r] \in Request /\ pc[r] \in Running \cup Ended
      /\ Knows(pc[r], req[r]) /\ req[r].issuedAt # Absent
  BY IssuedIsLate DEF HasIssued, Typed, TypeOK, Control, Early, Unmade
<1>2. LineageOf(pc[r], req[r])
  BY <1>1 DEF Lineage
<1> QED BY <1>1, <1>2 DEF LineageOf, Knows

\* A stored refresh token expires with its family.
LEMMA StoredExpires ==
  ASSUME Typed, Safe, Lineage, NEW t \in Requests, refresh[t] # Absent
  PROVE  /\ refresh[t] \in RefreshEntry /\ Born(t)
         /\ refresh[t].grant = req[t].grant
         /\ refresh[t].expiresAt = req[t].originalIssuedAt + RefreshLifetime
<1>1. refresh[t] \in RefreshEntry
  BY DEF Typed, TypeOK, StoresTypeOK
<1>2. Descends(t, refresh[t]) /\ RefreshSafe(refresh[t])
  BY <1>1 DEF Lineage, Safe
<1> QED BY <1>1, <1>2 DEF Descends, RefreshSafe

\* Once settled, settled for good.
LEMMA SettledKept ==
  ASSUME Typed, Safe, Lineage, [Next]_vars, NEW r \in Requests, HasIssued(r), Settled(r)
  PROVE  Settled(r)'
<1>1. /\ req[r].grant \in Grants /\ req[r].originalIssuedAt \in Nat
      /\ req'[r].grant = req[r].grant
      /\ req'[r].originalIssuedAt = req[r].originalIssuedAt
  BY IssuedHas, IssuedKept
<1>2. /\ now \in Nat /\ now' \in Nat /\ now <= now' /\ RefreshLifetime \in Nat
      /\ refresh \in [Requests -> RefreshEntry \cup {Absent}]
      /\ Absent \notin RefreshEntry
  BY ClockAdvances, StoresAssumption DEF Typed, TypeOK, StoresTypeOK
<1>3. CASE Disturbed(req[r].grant)
  BY <1>1, <1>3, DisturbedKept DEF Settled
<1>4. CASE req[r].originalIssuedAt + RefreshLifetime <= now
  BY <1>1, <1>2, <1>4 DEF Settled
<1>5. CASE refresh[r] # Absent
  <2>1. CASE refresh'[r] # Absent
    BY <2>1 DEF Settled
  <2>2. CASE Evicted(r)
    BY <1>1, <1>2, <1>5, <2>2, StoredExpires DEF Evicted, Settled
  <2>3. ASSUME NEW s \in Requests, req[s].grant = req[r].grant, pc[s] \notin {"idle", "find"},
               req[s].kind = "revokeRefresh" \/ pc'[s] \in Cascading \cup {"replayed", "cut"}
        PROVE  Settled(r)'
    <3>1. /\ req'[s] # Absent /\ req'[s].grant = req[r].grant
          /\ req'[s].kind = req[s].kind
      BY <2>3, GrantKept
    <3> QED BY <1>1, <2>3, <3>1 DEF Disturbed, Settled
  <2>4. ASSUME NEW s \in Requests, CascadeRefresh(s), refresh[r].grant = req[s].grant
        PROVE  Settled(r)'
    <3>1. pc[s] = "cascadeRefresh" /\ pc'[s] = "replayed"
      BY <2>4 DEF CascadeRefresh, End, Goto, Typed, TypeOK
    <3> QED BY <1>5, <2>3, <2>4, <3>1, StoredExpires
  <2>5. ASSUME NEW s \in Requests, DeleteListedRefresh(s, r) PROVE Settled(r)'
    <3>1. pc[s] = "deleteRefresh" /\ pc'[s] = "deleteRefresh" /\ r \in req[s].doomed
          /\ req[s] \in Request
      BY <2>5 DEF DeleteListedRefresh, Typed, TypeOK, Control
    <3>2. Of(r, req[s].grant)
      BY <3>1 DEF Lineage, LineageOf, Running
    <3> QED BY <2>3, <3>1, <3>2 DEF Of, Cascading
  <2>6. ASSUME NEW s \in Requests, RevokeRefresh(s), req[s].token = r PROVE Settled(r)'
    <3>1. pc[s] = "delete" /\ req[s].kind = "revokeRefresh" /\ req[s] \in Request
      BY <2>6 DEF RevokeRefresh, At, Typed, TypeOK, Control
    <3>2. Of(r, req[s].grant)
      BY <2>6, <3>1 DEF Lineage, LineageOf, Running
    <3> QED BY <2>3, <3>1, <3>2 DEF Of
  <2>7. CASE Revoked(r)
    BY <2>4, <2>5, <2>6, <2>7 DEF Revoked
  <2>8. CASE refresh'[r] = refresh[r] \/ (refresh'[r] = Absent /\ (Evicted(r) \/ Revoked(r)))
    BY <1>5, <2>1, <2>2, <2>7, <2>8
  <2>9. CASE StoreRefresh(r) /\ refresh'[r] = IssuedRefresh(r)
    <3>1. refresh'[r] \in RefreshEntry \cup {Absent}
      BY NextTyped DEF Typed, TypeOK, StoresTypeOK
    <3>2. pc[r] = "storeRefresh"
      BY <2>9 DEF StoreRefresh
    <3> QED BY <1>5, <3>2, StoredExpires DEF Born
  <2>10. CASE refresh'[r] = Spent(refresh[r])
    BY <1>2, <1>5, <2>1, <2>10, SpentSays
  <2>11. ASSUME NEW s \in Requests, RetireRefreshWrite(s), refresh'[r] = Spent(req[s].entry)
         PROVE  Settled(r)'
    <3>1. req[s].entry \in RefreshEntry
      BY <2>11 DEF RetireRefreshWrite, At, Typed, TypeOK, Control, Knows
    <3> QED BY <1>2, <2>1, <2>11, <3>1, SpentSays
  <2> QED BY <2>8, <2>9, <2>10, <2>11, RefreshSteps
<1> QED BY <1>3, <1>4, <1>5 DEF Settled

\* A request comes to retire the token it presented only after it stored its own.
LEMMA RetiresLast ==
  ASSUME Typed, Safe, Lineage, [Next]_vars, NEW r \in Requests,
         pc'[r] \in {"retire", "markRetired"}
  PROVE  pc[r] \in {"retire", "markRetired"} \/ refresh'[r] # Absent
<1> DEFINE Goal == pc[r] \in {"retire", "markRetired"} \/ refresh'[r] # Absent
<1>t. /\ pc \in [Requests -> Running \cup Ended \cup {"idle"}]
      /\ refresh' \in [Requests -> RefreshEntry \cup {Absent}]
      /\ Absent \notin RefreshEntry
  BY NextTyped, StoresAssumption DEF Typed, TypeOK, StoresTypeOK
<1>1. CASE pc'[r] = pc[r]
  BY <1>1
<1>2. CASE \/ Arrive(r) \/ RedeemStep(r) \/ RevokeStep(r) \/ CascadeStep(r) \/ Fail(r)
           \/ Generate(r) \/ Respond(r) \/ RetireRefreshWrite(r) \/ RetireRefresh(r)
           \/ RefreshNotFound(r) \/ RefreshReplayed(r) \/ RefreshRejected(r)
           \/ RefreshAccepted(r)
  <2>1. CASE Arrive(r) \/ RedeemStep(r)
    BY <2>1, <1>t
    DEF Arrive, StartCode, StartRefresh, StartRevokeAccess, StartRevokeRefresh, Start,
        RedeemStep, CodeNotFound, CodeReplayed, CodeRejected, CodeAccepted, ConsumeCode,
        ConsumeCodeRead, ConsumeCodeWrite, Recheck, End, Goto
  <2>2. CASE RevokeStep(r) \/ Fail(r)
    BY <2>2, <1>t
    DEF RevokeStep, RevokeAccessFind, RevokeAccess, RevokeRefreshFind, RevokeRefresh, Verdict,
        Fail, SigningFails, StoreFails, ResponseLost, End, Goto
  <2>3. CASE CascadeStep(r)
    <3>1. CASE \E u \in Requests : DeleteListedAccess(r, u) \/ DeleteListedRefresh(r, u)
      BY <3>1, <1>1 DEF DeleteListedAccess, DeleteListedRefresh
    <3>2. CASE \/ CascadeAccess(r) \/ ListAccess(r) \/ AccessDeleted(r)
               \/ CascadeRefresh(r) \/ ListRefresh(r) \/ RefreshDeleted(r)
      BY <3>2, <1>t
      DEF CascadeAccess, ListAccess, AccessDeleted, CascadeRefresh, ListRefresh,
          RefreshDeleted, AfterAccessCascade, End, Goto
    <3> QED BY <2>3, <3>1, <3>2 DEF CascadeStep
  <2>4. CASE \/ Generate(r) \/ Respond(r) \/ RetireRefreshWrite(r) \/ RetireRefresh(r)
             \/ RefreshNotFound(r) \/ RefreshReplayed(r) \/ RefreshRejected(r)
             \/ RefreshAccepted(r)
    BY <2>4, <1>t
    DEF Generate, Respond, RetireRefreshWrite, RetireRefresh, RefreshNotFound, RefreshReplayed,
        RefreshRejected, RefreshAccepted, End, Goto
  <2> QED BY <1>2, <2>1, <2>2, <2>3, <2>4
<1>3. CASE RetireRefreshRead(r)
  BY <1>3 DEF RetireRefreshRead, At
<1>4. CASE StoreRefresh(r)
  <2>1. req[r] \in Request /\ Knows("storeRefresh", req[r])
    BY <1>4 DEF StoreRefresh, Typed, TypeOK, Control
  <2>2. IssuedRefresh(r) \in RefreshEntry
    BY <2>1, StoresAssumption
    DEF IssuedRefresh, RefreshEntry, Request, Knows, Cascading
  <2> QED BY <1>4, <1>t, <2>2 DEF StoreRefresh, AfterSet, Typed, TypeOK, StoresTypeOK
<1>5. CASE StoreAccess(r)
  <2>1. req[r] \in Request /\ req[r].kind = "refresh" /\ ~GrantHasOfflineAccess(r)
        /\ pc[r] = "issue"
    BY <1>5, <1>t DEF StoreAccess, AfterIssuance, Goto, Typed, TypeOK, Control
  <2>2. LineageOf("issue", req[r])
    BY <2>1 DEF Lineage, Running
  <2> QED BY <2>1, <2>2 DEF LineageOf, GrantHasOfflineAccess
<1>6. ASSUME NEW s \in Requests, Arrive(s) \/ Serve(s) \/ Fail(s) PROVE Goal
  <2>1. CASE s # r
    BY <1>1, <1>6, <2>1, OthersWait
  <2>2. CASE s = r
    BY <1>2, <1>3, <1>4, <1>5, <1>6, <2>2 DEF Serve, RotateStep, IssueStep
  <2> QED BY <2>1, <2>2
<1> QED BY <1>1, <1>6 DEF Next, Clock, IssueCode, vars

\* Every spent token has a settled successor, after every step.
LEMMA SuccessionKept ==
  ASSUME Typed, Safe, Lineage, Succession, [Next]_vars
  PROVE  Succession'
<1>t. /\ refresh \in [Requests -> RefreshEntry \cup {Absent}]
      /\ Absent \notin RefreshEntry
  BY StoresAssumption DEF Typed, TypeOK, StoresTypeOK
<1>r. ASSUME NEW r \in Requests, pc[r] \in {"retire", "markRetired"}
      PROVE  /\ HasIssued(r) /\ Settled(r)
             /\ req[r] \in Request /\ Knows(pc[r], req[r])
  <2>1. req[r] \in Request /\ Knows(pc[r], req[r]) /\ req[r] # Absent
    BY <1>r DEF Typed, TypeOK, Control
  <2>2. LineageOf(pc[r], req[r])
    BY <1>r, <2>1 DEF Lineage, Running
  <2> QED BY <1>r, <2>1, <2>2 DEF LineageOf, HasIssued, Succession
<1>1. ASSUME NEW r \in Requests, pc'[r] \in {"retire", "markRetired"}
      PROVE  Settled(r)'
  <2>1. CASE refresh'[r] # Absent
    BY <2>1 DEF Settled
  <2>2. CASE pc[r] \in {"retire", "markRetired"}
    BY <1>r, <2>2, SettledKept
  <2> QED BY <1>1, <2>1, <2>2, RetiresLast
<1>2. ASSUME NEW r \in Requests, NEW t \in Requests, HasIssued(r), Settled(r),
             req[r].kind = "refresh", req[r].token = t
      PROVE  /\ HasIssued(r)' /\ Settled(r)'
             /\ req'[r].kind = "refresh" /\ req'[r].token = t
  BY <1>2, IssuedKept, SettledKept
<1>3. ASSUME NEW t \in Requests, NEW e \in RefreshEntry, refresh'[t] = e, e.used
      PROVE  \E r \in Requests :
               /\ HasIssued(r)' /\ req'[r].kind = "refresh" /\ req'[r].token = t
               /\ Settled(r)'
  <2>1. CASE refresh[t] = e
    BY <1>2, <1>3, <2>1 DEF Succession
  <2>2. ASSUME NEW r \in Requests, RetireRefresh(r) \/ RetireRefreshWrite(r), req[r].token = t
        PROVE  \E s \in Requests :
                 /\ HasIssued(s)' /\ req'[s].kind = "refresh" /\ req'[s].token = t
                 /\ Settled(s)'
    <3>1. pc[r] \in {"retire", "markRetired"} /\ req[r].kind = "refresh"
      BY <2>2 DEF RetireRefresh, RetireRefreshWrite, At
    <3> QED BY <1>r, <1>2, <2>2, <3>1
  <2>3. CASE e = IssuedRefresh(t)
    BY <1>3, <2>3 DEF IssuedRefresh
  <2>4. refresh'[t] # Absent
    BY <1>3, <1>t
  <2> QED BY <1>3, <2>1, <2>2, <2>3, <2>4, RefreshSteps
<1> QED BY <1>1, <1>3 DEF Succession

\* A refresh token is spent only once its successor is stored: a rotation that
\* fails half way never leaves the client without one.
THEOREM SpentHasItsSuccessor == Spec => []SpentHasSuccessor
<1>1. Init => Succession
  BY StoresAssumption DEF Init, StoresInit, Succession
<1>2. Typed /\ Safe /\ Lineage /\ Succession /\ [Next]_vars => Succession'
  BY SuccessionKept
<1>3. Typed /\ Safe /\ Lineage /\ Succession => SpentHasSuccessor
  <2> SUFFICES ASSUME Typed, Safe, Lineage, Succession, NEW t \in Requests,
                      refresh[t] # Absent, refresh[t].used, refresh[t].expiresAt > now,
                      ~Disturbed(refresh[t].grant)
               PROVE  \E r \in Requests :
                        /\ req[r] # Absent
                        /\ req[r].kind = "refresh" /\ req[r].token = t
                        /\ refresh[r] # Absent
                        /\ refresh[r].expiresAt = refresh[t].expiresAt
    BY DEF SpentHasSuccessor
  <2>1. PICK r \in Requests :
          HasIssued(r) /\ req[r].kind = "refresh" /\ req[r].token = t /\ Settled(r)
    BY StoredExpires DEF Succession
  <2>2. /\ req[r].grant = req[t].grant
        /\ req[r].originalIssuedAt = req[t].originalIssuedAt
        /\ req[r].originalIssuedAt \in Nat
    BY <2>1, IssuedHas DEF Of
  <2>3. /\ refresh[t].grant = req[r].grant
        /\ refresh[t].expiresAt = req[r].originalIssuedAt + RefreshLifetime
    BY <2>2, StoredExpires
  <2>4. now \in Nat /\ RefreshLifetime \in Nat
    BY StoresAssumption DEF Typed, TypeOK, StoresTypeOK
  <2>5. refresh[r] # Absent
    BY <2>1, <2>2, <2>3, <2>4 DEF Settled
  <2>6. refresh[r].expiresAt = refresh[t].expiresAt
    BY <2>3, <2>5, StoredExpires
  <2> QED BY <2>1, <2>5, <2>6 DEF HasIssued
<1> QED BY <1>1, <1>2, <1>3, SafetyInvariant, LineageInvariant, PTL DEF Spec

-----------------------------------------------------------------------------
(* A grant that yields nothing more.                                       *)

\* The labels from which a request may still store something of its grant.
Yielding == {"consume", "markUsed", "recheck", "sign", "issue", "storeRefresh"}

\* Its code is spent, it has no access token, and nobody is about to store one of
\* its tokens, or a copy of one.
Barren(g) ==
  /\ Closed(g)
  /\ \A t \in Requests : access[t] # Absent => access[t].grant # g
  /\ \A t \in Requests : pc[t] \in Yielding => req[t].grant # g
  /\ \A t \in Requests : pc[t] # "markRetired"

\* And it has no refresh token.
Fallow(g) ==
  /\ Barren(g)
  /\ \A t \in Requests : refresh[t] # Absent => refresh[t].grant # g

\* What is served is in flight.
LEMMA ServedRuns ==
  ASSUME NEW r \in Requests, Serve(r) \/ Fail(r)
  PROVE  pc[r] \in Running
BY DEF Serve, RedeemStep, CodeNotFound, CodeReplayed, CodeRejected, CodeAccepted, ConsumeCode,
       ConsumeCodeRead, ConsumeCodeWrite, Recheck, RotateStep, RefreshNotFound,
       RefreshReplayed, RefreshRejected, RefreshAccepted, RetireRefresh, RetireRefreshRead,
       RetireRefreshWrite, IssueStep, Generate, StoreAccess, StoreRefresh, Respond, CascadeStep,
       CascadeAccess, ListAccess, AccessDeleted, CascadeRefresh, ListRefresh, RefreshDeleted,
       DeleteListedAccess, DeleteListedRefresh, RevokeStep, RevokeAccessFind, RevokeAccess,
       RevokeRefreshFind, RevokeRefresh, Fail, SigningFails, StoreFails, ResponseLost, At,
       Running

\* With atomic stores, nobody comes to store anything of a grant like that.
LEMMA NobodyYields ==
  ASSUME AtomicStore, Typed, Safe, NEW g \in Grants, Fallow(g), [Next]_vars,
         NEW t \in Requests, pc'[t] \in Yielding
  PROVE  req'[t].grant # g
<1> DEFINE Goal == req'[t].grant # g
<1> SUFFICES Goal
  OBVIOUS
<1>t. /\ pc \in [Requests -> Running \cup Ended \cup {"idle"}]
      /\ req \in [Requests -> Request \cup {Absent}]
      /\ codes \in [Grants -> CodeEntry \cup {Absent}]
      /\ refresh \in [Requests -> RefreshEntry \cup {Absent}]
  BY DEF Typed, TypeOK, StoresTypeOK
<1>1. CASE pc[t] \in Yielding
  BY <1>1, GrantKept DEF Fallow, Barren, Yielding
<1>2. CASE pc[t] \notin Yielding /\ pc'[t] = pc[t]
  BY <1>2
<1>3. CASE pc'[t] \notin Yielding
  BY <1>3
<1>4. ASSUME \/ CodeAccepted(t) \/ RefreshAccepted(t) PROVE Goal
  <2>r. req[t] \in Request /\ req[t] # Absent /\ Knows("find", req[t])
    BY <1>4, <1>t DEF CodeAccepted, RefreshAccepted, At, Typed, Control
  <2>1. CASE CodeAccepted(t)
    <3>1. /\ req'[t].grant = req[t].grant
          /\ codes[req[t].grant] # Absent /\ ~codes[req[t].grant].used
          /\ ~(codes[req[t].grant].expiresAt <= now)
      BY <1>t, <2>r, <2>1 DEF CodeAccepted, FindCode, Fetch, Request
    <3>2. codes[g] # Absent => codes[g].expiresAt = granted[g].expiresAt
      BY DEF Safe, CodeSafe, Matches
    <3> QED BY <3>1, <3>2 DEF Fallow, Barren, Closed
  <2>2. CASE RefreshAccepted(t)
    <3>1. /\ req'[t].grant = refresh[req[t].token].grant
          /\ refresh[req[t].token] # Absent /\ req[t].token \in Requests
      BY <1>t, <2>r, <2>2 DEF RefreshAccepted, FindRefresh, Fetch, Request, At, Knows
    <3> QED BY <3>1 DEF Fallow
  <2> QED BY <1>4, <2>1, <2>2
<1> HIDE DEF Goal
<1>5. ASSUME NEW r \in Requests, Arrive(r) \/ Serve(r) \/ Fail(r) PROVE Goal
  <2>1. CASE r # t
    BY <1>1, <1>2, <1>5, <2>1, OthersWait
  <2>2. CASE Arrive(t)
    BY <1>3, <1>t, <2>2
    DEF Arrive, StartCode, StartRefresh, StartRevokeAccess, StartRevokeRefresh, Start, Goto,
        Yielding
  <2>3. CASE RedeemStep(t)
    <3>1. \/ CodeAccepted(t) \/ pc'[t] \notin Yielding \/ pc[t] \in Yielding
      BY <1>t, <2>3
      DEF RedeemStep, CodeNotFound, CodeReplayed, CodeRejected, ConsumeCode,
          ConsumeCodeRead, ConsumeCodeWrite, Recheck, End, Goto, At, Yielding
    <3> QED BY <1>1, <1>3, <1>4, <3>1
  <2>4. CASE RotateStep(t)
    <3>1. \/ RefreshAccepted(t) \/ pc'[t] \notin Yielding \/ pc[t] \in Yielding
      BY <1>t, <2>4
      DEF RotateStep, RefreshNotFound, RefreshReplayed, RefreshRejected, RetireRefresh,
          RetireRefreshRead, RetireRefreshWrite, End, Goto, At, Yielding
    <3> QED BY <1>1, <1>3, <1>4, <3>1
  <2>5. CASE IssueStep(t)
    <3>1. pc'[t] \notin Yielding \/ pc[t] \in Yielding
      BY <1>t, <2>5 DEF IssueStep, Generate, StoreAccess, StoreRefresh, Respond, End, Goto, Yielding
    <3> QED BY <1>1, <1>3, <3>1
  <2>6. CASE CascadeStep(t) \/ RevokeStep(t) \/ Fail(t)
    <3>1. pc'[t] \notin Yielding \/ pc'[t] = pc[t]
      BY <1>t, <2>6
      DEF CascadeStep, CascadeAccess, ListAccess, AccessDeleted, CascadeRefresh, ListRefresh,
          RefreshDeleted, DeleteListedAccess, DeleteListedRefresh, AfterAccessCascade,
          RevokeStep, RevokeAccessFind, RevokeAccess, RevokeRefreshFind, RevokeRefresh,
          Verdict, Fail, SigningFails, StoreFails, ResponseLost, End, Goto, Yielding
    <3> QED BY <1>1, <1>2, <1>3, <3>1
  <2> QED BY <1>5, <2>1, <2>2, <2>3, <2>4, <2>5, <2>6 DEF Serve
<1>6. CASE UNCHANGED pc
  BY <1>1, <1>2, <1>6
<1> QED BY <1>5, <1>6 DEF Next, Clock, IssueCode, vars

\* Atomic stores make no copies.
LEMMA NobodyCopies ==
  ASSUME AtomicStore, Typed, [Next]_vars, \A t \in Requests : pc[t] # "markRetired"
  PROVE  \A t \in Requests : pc'[t] # "markRetired"
<1> SUFFICES ASSUME NEW t \in Requests, pc'[t] = "markRetired" PROVE FALSE
  OBVIOUS
<1>t. pc \in [Requests -> Running \cup Ended \cup {"idle"}]
  BY DEF Typed, TypeOK
<1>1. pc'[t] # pc[t]
  OBVIOUS
<1>2. ~Arrive(t)
  BY <1>t
  DEF Arrive, StartCode, StartRefresh, StartRevokeAccess, StartRevokeRefresh, Start, Goto
<1>3. ~RedeemStep(t) /\ ~RotateStep(t) /\ ~IssueStep(t)
  BY <1>t
  DEF RedeemStep, CodeNotFound, CodeReplayed, CodeRejected, CodeAccepted, ConsumeCode,
      ConsumeCodeRead, ConsumeCodeWrite, Recheck, RotateStep, RefreshNotFound,
      RefreshReplayed, RefreshRejected, RefreshAccepted, RetireRefresh, RetireRefreshRead,
      RetireRefreshWrite, IssueStep, Generate, StoreAccess, StoreRefresh, Respond, AfterIssuance,
      End, Goto
<1>4. ~CascadeStep(t) /\ ~RevokeStep(t) /\ ~Fail(t)
  BY <1>t, <1>1
  DEF CascadeStep, CascadeAccess, ListAccess, AccessDeleted, CascadeRefresh, ListRefresh,
      RefreshDeleted, DeleteListedAccess, DeleteListedRefresh, AfterAccessCascade,
      RevokeStep, RevokeAccessFind, RevokeAccess, RevokeRefreshFind, RevokeRefresh,
      Verdict, Fail, SigningFails, StoreFails, ResponseLost, End, Goto
<1>5. \A r \in Requests : ~(Arrive(r) \/ Serve(r) \/ Fail(r))
  BY <1>1, <1>2, <1>3, <1>4, OthersWait DEF Serve
<1> QED BY <1>1, <1>5 DEF Next, Clock, IssueCode, vars

\* It yields nothing more.
LEMMA FallowKept ==
  ASSUME AtomicStore, Typed, Safe, NEW g \in Grants, Fallow(g), [Next]_vars
  PROVE  Fallow(g)'
<1>1. \A t \in Requests : pc'[t] # "markRetired"
  BY NobodyCopies DEF Fallow, Barren
<1>r. \A t \in Requests : pc[t] \in Yielding => req[t] \in Request /\ req[t].grant # g
  BY DEF Fallow, Barren, Typed, TypeOK, Control, Yielding
<1>2. Closed(g)'
  BY CodesKept DEF Fallow, Barren
<1>3. ASSUME NEW t \in Requests, access'[t] # Absent PROVE access'[t].grant # g
  <2>1. CASE access'[t] = access[t]
    BY <1>3, <2>1 DEF Fallow, Barren
  <2>2. ASSUME NEW r \in Requests, StoreAccess(r), access'[t] = IssuedAccess(r)
        PROVE  access'[t].grant # g
    BY <1>r, <2>2 DEF StoreAccess, IssuedAccess, Yielding
  <2> QED BY <1>3, <2>1, <2>2, AccessSteps
<1>4. ASSUME NEW t \in Requests, refresh'[t] # Absent PROVE refresh'[t].grant # g
  <2>1. CASE refresh'[t] = refresh[t]
    BY <1>4, <2>1 DEF Fallow
  <2>2. CASE StoreRefresh(t) /\ refresh'[t] = IssuedRefresh(t)
    BY <1>r, <2>2 DEF StoreRefresh, IssuedRefresh, Yielding
  <2>3. CASE refresh[t] # Absent /\ refresh'[t] = Spent(refresh[t])
    <3>1. refresh[t] \in RefreshEntry
      BY <2>3 DEF Typed, TypeOK, StoresTypeOK
    <3> QED BY <2>3, <3>1 DEF Fallow, Spent, RefreshEntry
  <2>4. ASSUME NEW r \in Requests, RetireRefreshWrite(r) PROVE FALSE
    BY <2>4 DEF Fallow, Barren, RetireRefreshWrite, At
  <2> QED BY <1>4, <2>1, <2>2, <2>3, <2>4, RefreshSteps
<1>5. \A t \in Requests : pc'[t] \in Yielding => req'[t].grant # g
  BY NobodyYields
<1> QED BY <1>1, <1>2, <1>3, <1>4, <1>5 DEF Fallow, Barren
=============================================================================
