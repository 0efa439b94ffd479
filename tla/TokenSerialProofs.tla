-------------------------- MODULE TokenSerialProofs --------------------------
(***************************************************************************)
(* What serving requests one at a time buys, proved for any number of      *)
(* grants, clients, scopes and requests, both kinds of store and any       *)
(* failure: a code is redeemed once, a grant is left one usable refresh    *)
(* token, and an answered replay leaves nothing alive.  Every theorem has  *)
(* the hypothesis MaxInFlight = 1; the run TokenRaceRedeem shows that the  *)
(* first of them is false without it.                                      *)
(***************************************************************************)
EXTENDS TokenLineageProofs, FiniteSetTheorems

-----------------------------------------------------------------------------
(* One request at a time.                                                  *)

Alone == \A r1, r2 \in Requests : pc[r1] \in Running /\ pc[r2] \in Running => r1 = r2

\* A request arrives only when none is being served.
LEMMA ArrivesAlone ==
  ASSUME MaxInFlight = 1, Typed, Alone, NEW r \in Requests, Arrive(r)
  PROVE  \A s \in Requests : pc[s] \notin Running
<1>1. Cardinality(InFlight) < 1
  BY DEF Arrive, StartCode, StartRefresh, StartRevokeAccess, StartRevokeRefresh, Start
<1> SUFFICES ASSUME NEW s \in Requests, pc[s] \in Running PROVE FALSE
  OBVIOUS
<1>2. InFlight = {s}
  BY DEF Alone, InFlight
<1>3. Cardinality({s}) = 1
  BY FS_Singleton
<1> QED BY <1>1, <1>2, <1>3

\* Only a request in flight is served, or dies.
LEMMA ServesInFlight ==
  ASSUME NEW r \in Requests, Serve(r) \/ Fail(r)
  PROVE  pc[r] \in Running
BY DEF Serve, RedeemStep, CodeNotFound, CodeReplayed, CodeRejected, CodeAccepted,
       ConsumeCode, ConsumeCodeRead, ConsumeCodeWrite, Recheck,
       RotateStep, RefreshNotFound, RefreshReplayed, RefreshRejected, RefreshAccepted,
       RetireRefresh, RetireRefreshRead, RetireRefreshWrite,
       IssueStep, Generate, StoreAccess, StoreRefresh, Respond,
       CascadeStep, CascadeAccess, ListAccess, AccessDeleted, CascadeRefresh,
       ListRefresh, RefreshDeleted, DeleteListedAccess, DeleteListedRefresh,
       RevokeStep, RevokeAccessFind, RevokeAccess, RevokeRefreshFind, RevokeRefresh,
       Fail, SigningFails, StoreFails, ResponseLost, At, Running

\* So there is never a second one.
LEMMA StaysAlone ==
  ASSUME MaxInFlight = 1, Typed, Alone, [Next]_vars
  PROVE  Alone'
<1>1. CASE UNCHANGED pc
  BY <1>1 DEF Alone
<1>2. ASSUME NEW r \in Requests, Arrive(r) \/ Serve(r) \/ Fail(r)
      PROVE  Alone'
  <2>1. \A s \in Requests \ {r} : pc'[s] = pc[s]
    BY <1>2, OthersWait
  <2>2. \A s \in Requests \ {r} : pc[s] \notin Running
    <3>1. CASE Arrive(r)
      BY <3>1, ArrivesAlone
    <3>2. CASE Serve(r) \/ Fail(r)
      BY <3>2, ServesInFlight DEF Alone
    <3> QED BY <1>2, <3>1, <3>2
  <2> QED BY <2>1, <2>2 DEF Alone
<1> QED BY <1>1, <1>2 DEF Next, vars, Clock, IssueCode

-----------------------------------------------------------------------------
(* How a request reaches each label.                                       *)

Redeeming == {"consume", "markUsed", "recheck", "sign", "issue"}
Minting == Redeeming \cup {"storeRefresh"}
Leaving == {"retire", "markRetired", "respond"}

\* The labels a step of the request may have brought it to, and from where.
Reaches(r) ==
  /\ pc'[r] = "find" => pc[r] = "find" \/ Arrive(r)
  /\ pc'[r] \in Redeeming => pc[r] \in Redeeming \/ CodeAccepted(r) \/ RefreshAccepted(r)
  /\ pc'[r] \in Minting => pc[r] \in Minting \/ CodeAccepted(r) \/ RefreshAccepted(r)
  /\ pc'[r] \in Leaving => pc[r] \in Leaving \/ pc[r] \in Minting
  /\ pc'[r] = "respond" =>
       \/ pc[r] = "respond" \/ req[r].kind # "refresh"
       \/ RetireRefresh(r) \/ RetireRefreshRead(r) \/ RetireRefreshWrite(r)
  /\ pc'[r] = "done" =>
       pc[r] = "done" \/ Respond(r) \/ req[r].kind \in {"revokeAccess", "revokeRefresh"}
  /\ pc'[r] = "cascadeAccess" =>
       pc[r] = "cascadeAccess" \/ CodeReplayed(r) \/ RefreshReplayed(r) \/ RevokeRefresh(r)
  /\ pc'[r] = "deleteAccess" => pc[r] = "deleteAccess" \/ ListAccess(r)
  /\ pc'[r] = "cascadeRefresh" =>
       pc[r] = "cascadeRefresh" \/ CascadeAccess(r) \/ AccessDeleted(r)
  /\ pc'[r] = "deleteRefresh" => pc[r] = "deleteRefresh" \/ ListRefresh(r)
  /\ pc'[r] = "replayed" => pc[r] = "replayed" \/ CascadeRefresh(r) \/ RefreshDeleted(r)

\* Every step respects that table.
LEMMA ReachesByStep ==
  ASSUME Typed, [Next]_vars, NEW r \in Requests
  PROVE  Reaches(r)
<1>t. /\ pc \in [Requests -> Running \cup Ended \cup {"idle"}]
      /\ req \in [Requests -> Request \cup {Absent}]
      /\ pc[r] # "idle" => req[r] \in Request /\ Knows(pc[r], req[r])
  BY DEF Typed, TypeOK, Control
<1>0. CASE pc'[r] = pc[r]
  BY <1>0 DEF Reaches
<1>1. CASE Arrive(r)
  <2>1. pc'[r] = "find"
    BY <1>1, <1>t
    DEF Arrive, StartCode, StartRefresh, StartRevokeAccess, StartRevokeRefresh, Start, Goto
  <2> QED BY <1>1, <2>1 DEF Reaches, Redeeming, Minting, Leaving
<1>2. CASE RedeemStep(r)
  <2>1. \/ pc'[r] = "denied"
        \/ pc'[r] = "cascadeAccess" /\ CodeReplayed(r)
        \/ pc'[r] = "consume" /\ CodeAccepted(r)
        \/ pc'[r] \in Redeeming /\ pc[r] \in Redeeming
    <3>1. CASE CodeNotFound(r) \/ CodeReplayed(r) \/ CodeRejected(r) \/ CodeAccepted(r)
      BY <3>1, <1>t
      DEF CodeNotFound, CodeReplayed, CodeRejected, CodeAccepted, End, Goto
    <3>2. CASE ConsumeCode(r) \/ ConsumeCodeRead(r) \/ ConsumeCodeWrite(r) \/ Recheck(r)
      BY <3>2, <1>t
      DEF ConsumeCode, ConsumeCodeRead, ConsumeCodeWrite, Recheck, At, End, Goto, Redeeming
    <3> QED BY <1>2, <3>1, <3>2 DEF RedeemStep
  <2> QED BY <2>1 DEF Reaches, Redeeming, Minting, Leaving
<1>3. CASE RotateStep(r)
  <2>1. \/ pc'[r] = "denied"
        \/ pc'[r] = "cascadeAccess" /\ RefreshReplayed(r)
        \/ pc'[r] = "sign" /\ RefreshAccepted(r)
        \/ pc'[r] = "markRetired" /\ pc[r] \in Leaving
        \/ /\ pc'[r] = "respond" /\ pc[r] \in Leaving
           /\ RetireRefresh(r) \/ RetireRefreshRead(r) \/ RetireRefreshWrite(r)
    <3>1. CASE RefreshNotFound(r) \/ RefreshReplayed(r) \/ RefreshRejected(r) \/ RefreshAccepted(r)
      BY <3>1, <1>t
      DEF RefreshNotFound, RefreshReplayed, RefreshRejected, RefreshAccepted, End, Goto
    <3>2. CASE RetireRefresh(r) \/ RetireRefreshRead(r) \/ RetireRefreshWrite(r)
      <4>1. pc[r] \in Leaving /\ pc'[r] \in {"markRetired", "respond"}
        BY <3>2, <1>t
        DEF RetireRefresh, RetireRefreshRead, RetireRefreshWrite, At, Goto, Leaving
      <4> QED BY <3>2, <4>1
    <3> QED BY <1>3, <3>1, <3>2 DEF RotateStep
  <2> QED BY <2>1 DEF Reaches, Redeeming, Minting, Leaving
<1>4. CASE IssueStep(r)
  <2>1. \/ pc'[r] = "done" /\ Respond(r)
        \/ pc'[r] = "issue" /\ pc[r] = "sign"
        \/ pc'[r] = "storeRefresh" /\ pc[r] = "issue"
        \/ pc'[r] = "retire" /\ pc[r] \in Minting
        \/ pc'[r] = "respond" /\ pc[r] \in Minting /\ req[r].kind # "refresh"
    BY <1>4, <1>t
    DEF IssueStep, Generate, StoreAccess, StoreRefresh, Respond, AfterIssuance, End, Goto, Redeeming, Minting
  <2> QED BY <2>1 DEF Reaches, Redeeming, Minting, Leaving
<1>5. CASE CascadeStep(r)
  <2>1. \/ pc'[r] = pc[r]
        \/ pc'[r] = "deleteAccess" /\ ListAccess(r)
        \/ pc'[r] = "cascadeRefresh" /\ (CascadeAccess(r) \/ AccessDeleted(r))
        \/ pc'[r] = "done" /\ req[r].kind = "revokeRefresh"
        \/ pc'[r] = "deleteRefresh" /\ ListRefresh(r)
        \/ pc'[r] = "replayed" /\ (CascadeRefresh(r) \/ RefreshDeleted(r))
    <3>1. CASE \E u \in Requests : DeleteListedAccess(r, u) \/ DeleteListedRefresh(r, u)
      BY <3>1 DEF DeleteListedAccess, DeleteListedRefresh
    <3>2. CASE CascadeAccess(r) \/ AccessDeleted(r)
      <4>1. pc'[r] = AfterAccessCascade(r)
        BY <3>2, <1>t DEF CascadeAccess, AccessDeleted, End, Goto
      <4> QED BY <3>2, <4>1 DEF AfterAccessCascade
    <3>3. CASE ListAccess(r) \/ CascadeRefresh(r) \/ ListRefresh(r) \/ RefreshDeleted(r)
      BY <3>3, <1>t DEF ListAccess, CascadeRefresh, ListRefresh, RefreshDeleted, End, Goto
    <3> QED BY <1>5, <3>1, <3>2, <3>3 DEF CascadeStep
  <2> QED BY <1>0, <2>1 DEF Reaches, Redeeming, Minting, Leaving
<1>6. CASE RevokeStep(r)
  <2>1. \/ pc'[r] \in {"denied", "delete"}
        \/ pc'[r] = "done" /\ req[r].kind \in {"revokeAccess", "revokeRefresh"}
        \/ pc'[r] = "cascadeAccess" /\ RevokeRefresh(r)
    BY <1>6, <1>t
    DEF RevokeStep, RevokeAccessFind, RevokeAccess, RevokeRefreshFind, RevokeRefresh,
        Verdict, At, End, Goto
  <2> QED BY <2>1 DEF Reaches, Redeeming, Minting, Leaving
<1>7. CASE Fail(r)
  <2>1. pc'[r] \in {"lost", "cut"}
    BY <1>7, <1>t DEF Fail, SigningFails, StoreFails, ResponseLost, Running, End, Goto
  <2> QED BY <2>1 DEF Reaches, Redeeming, Minting, Leaving
<1>8. CASE UNCHANGED pc
  BY <1>0, <1>8
<1>9. ASSUME NEW s \in Requests \ {r}, Arrive(s) \/ Serve(s) \/ Fail(s)
      PROVE  pc'[r] = pc[r]
  BY <1>9, OthersWait
<1> QED BY <1>0, <1>1, <1>2, <1>3, <1>4, <1>5, <1>6, <1>7, <1>8, <1>9
        DEF Next, vars, Clock, IssueCode, Serve

\* A request saves an access token in one step only.
LEMMA IssuesByStep ==
  ASSUME Typed, Safe, [Next]_vars, NEW r \in Requests, HasIssued(r)'
  PROVE  HasIssued(r) \/ StoreAccess(r)
<1> DEFINE Goal == HasIssued(r) \/ StoreAccess(r)
           Changed == \/ \E m, i : req'[r] = [req[r] EXCEPT !.minted = m, !.madeAt = i]
                      \/ \E s : req'[r] = [req[r] EXCEPT !.scope = s]
                      \/ \E e : req'[r] = [req[r] EXCEPT !.entry = e]
                      \/ \E d : req'[r] = [req[r] EXCEPT !.doomed = d]
                      \/ \E g : req'[r] = [req[r] EXCEPT !.grant = g]
<1>t. /\ pc \in [Requests -> Running \cup Ended \cup {"idle"}]
      /\ req \in [Requests -> Request \cup {Absent}]
      /\ req[r] # Absent => req[r] \in Request
      /\ pc[r] = "idle" <=> req[r] = Absent
      /\ req'[r] # Absent /\ req'[r].issuedAt # Absent
  BY DEF Typed, TypeOK, Control, HasIssued
<1>1. CASE req'[r] = req[r]
  BY <1>1, <1>t DEF HasIssued
<1>2. ASSUME Changed, pc[r] # "idle" PROVE Goal
  <2>1. req[r] \in Request /\ req[r] # Absent
    BY <1>2, <1>t
  <2>2. req'[r].issuedAt = req[r].issuedAt
    BY <1>2, <2>1 DEF Request
  <2> QED BY <2>1, <2>2, <1>t DEF HasIssued
<1>3. CASE Arrive(r)
  <2>1. req'[r].issuedAt = Absent
    BY <1>3, <1>t
    DEF Arrive, StartCode, StartRefresh, StartRevokeAccess, StartRevokeRefresh, Start
  <2> QED BY <2>1, <1>t
<1>4. CASE RedeemStep(r)
  <2>1. pc[r] # "idle" /\ (req'[r] = req[r] \/ Changed)
    BY <1>4, <1>t
    DEF RedeemStep, CodeNotFound, CodeReplayed, CodeRejected, CodeAccepted, ConsumeCode,
        ConsumeCodeRead, ConsumeCodeWrite, Recheck, End, At
  <2> HIDE DEF Changed, Goal
  <2> QED BY <1>1, <1>2, <2>1 DEF Goal
<1>5. CASE RotateStep(r)
  <2>1. pc[r] # "idle"
    BY <1>5
    DEF RotateStep, RefreshNotFound, RefreshReplayed, RefreshRejected, RefreshAccepted,
        RetireRefresh, RetireRefreshRead, RetireRefreshWrite, At
  <2>2. CASE RefreshAccepted(r)
    <3>1. req'[r] = [req[r] EXCEPT
            !.grant = FindRefresh(r).grant,
            !.entry = FindRefresh(r),
            !.scope = IF req[r].asks THEN @ ELSE FindRefresh(r).scope,
            !.originalIssuedAt = FindRefresh(r).originalIssuedAt]
      BY <2>2, <1>t DEF RefreshAccepted
    <3>2. req[r] \in Request /\ req[r] # Absent
      BY <1>t, <2>1
    <3>3. req'[r].issuedAt = req[r].issuedAt
      BY <3>1, <3>2 DEF Request
    <3> QED BY <3>2, <3>3, <1>t DEF HasIssued
  <2>3. CASE \/ RefreshNotFound(r) \/ RefreshReplayed(r) \/ RefreshRejected(r)
             \/ RetireRefresh(r) \/ RetireRefreshRead(r) \/ RetireRefreshWrite(r)
    <3>1. req'[r] = req[r] \/ Changed
      BY <2>3, <1>t
      DEF RefreshNotFound, RefreshReplayed, RefreshRejected, RetireRefresh, RetireRefreshRead,
          RetireRefreshWrite, End
    <3> HIDE DEF Changed, Goal
    <3> QED BY <1>1, <1>2, <2>1, <3>1 DEF Goal
  <2> QED BY <1>5, <2>2, <2>3 DEF RotateStep
<1>6. CASE IssueStep(r)
  <2>1. CASE Generate(r)
    <3>1. pc[r] # "idle" /\ \E m, i : req'[r] = [req[r] EXCEPT !.minted = m, !.madeAt = i]
      <4>1. PICK m : req' = [req EXCEPT ![r].minted = m, ![r].madeAt = now]
        BY <2>1 DEF Generate
      <4>2. req'[r] = [req[r] EXCEPT !.minted = m, !.madeAt = now]
        BY <4>1, <1>t
      <4> QED BY <2>1, <4>2 DEF Generate
    <3>2. Changed
      BY <3>1
    <3> HIDE DEF Changed, Goal
    <3> QED BY <1>2, <3>1, <3>2 DEF Goal
  <2> QED BY <1>1, <1>6, <2>1 DEF IssueStep, StoreRefresh, Respond, End
<1>7. CASE CascadeStep(r)
  <2>1. pc[r] # "idle"
    BY <1>7
    DEF CascadeStep, CascadeAccess, ListAccess, AccessDeleted, CascadeRefresh, ListRefresh,
        RefreshDeleted, DeleteListedAccess, DeleteListedRefresh
  <2>2. req'[r] = req[r] \/ Changed
    <3>1. ASSUME NEW u \in Requests, DeleteListedAccess(r, u) \/ DeleteListedRefresh(r, u)
          PROVE  req'[r] = [req[r] EXCEPT !.doomed = req[r].doomed \ {u}]
      BY <3>1, <1>t DEF DeleteListedAccess, DeleteListedRefresh
    <3>2. CASE \/ CascadeAccess(r) \/ ListAccess(r) \/ AccessDeleted(r)
               \/ CascadeRefresh(r) \/ ListRefresh(r) \/ RefreshDeleted(r)
      BY <3>2, <1>t
      DEF CascadeAccess, ListAccess, AccessDeleted, CascadeRefresh, ListRefresh,
          RefreshDeleted, End
    <3> QED BY <1>7, <3>1, <3>2 DEF CascadeStep
  <2> HIDE DEF Changed, Goal
  <2> QED BY <1>1, <1>2, <2>1, <2>2 DEF Goal
<1>8. CASE RevokeStep(r)
  <2>1. pc[r] # "idle" /\ (req'[r] = req[r] \/ Changed)
    BY <1>8, <1>t
    DEF RevokeStep, RevokeAccessFind, RevokeAccess, RevokeRefreshFind, RevokeRefresh, End, At
  <2> HIDE DEF Changed, Goal
  <2> QED BY <1>1, <1>2, <2>1 DEF Goal
<1>9. CASE Fail(r)
  BY <1>1, <1>9 DEF Fail, SigningFails, StoreFails, ResponseLost, End
<1>10. ASSUME NEW s \in Requests \ {r}, Arrive(s) \/ Serve(s) \/ Fail(s)
       PROVE  req'[r] = req[r]
  BY <1>10, OthersWait
<1>11. CASE UNCHANGED req
  BY <1>1, <1>11
<1> HIDE DEF Changed, Goal
<1> QED BY <1>1, <1>3, <1>4, <1>5, <1>6, <1>7, <1>8, <1>9, <1>10, <1>11
        DEF Next, vars, Clock, IssueCode, Serve, Goal

\* A code is accepted while it is open.
LEMMA AcceptedCode ==
  ASSUME Typed, Safe, NEW r \in Requests, CodeAccepted(r)
  PROVE  /\ req[r].kind = "code" /\ req[r].grant \in Grants
         /\ req'[r].kind = "code" /\ req'[r].grant = req[r].grant
         /\ ~Closed(req[r].grant)
<1>t. /\ now \in Nat
      /\ codes \in [Grants -> CodeEntry \cup {Absent}]
      /\ req \in [Requests -> Request \cup {Absent}]
      /\ req[r] \in Request /\ Knows(pc[r], req[r])
      /\ Absent \notin CodeEntry
  BY StoresAssumption DEF Typed, TypeOK, StoresTypeOK, Control, CodeAccepted, At
<1>1. req[r].kind = "code" /\ req[r].grant \in Grants
  BY <1>t DEF CodeAccepted, At, Knows
<1>2. req'[r] = [req[r] EXCEPT !.scope = FindCode(r).scope]
  BY <1>t DEF CodeAccepted
<1>3. req'[r].kind = "code" /\ req'[r].grant = req[r].grant
  BY <1>1, <1>2, <1>t DEF Request
<1>4. ~Closed(req[r].grant)
  <2>1. FindCode(r) # Absent /\ ~FindCode(r).used
    BY DEF CodeAccepted
  <2>2. /\ codes[req[r].grant] \in CodeEntry /\ codes[req[r].grant] # Absent
        /\ ~codes[req[r].grant].used
        /\ ~(codes[req[r].grant].expiresAt <= now)
    BY <1>1, <1>t, <2>1 DEF FindCode, Fetch
  <2>3. granted[req[r].grant].expiresAt = codes[req[r].grant].expiresAt
    BY <1>1, <2>2 DEF Safe, CodeSafe, Matches
  <2> QED BY <2>2, <2>3 DEF Closed
<1> QED BY <1>1, <1>3, <1>4

\* A refresh token is accepted while it is usable.
LEMMA AcceptedRefresh ==
  ASSUME Typed, NEW r \in Requests, RefreshAccepted(r)
  PROVE  /\ req[r].kind = "refresh" /\ req[r].token \in Requests /\ pc'[r] = "sign"
         /\ req'[r].kind = "refresh" /\ req'[r].token = req[r].token
         /\ req'[r].grant = refresh[req[r].token].grant
         /\ Usable(req[r].token)
<1>t. /\ now \in Nat
      /\ pc \in [Requests -> Running \cup Ended \cup {"idle"}]
      /\ req \in [Requests -> Request \cup {Absent}]
      /\ req[r] \in Request /\ Knows(pc[r], req[r])
      /\ Absent \notin RefreshEntry
  BY StoresAssumption DEF Typed, TypeOK, StoresTypeOK, Control, RefreshAccepted, At
<1>1. req[r].kind = "refresh" /\ req[r].token \in Requests
  BY <1>t DEF RefreshAccepted, At, Knows
<1>2. req'[r] = [req[r] EXCEPT
        !.grant = FindRefresh(r).grant,
        !.entry = FindRefresh(r),
        !.scope = IF req[r].asks THEN @ ELSE FindRefresh(r).scope,
        !.originalIssuedAt = FindRefresh(r).originalIssuedAt]
  BY <1>t DEF RefreshAccepted
<1>3. /\ req'[r].kind = "refresh" /\ req'[r].token = req[r].token
      /\ req'[r].grant = FindRefresh(r).grant
  BY <1>1, <1>2, <1>t DEF Request
<1>4. FindRefresh(r) # Absent /\ ~FindRefresh(r).used /\ pc'[r] = "sign"
  BY <1>t DEF RefreshAccepted, Goto
<1>5. FindRefresh(r) = refresh[req[r].token] /\ Usable(req[r].token)
  BY <1>4 DEF FindRefresh, Usable, Fetch
<1> QED BY <1>1, <1>3, <1>4, <1>5

-----------------------------------------------------------------------------
(* A code is redeemed once.                                                *)

Redeems(r) == HasIssued(r) /\ req[r].kind = "code"
Pursues(r) == pc[r] \in Redeeming /\ req[r].kind = "code"

\* Whoever issued had a closed code behind it, and no other redemption of the
\* code is under way.
Once ==
  /\ \A r \in Requests : HasIssued(r) =>
       /\ req[r].kind \in {"code", "refresh"}
       /\ req[r].grant \in Grants /\ Closed(req[r].grant)
  /\ CodeRedeemedOnce
  /\ \A r1, r2 \in Requests :
       Pursues(r1) /\ Redeems(r2) => req[r1].grant # req[r2].grant

\* No step redeems a code a second time.
LEMMA OnceKept ==
  ASSUME MaxInFlight = 1, Typed, Safe, Alone, Once, [Next]_vars
  PROVE  Once'
<1>1. ASSUME NEW r \in Requests, HasIssued(r)'
      PROVE  /\ req'[r].kind \in {"code", "refresh"}
             /\ req'[r].grant \in Grants
             /\ \A g \in Grants : req'[r].grant = g => Closed(g)'
  <2>1. req[r].kind \in {"code", "refresh"} /\ req[r].grant \in Grants /\ Closed(req[r].grant)
    <3>1. CASE HasIssued(r)
      BY <3>1 DEF Once
    <3>2. CASE StoreAccess(r)
      <4>1. pc[r] = "issue" /\ req[r] \in Request /\ Knows("issue", req[r])
        BY <3>2 DEF StoreAccess, Typed, TypeOK, Control
      <4>2. RequestSafe("issue", req[r])
        BY <4>1 DEF Safe, Running
      <4> QED BY <4>1, <4>2 DEF Knows, RequestSafe
    <3> QED BY <1>1, <3>1, <3>2, IssuesByStep
  <2>2. req'[r].kind = req[r].kind /\ req'[r].grant = req[r].grant
    <3>1. CASE HasIssued(r)
      BY <3>1, IssuedKept
    <3>2. CASE StoreAccess(r)
      BY <3>2, GrantKept DEF StoreAccess
    <3> QED BY <1>1, <3>1, <3>2, IssuesByStep
  <2>3. \A g \in Grants : Closed(g) => Closed(g)'
    BY CodesKept
  <2> QED BY <2>1, <2>2, <2>3
<1>2. ASSUME NEW r \in Requests, Redeems(r)'
      PROVE  /\ Redeems(r) \/ (StoreAccess(r) /\ Pursues(r))
             /\ req'[r].grant = req[r].grant
  <2>1. CASE HasIssued(r)
    BY <1>2, <2>1, IssuedKept DEF Redeems, Pursues
  <2>2. CASE StoreAccess(r)
    BY <1>2, <2>2, GrantKept DEF StoreAccess, Redeeming, Redeems, Pursues
  <2> QED BY <1>2, <2>1, <2>2, IssuesByStep DEF Redeems, Pursues
<1>3. ASSUME NEW r \in Requests, Pursues(r)'
      PROVE  /\ Pursues(r) \/ CodeAccepted(r)
             /\ req'[r].grant = req[r].grant /\ req[r].grant = req'[r].grant
             /\ ~StoreAccess(r)
  <2>1. ~StoreAccess(r)
    <3>1. ASSUME StoreAccess(r) PROVE pc'[r] \in {"storeRefresh", "retire", "respond"}
      BY <3>1 DEF StoreAccess, AfterIssuance, Goto, Typed, TypeOK, Redeems, Pursues
    <3> QED BY <1>3, <3>1 DEF Redeeming, Redeems, Pursues
  <2>2. CASE pc[r] \in Redeeming
    BY <1>3, <2>1, <2>2, GrantKept DEF Redeeming, Redeems, Pursues
  <2>3. CASE CodeAccepted(r)
    BY <2>1, <2>3, AcceptedCode DEF Redeems, Pursues
  <2>4. ~RefreshAccepted(r)
    BY <1>3, AcceptedRefresh DEF Redeems, Pursues
  <2> QED BY <1>3, <2>2, <2>3, <2>4, ReachesByStep DEF Reaches, Redeems, Pursues
<1>4. ASSUME NEW r1 \in Requests, NEW r2 \in Requests, Redeems(r1)', Redeems(r2)',
             req'[r1].grant = req'[r2].grant
      PROVE  r1 = r2
  <2>1. req[r1].grant = req[r2].grant
    BY <1>2, <1>4
  <2>2. CASE Redeems(r1) /\ Redeems(r2)
    BY <2>1, <2>2 DEF Once, CodeRedeemedOnce, Redeems
  <2>3. CASE (Pursues(r1) /\ Redeems(r2)) \/ (Pursues(r2) /\ Redeems(r1))
    BY <2>1, <2>3 DEF Once, Redeems, Pursues
  <2>4. CASE Pursues(r1) /\ Pursues(r2)
    BY <2>4 DEF Alone, Redeeming, Running, Pursues
  <2>5. Redeems(r1) \/ Pursues(r1)
    BY <1>2, <1>4
  <2>6. Redeems(r2) \/ Pursues(r2)
    BY <1>2, <1>4
  <2> QED BY <2>2, <2>3, <2>4, <2>5, <2>6
<1>5. ASSUME NEW r1 \in Requests, NEW r2 \in Requests, Pursues(r1)', Redeems(r2)',
             req'[r1].grant = req'[r2].grant
      PROVE  FALSE
  <2>1. req[r1].grant = req[r2].grant
    BY <1>2, <1>3, <1>5
  <2>2. CASE CodeAccepted(r1) /\ Redeems(r2)
    BY <2>1, <2>2, AcceptedCode DEF Once, Redeems
  <2>3. CASE Pursues(r1) /\ Redeems(r2)
    BY <2>1, <2>3 DEF Once, Redeems, Pursues
  <2>4. CASE StoreAccess(r2)
    <3>1. pc[r1] \in Running /\ pc[r2] \in Running
      BY <1>3, <1>5, <2>4 DEF CodeAccepted, StoreAccess, At, Running, Redeeming, Pursues
    <3> QED BY <1>3, <1>5, <2>4, <3>1 DEF Alone
  <2> QED BY <1>2, <1>3, <1>5, <2>2, <2>3, <2>4
<1>6. CodeRedeemedOnce'
  BY <1>4 DEF CodeRedeemedOnce, Redeems
<1>7. \A r \in Requests : HasIssued(r)' =>
        /\ req'[r].kind \in {"code", "refresh"}
        /\ req'[r].grant \in Grants /\ Closed(req[r].grant)'
  BY <1>1
<1> QED BY <1>5, <1>6, <1>7 DEF Once, Redeems, Pursues

\* "MUST: single use" (authorization-code-grant.ts).
THEOREM CodesAreRedeemedOnce == ASSUME MaxInFlight = 1 PROVE Spec => []CodeRedeemedOnce
<1>1. Init => Alone /\ Once
  BY DEF Init, StoresInit, Alone, Once, CodeRedeemedOnce, Pursues, HasIssued, Running,
         Redeeming
<1>2. Typed /\ Safe /\ Alone /\ Once /\ [Next]_vars => (Alone /\ Once)'
  BY StaysAlone, OnceKept
<1>3. Once => CodeRedeemedOnce
  BY DEF Once
<1> QED BY <1>1, <1>2, <1>3, SafetyInvariant, PTL DEF Spec

-----------------------------------------------------------------------------
(* A grant is left one usable refresh token.                               *)

\* A request that stays at its label has read nothing, unless it is working
\* through its list of keys to delete.
LEMMA StaysByStep ==
  ASSUME Typed, [Next]_vars, NEW r \in Requests, pc'[r] = pc[r]
  PROVE  \/ req'[r] = req[r]
         \/ \E t \in Requests : DeleteListedAccess(r, t) \/ DeleteListedRefresh(r, t)
<1>t. pc \in [Requests -> Running \cup Ended \cup {"idle"}]
  BY DEF Typed, TypeOK
<1>1. ~Arrive(r)
  BY <1>t DEF Arrive, StartCode, StartRefresh, StartRevokeAccess, StartRevokeRefresh, Start, Goto
<1>2. ~RedeemStep(r)
  BY <1>t
  DEF RedeemStep, CodeNotFound, CodeReplayed, CodeRejected, CodeAccepted, ConsumeCode,
      ConsumeCodeRead, ConsumeCodeWrite, Recheck, At, End, Goto
<1>3. ~RotateStep(r)
  BY <1>t
  DEF RotateStep, RefreshNotFound, RefreshReplayed, RefreshRejected, RefreshAccepted,
      RetireRefresh, RetireRefreshRead, RetireRefreshWrite, At, End, Goto
<1>4. ~IssueStep(r)
  BY <1>t DEF IssueStep, Generate, StoreAccess, StoreRefresh, Respond, AfterIssuance, End, Goto
<1>5. CASE CascadeStep(r)
  <2>1. ~(CascadeAccess(r) \/ AccessDeleted(r))
    BY <1>t DEF CascadeAccess, AccessDeleted, AfterAccessCascade, End, Goto
  <2>2. ~(ListAccess(r) \/ CascadeRefresh(r) \/ ListRefresh(r) \/ RefreshDeleted(r))
    BY <1>t DEF ListAccess, CascadeRefresh, ListRefresh, RefreshDeleted, End, Goto
  <2> QED BY <1>5, <2>1, <2>2 DEF CascadeStep
<1>6. ~RevokeStep(r)
  BY <1>t
  DEF RevokeStep, RevokeAccessFind, RevokeAccess, RevokeRefreshFind, RevokeRefresh,
      Verdict, At, End, Goto
<1>7. ~Fail(r)
  BY <1>t DEF Fail, SigningFails, StoreFails, ResponseLost, Running, End, Goto
<1>8. ASSUME NEW s \in Requests \ {r}, Arrive(s) \/ Serve(s) \/ Fail(s)
      PROVE  req'[r] = req[r]
  BY <1>8, OthersWait
<1> QED BY <1>1, <1>2, <1>3, <1>4, <1>5, <1>6, <1>7, <1>8
        DEF Next, vars, Clock, IssueCode, Serve

\* A usable refresh token of the grant whose response was delivered.
Lead(t, g) == Usable(t) /\ pc[t] = "done" /\ refresh[t].grant = g

\* While a request of the grant is at work, the only usable token of the grant
\* is the one it presented; and once that one is retired, there is none.
Leads ==
  /\ \A t1, t2 \in Requests, g \in Grants : Lead(t1, g) /\ Lead(t2, g) => t1 = t2
  /\ \A r \in Requests :
       pc[r] = "find" /\ req[r].kind = "refresh" => pc[req[r].token] = "done"
  /\ \A r, t \in Requests, g \in Grants :
       pc[r] \in Minting \cup Leaving /\ req[r].grant = g /\ Lead(t, g) =>
         req[r].kind = "refresh" /\ req[r].token = t
  /\ \A r \in Requests :
       pc[r] = "respond" /\ req[r].kind = "refresh" => ~Usable(req[r].token)

\* A stored refresh token has its request's grant, and that grant is closed.
LEMMA UsableHas ==
  ASSUME Typed, Safe, Lineage, Once, NEW t \in Requests, Usable(t)
  PROVE  /\ HasIssued(t) /\ req[t].kind \in {"code", "refresh"}
         /\ refresh[t] \in RefreshEntry /\ refresh[t].grant \in Grants
         /\ refresh[t].grant = req[t].grant
         /\ Closed(refresh[t].grant)
<1>1. refresh[t] # Absent
  BY DEF Usable, Fetch
<1>2. refresh[t] \in RefreshEntry /\ Born(t) /\ refresh[t].grant = req[t].grant
  BY <1>1, StoredExpires
<1> QED BY <1>2 DEF Once, Born, RefreshEntry

\* A token takes the lead when its response is delivered.
LEMMA LeadsByStep ==
  ASSUME Typed, Safe, Lineage, Once, [Next]_vars,
         NEW t \in Requests, NEW g \in Grants, Lead(t, g)'
  PROVE  Lead(t, g) \/ (Respond(t) /\ Usable(t) /\ refresh[t].grant = g)
<1>1. ~StoreRefresh(t)
  BY DEF StoreRefresh, AfterIssuance, Goto, Lead, Typed, TypeOK
<1>2. Usable(t) /\ refresh'[t] = refresh[t]
  BY <1>1, UsableSteps DEF Lead
<1>3. pc[t] = "done" \/ Respond(t)
  BY <1>2, UsableHas, ReachesByStep DEF Lead, Reaches
<1> QED BY <1>2, <1>3 DEF Lead

\* The refresh token a rotation presented is spent when it comes to answer.
LEMMA RetiredByStep ==
  ASSUME Typed, Alone, [Next]_vars, NEW r \in Requests, NEW t \in Requests,
         pc'[r] = "respond", pc[r] # "respond", req[r].kind = "refresh", req[r].token = t
  PROVE  ~Usable(t)'
<1>t. /\ refresh \in [Requests -> RefreshEntry \cup {Absent}]
      /\ pc \in [Requests -> Running \cup Ended \cup {"idle"}]
      /\ req[r] \in Request \/ req[r] = Absent
      /\ pc[r] = "markRetired" => req[r].entry \in RefreshEntry
      /\ Absent \notin RefreshEntry
  BY StoresAssumption DEF Typed, TypeOK, StoresTypeOK, Control, Knows
<1>1. RetireRefresh(r) \/ RetireRefreshRead(r) \/ RetireRefreshWrite(r)
  BY ReachesByStep DEF Reaches
<1>2. refresh'[t] = Absent \/ refresh'[t].used
  <2>1. CASE RetireRefresh(r)
    <3>1. refresh' = AfterConsume(refresh, req[r].token)
      BY <2>1 DEF RetireRefresh
    <3>2. CASE refresh[t] = Absent
      BY <3>1, <3>2 DEF AfterConsume
    <3>3. CASE refresh[t] # Absent
      <4>1. refresh'[t] = Spent(refresh[t])
        BY <3>1, <3>3, <1>t DEF AfterConsume
      <4> QED BY <4>1, <3>3, <1>t, SpentSays
    <3> QED BY <3>2, <3>3
  <2>2. CASE RetireRefreshRead(r)
    <3>1. FindRefresh(r) = Absent
      BY <2>2, <1>t DEF RetireRefreshRead, Goto
    <3>2. refresh'[t] = FindRefresh(r)
      BY <2>2, <1>t DEF RetireRefreshRead, ReadRefresh, AfterGet, FindRefresh
    <3> QED BY <3>1, <3>2
  <2>3. CASE RetireRefreshWrite(r)
    <3>1. refresh'[t] = Spent(req[r].entry)
      BY <2>3, <1>t DEF RetireRefreshWrite, AfterSet
    <3>2. req[r].entry \in RefreshEntry
      BY <2>3, <1>t DEF RetireRefreshWrite, At
    <3> QED BY <3>1, <3>2, SpentSays
  <2> QED BY <1>1, <2>1, <2>2, <2>3
<1> QED BY <1>2 DEF Usable, Fetch

\* No step makes a second refresh token usable.
LEMMA LeadsKept ==
  ASSUME MaxInFlight = 1, Typed, Safe, Lineage, Alone, Once, Leads, [Next]_vars
  PROVE  Leads'
<1>t. /\ pc \in [Requests -> Running \cup Ended \cup {"idle"}]
      /\ req \in [Requests -> Request \cup {Absent}]
      /\ \A r \in Requests : pc[r] # "idle" => req[r] \in Request /\ Knows(pc[r], req[r])
  BY DEF Typed, TypeOK, Control
<1>a. Alone'
  BY StaysAlone
<1>1. ASSUME NEW t \in Requests, NEW g \in Grants, NEW r \in Requests,
             Lead(t, g)', ~Lead(t, g), pc'[r] \in Running
      PROVE  FALSE
  <2>1. Respond(t)
    BY <1>1, LeadsByStep
  <2>2. pc[t] = "respond" /\ pc'[t] = "done"
    BY <2>1, <1>t DEF Respond, End, Goto
  <2>3. r # t
    BY <1>1, <2>2 DEF Running
  <2>4. pc'[r] = pc[r]
    <3>1. Arrive(t) \/ Serve(t) \/ Fail(t)
      BY <2>1 DEF Serve, IssueStep
    <3> QED BY <3>1, <2>3, OthersWait
  <2> QED BY <1>1, <2>2, <2>3, <2>4 DEF Alone, Running
<1>2. ASSUME NEW t1 \in Requests, NEW t2 \in Requests, NEW g \in Grants,
             Lead(t1, g)', Lead(t2, g)'
      PROVE  t1 = t2
  <2>1. ASSUME NEW t \in Requests, NEW u \in Requests, Lead(t, g), Respond(u), Usable(u),
               refresh[u].grant = g
        PROVE  t = u
    <3>1. pc[u] = "respond" /\ req[u].grant = g /\ req[u].kind \in {"code", "refresh"}
      BY <2>1, UsableHas DEF Respond
    <3>2. req[u].kind = "refresh" /\ req[u].token = t
      BY <2>1, <3>1 DEF Leads, Leaving
    <3>3. ~Usable(t)
      BY <3>1, <3>2 DEF Leads
    <3> QED BY <2>1, <3>3 DEF Lead
  <2>2. ASSUME NEW t \in Requests, NEW u \in Requests, Respond(t), Respond(u)
        PROVE  t = u
    BY <2>2 DEF Respond, Alone, Running
  <2>3. CASE Lead(t1, g) /\ Lead(t2, g)
    BY <2>3 DEF Leads
  <2>4. Lead(t1, g) \/ (Respond(t1) /\ Usable(t1) /\ refresh[t1].grant = g)
    BY <1>2, LeadsByStep
  <2>5. Lead(t2, g) \/ (Respond(t2) /\ Usable(t2) /\ refresh[t2].grant = g)
    BY <1>2, LeadsByStep
  <2> QED BY <2>1, <2>2, <2>3, <2>4, <2>5
<1>3. ASSUME NEW r \in Requests, NEW t \in Requests,
             pc'[r] = "find", req'[r].kind = "refresh", req'[r].token = t
      PROVE  pc'[t] = "done"
  <2>1. ASSUME pc[t] = "done" PROVE pc'[t] = "done"
    <3>1. ASSUME NEW s \in Requests \ {t}, Arrive(s) \/ Serve(s) \/ Fail(s)
          PROVE  pc'[t] = pc[t]
      BY <3>1, OthersWait
    <3>2. ~Serve(t) /\ ~Fail(t)
      BY <2>1, ServesInFlight DEF Running
    <3>3. ~Arrive(t)
      BY <2>1
      DEF Arrive, StartCode, StartRefresh, StartRevokeAccess, StartRevokeRefresh, Start
    <3> QED BY <2>1, <3>1, <3>2, <3>3 DEF Next, vars, Clock, IssueCode
  <2>2. CASE pc[r] = "find"
    <3>1. req'[r] = req[r]
      BY <1>3, <2>2, StaysByStep DEF DeleteListedAccess, DeleteListedRefresh
    <3>2. pc[t] = "done"
      BY <1>3, <2>2, <3>1 DEF Leads
    <3> QED BY <2>1, <3>2
  <2>3. CASE Arrive(r)
    <3>1. req'[r].kind = "refresh" => Minted(req'[r].token)
      BY <2>3, <1>t
      DEF Arrive, StartCode, StartRefresh, StartRevokeAccess, StartRevokeRefresh, Start
    <3> QED BY <1>3, <2>1, <3>1 DEF Minted
  <2> QED BY <1>3, <2>2, <2>3, ReachesByStep DEF Reaches
<1>4. ASSUME NEW r \in Requests, NEW t \in Requests, NEW g \in Grants,
             pc'[r] \in Minting \cup Leaving, req'[r].grant = g, Lead(t, g)'
      PROVE  req'[r].kind = "refresh" /\ req'[r].token = t
  <2>1. Lead(t, g)
    <3>1. pc'[r] \in Running
      BY <1>4 DEF Minting, Redeeming, Leaving, Running
    <3> QED BY <1>1, <1>4, <3>1
  <2>2. CASE pc[r] \in Minting \cup Leaving
    <3>1. pc[r] \notin {"idle", "find"}
      BY <2>2 DEF Minting, Redeeming, Leaving
    <3>2. /\ req'[r].kind = req[r].kind /\ req'[r].grant = req[r].grant
          /\ req'[r].token = req[r].token
      BY <3>1, GrantKept
    <3> QED BY <1>4, <2>1, <2>2, <3>2 DEF Leads
  <2>3. CASE CodeAccepted(r)
    <3>1. ~Closed(g)
      BY <1>4, <2>3, AcceptedCode
    <3> QED BY <2>1, <3>1, UsableHas DEF Lead
  <2>4. CASE RefreshAccepted(r)
    <3>1. /\ req[r].token \in Requests /\ Usable(req[r].token)
          /\ refresh[req[r].token].grant = g
          /\ req'[r].kind = "refresh" /\ req'[r].token = req[r].token
          /\ pc[r] = "find" /\ req[r].kind = "refresh"
      BY <1>4, <2>4, AcceptedRefresh DEF RefreshAccepted, At
    <3>2. pc[req[r].token] = "done"
      BY <3>1 DEF Leads
    <3>3. Lead(req[r].token, g)
      BY <3>1, <3>2 DEF Lead
    <3> QED BY <2>1, <3>1, <3>3 DEF Leads
  <2> QED BY <1>4, <2>2, <2>3, <2>4, ReachesByStep DEF Reaches
<1>5. ASSUME NEW r \in Requests, NEW t \in Requests,
             pc'[r] = "respond", req'[r].kind = "refresh", req'[r].token = t
      PROVE  ~Usable(t)'
  <2>1. pc[r] \in Minting \cup Leaving
    BY <1>5, ReachesByStep DEF Reaches, Leaving
  <2>2. req[r].kind = "refresh" /\ req[r].token = t
    BY <1>5, <2>1, GrantKept DEF Minting, Redeeming, Leaving
  <2>3. CASE pc[r] # "respond"
    BY <1>5, <2>2, <2>3, RetiredByStep
  <2>4. ASSUME pc[r] = "respond", Usable(t)' PROVE FALSE
    <3>1. ~Usable(t)
      BY <2>2, <2>4 DEF Leads
    <3>2. StoreRefresh(t)
      BY <2>4, <3>1, UsableSteps
    <3>3. r = t
      BY <2>4, <3>2 DEF Alone, StoreRefresh, Running
    <3> QED BY <2>4, <3>2, <3>3 DEF StoreRefresh
  <2> QED BY <2>3, <2>4
<1>6. ASSUME NEW r \in Requests, pc'[r] = "find", req'[r].kind = "refresh"
      PROVE  req'[r].token \in Requests
  BY <1>6, NextTyped DEF Typed, TypeOK, Control, Knows
<1>7. ASSUME NEW r \in Requests, pc'[r] = "respond", req'[r].kind = "refresh"
      PROVE  req'[r].token \in Requests
  BY <1>7, NextTyped DEF Typed, TypeOK, Control, Knows
<1>8. \A r \in Requests : pc'[r] = "find" /\ req'[r].kind = "refresh" => pc'[req'[r].token] = "done"
  BY <1>3, <1>6
<1>9. \A r \in Requests : pc'[r] = "respond" /\ req'[r].kind = "refresh" =>
                            ~Usable(req[r].token)'
  <2> SUFFICES ASSUME NEW r \in Requests, pc'[r] = "respond", req'[r].kind = "refresh"
               PROVE  ~Usable(req[r].token)'
    OBVIOUS
  <2>1. PICK t \in Requests : req'[r].token = t
    BY <1>7
  <2>2. ~Usable(t)'
    BY <1>5, <2>1
  <2> QED BY <2>1, <2>2 DEF Usable, Fetch
<1> QED BY <1>2, <1>4, <1>8, <1>9 DEF Leads

\* A delivered rotation leaves its grant one usable refresh token.
THEOREM OneRefreshTokenIsUsable == ASSUME MaxInFlight = 1 PROVE Spec => []OneUsableRefresh
<1>1. Init => Alone /\ Once /\ Leads
  BY DEF Init, StoresInit, Alone, Once, CodeRedeemedOnce, Pursues, HasIssued, Running,
         Redeeming, Leads, Lead, Minting, Leaving
<1>2. /\ Typed /\ Safe /\ Lineage /\ Alone /\ Once /\ Leads
      /\ [Next]_vars
      => (Alone /\ Once /\ Leads)'
  BY StaysAlone, OnceKept, LeadsKept
<1>3. Typed /\ Safe /\ Lineage /\ Once /\ Leads => OneUsableRefresh
  BY UsableHas DEF Leads, Lead, OneUsableRefresh
<1> QED BY <1>1, <1>2, <1>3, SafetyInvariant, LineageInvariant, PTL DEF Spec

-----------------------------------------------------------------------------
(* An answered replay leaves nothing alive.                                *)

\* The labels at which the access tokens of the grant are gone.
AccessGone == {"cascadeRefresh", "deleteRefresh", "replayed"}

\* The live tokens of the grant that a cascade has still to reach are on its
\* list; what it has reached stays dead, since the grant is closed and nothing
\* that could mint a token of it is left.
Extinction ==
  /\ \A r \in Requests :
       pc[r] \in Cascading \cup {"replayed"} /\ req[r].kind # "revokeRefresh" =>
         req[r].grant \in Grants /\ Closed(req[r].grant)
  /\ \A r \in Requests : pc[r] \in AccessGone => req[r].kind # "revokeRefresh"
  /\ \A r, t \in Requests : pc[r] \in AccessGone /\ Active(t) => access[t].grant # req[r].grant
  /\ \A r, t \in Requests :
       pc[r] = "replayed" /\ Usable(t) => refresh[t].grant # req[r].grant
  /\ \A r, t \in Requests :
       pc[r] = "deleteAccess" /\ Active(t) /\ access[t].grant = req[r].grant =>
         t \in req[r].doomed
  /\ \A r, t \in Requests :
       pc[r] = "deleteRefresh" /\ Usable(t) /\ refresh[t].grant = req[r].grant =>
         t \in req[r].doomed
  /\ \A r, s \in Requests :
       pc[r] = "replayed" /\ pc[s] \in Minting => req[r].grant # req[s].grant

\* A cascade over a grant begins when the grant is closed, unless it is the
\* revocation of one refresh token.
LEMMA CascadeOfClosed ==
  ASSUME Typed, Safe, Extinction, [Next]_vars, NEW r \in Requests,
         pc'[r] \in Cascading \cup {"replayed"}, req'[r].kind # "revokeRefresh"
  PROVE  \A g \in Grants : req'[r].grant = g => Closed(g)'
<1> SUFFICES ASSUME NEW g \in Grants, req'[r].grant = g PROVE Closed(g)'
  OBVIOUS
<1>t. /\ pc \in [Requests -> Running \cup Ended \cup {"idle"}]
      /\ req \in [Requests -> Request \cup {Absent}]
      /\ codes \in [Grants -> CodeEntry \cup {Absent}]
      /\ refresh \in [Requests -> RefreshEntry \cup {Absent}]
      /\ pc[r] # "idle" => req[r] \in Request /\ req[r] # Absent /\ Knows(pc[r], req[r])
      /\ Absent \notin RefreshEntry /\ Absent \notin CodeEntry
  BY StoresAssumption, EndpointAssumption DEF Typed, TypeOK, StoresTypeOK, Control
<1>1. SUFFICES Closed(g)
  BY CodesKept
<1>2. CASE pc[r] \in Cascading \cup {"replayed"}
  <2>1. req'[r].kind = req[r].kind /\ req'[r].grant = req[r].grant
    BY <1>2, GrantKept DEF Cascading
  <2> QED BY <1>2, <2>1 DEF Extinction
<1>3. CASE CodeReplayed(r)
  <2>1. req[r] \in Request /\ req[r].kind = "code" /\ req[r].grant = g
    BY <1>3, <1>t DEF CodeReplayed, At
  <2>2. FindCode(r) # Absent /\ FindCode(r).used
    BY <1>3 DEF CodeReplayed
  <2>3. codes[g] # Absent /\ codes[g].used
    BY <2>1, <2>2 DEF FindCode, Fetch
  <2>4. granted[g] # Absent
    BY <2>3 DEF Safe, CodeSafe, Matches
  <2> QED BY <2>3, <2>4 DEF Closed
<1>4. CASE RefreshReplayed(r)
  <2>1. req[r] \in Request /\ req[r].token \in Requests
    BY <1>4, <1>t DEF RefreshReplayed, At, Knows
  <2>2. FindRefresh(r) # Absent
    BY <1>4 DEF RefreshReplayed
  <2>3. refresh[req[r].token] \in RefreshEntry /\ FindRefresh(r) = refresh[req[r].token]
    BY <2>1, <2>2, <1>t DEF FindRefresh, Fetch
  <2>4. req'[r] = [req[r] EXCEPT !.grant = FindRefresh(r).grant]
    BY <1>4, <1>t DEF RefreshReplayed
  <2>5. g = refresh[req[r].token].grant
    BY <2>1, <2>3, <2>4 DEF Request
  <2>6. RefreshSafe(refresh[req[r].token])
    BY <2>1, <2>3 DEF Safe
  <2> QED BY <2>5, <2>6 DEF RefreshSafe
<1>5. CASE RevokeRefresh(r)
  BY <1>5 DEF RevokeRefresh, At
<1> QED BY <1>2, <1>3, <1>4, <1>5, ReachesByStep
        DEF Reaches, Cascading, ListAccess, CascadeAccess, AccessDeleted, ListRefresh,
            CascadeRefresh, RefreshDeleted

\* The cascade over the access tokens ends when none of the grant is active.
LEMMA AccessExtinct ==
  ASSUME Typed, Extinction, [Next]_vars, NEW r \in Requests,
         CascadeAccess(r) \/ AccessDeleted(r)
  PROVE  \A t \in Requests : Active(t)' => access'[t].grant # req[r].grant
<1>t. access \in [Requests -> AccessEntry \cup {Absent}]
  BY DEF Typed, TypeOK, StoresTypeOK
<1>1. CASE CascadeAccess(r)
  <2>1. access' = AfterRevokeByGrant(access, req[r].grant)
    BY <1>1 DEF CascadeAccess
  <2>2. \A t \in Requests : access'[t] # Absent => access'[t].grant # req[r].grant
    BY <2>1, <1>t DEF AfterRevokeByGrant, KeysOfGrant
  <2> QED BY <2>2 DEF Active, Fetch
<1>2. CASE AccessDeleted(r)
  <2>1. pc[r] = "deleteAccess" /\ req[r].doomed = {} /\ access' = access /\ now' = now
    BY <1>2 DEF AccessDeleted
  <2>2. \A t \in Requests : Active(t)' <=> Active(t)
    BY <2>1 DEF Active, Fetch
  <2> QED BY <2>1, <2>2 DEF Extinction
<1> QED BY <1>1, <1>2

\* The cascade over the refresh tokens ends when none of the grant is usable.
LEMMA RefreshExtinct ==
  ASSUME Typed, Extinction, [Next]_vars, NEW r \in Requests,
         CascadeRefresh(r) \/ RefreshDeleted(r)
  PROVE  \A t \in Requests : Usable(t)' => refresh'[t].grant # req[r].grant
<1>t. refresh \in [Requests -> RefreshEntry \cup {Absent}]
  BY DEF Typed, TypeOK, StoresTypeOK
<1>1. CASE CascadeRefresh(r)
  <2>1. refresh' = AfterRevokeByGrant(refresh, req[r].grant)
    BY <1>1 DEF CascadeRefresh
  <2>2. \A t \in Requests : refresh'[t] # Absent => refresh'[t].grant # req[r].grant
    BY <2>1, <1>t DEF AfterRevokeByGrant, KeysOfGrant
  <2> QED BY <2>2 DEF Usable, Fetch
<1>2. CASE RefreshDeleted(r)
  <2>1. pc[r] = "deleteRefresh" /\ req[r].doomed = {} /\ refresh' = refresh /\ now' = now
    BY <1>2 DEF RefreshDeleted
  <2>2. \A t \in Requests : Usable(t)' <=> Usable(t)
    BY <2>1 DEF Usable, Fetch
  <2> QED BY <2>1, <2>2 DEF Extinction
<1> QED BY <1>1, <1>2

\* A cascade's list names every live token of its grant until it deletes it.
LEMMA ListsKept ==
  ASSUME Typed, Alone, Extinction, [Next]_vars, NEW r \in Requests, NEW t \in Requests
  PROVE  /\ pc'[r] = "deleteAccess" /\ Active(t)' /\ access'[t].grant = req'[r].grant =>
              t \in req'[r].doomed
         /\ pc'[r] = "deleteRefresh" /\ Usable(t)' /\ refresh'[t].grant = req'[r].grant =>
              t \in req'[r].doomed
<1>t. /\ pc \in [Requests -> Running \cup Ended \cup {"idle"}]
      /\ req \in [Requests -> Request \cup {Absent}]
      /\ access \in [Requests -> AccessEntry \cup {Absent}]
      /\ refresh \in [Requests -> RefreshEntry \cup {Absent}]
      /\ pc[r] # "idle" => req[r] \in Request
  BY DEF Typed, TypeOK, StoresTypeOK, Control
<1>1. ASSUME pc'[r] = "deleteAccess", Active(t)', access'[t].grant = req'[r].grant
      PROVE  t \in req'[r].doomed
  <2>1. CASE ListAccess(r)
    <3>1. req'[r] = [req[r] EXCEPT !.doomed = ListedOfGrant(access, req[r].grant)]
      BY <2>1, <1>t DEF ListAccess
    <3>2. req[r] \in Request /\ access' = access /\ now' = now
      BY <2>1, <1>t DEF ListAccess
    <3>3. /\ req'[r].doomed = ListedOfGrant(access, req[r].grant)
          /\ req'[r].grant = req[r].grant
      BY <3>1, <3>2 DEF Request
    <3>4. Fetch(access, t) # Absent /\ access[t] # Absent
      BY <1>1, <3>2 DEF Active, Fetch
    <3> QED BY <1>1, <1>t, <3>2, <3>3, <3>4 DEF ListedOfGrant, KeysOfGrant
  <2>2. CASE pc[r] = "deleteAccess"
    <3>1. Active(t) /\ access'[t] = access[t]
      <4>1. \A s \in Requests : ~StoreAccess(s)
        BY <2>2 DEF StoreAccess, Alone, Running
      <4> QED BY <1>1, <4>1, ActiveSteps
    <3>2. req'[r].grant = req[r].grant
      BY <2>2, GrantKept
    <3>3. t \in req[r].doomed
      BY <1>1, <2>2, <3>1, <3>2 DEF Extinction
    <3>4. ASSUME NEW u \in Requests, DeleteListedAccess(r, u) PROVE t \in req'[r].doomed
      <4>1. access'[u] = Absent
        BY <3>4, <1>t DEF DeleteListedAccess, AfterDelete
      <4>2. t # u
        BY <1>1, <4>1 DEF Active, Fetch
      <4>3. req'[r] = [req[r] EXCEPT !.doomed = req[r].doomed \ {u}]
        BY <3>4, <1>t DEF DeleteListedAccess
      <4>4. req'[r].doomed = req[r].doomed \ {u}
        BY <2>2, <4>3, <1>t DEF Request
      <4> QED BY <3>3, <4>2, <4>4
    <3>5. req'[r] = req[r] \/ \E u \in Requests : DeleteListedAccess(r, u)
      BY <1>1, <2>2, StaysByStep DEF DeleteListedRefresh
    <3> QED BY <3>3, <3>4, <3>5
  <2> QED BY <1>1, <2>1, <2>2, ReachesByStep DEF Reaches
<1>2. ASSUME pc'[r] = "deleteRefresh", Usable(t)', refresh'[t].grant = req'[r].grant
      PROVE  t \in req'[r].doomed
  <2>1. CASE ListRefresh(r)
    <3>1. req'[r] = [req[r] EXCEPT !.doomed = ListedOfGrant(refresh, req[r].grant)]
      BY <2>1, <1>t DEF ListRefresh
    <3>2. req[r] \in Request /\ refresh' = refresh /\ now' = now
      BY <2>1, <1>t DEF ListRefresh
    <3>3. /\ req'[r].doomed = ListedOfGrant(refresh, req[r].grant)
          /\ req'[r].grant = req[r].grant
      BY <3>1, <3>2 DEF Request
    <3>4. Fetch(refresh, t) # Absent /\ refresh[t] # Absent
      BY <1>2, <3>2 DEF Usable, Fetch
    <3> QED BY <1>2, <1>t, <3>2, <3>3, <3>4 DEF ListedOfGrant, KeysOfGrant
  <2>2. CASE pc[r] = "deleteRefresh"
    <3>1. Usable(t) /\ refresh'[t] = refresh[t]
      <4>1. ~StoreRefresh(t)
        BY <2>2 DEF StoreRefresh, Alone, Running
      <4> QED BY <1>2, <4>1, UsableSteps
    <3>2. req'[r].grant = req[r].grant
      BY <2>2, GrantKept
    <3>3. t \in req[r].doomed
      BY <1>2, <2>2, <3>1, <3>2 DEF Extinction
    <3>4. ASSUME NEW u \in Requests, DeleteListedRefresh(r, u) PROVE t \in req'[r].doomed
      <4>1. refresh'[u] = Absent
        BY <3>4, <1>t DEF DeleteListedRefresh, AfterDelete
      <4>2. t # u
        BY <1>2, <4>1 DEF Usable, Fetch
      <4>3. req'[r] = [req[r] EXCEPT !.doomed = req[r].doomed \ {u}]
        BY <3>4, <1>t DEF DeleteListedRefresh
      <4>4. req'[r].doomed = req[r].doomed \ {u}
        BY <2>2, <4>3, <1>t DEF Request
      <4> QED BY <3>3, <4>2, <4>4
    <3>5. req'[r] = req[r] \/ \E u \in Requests : DeleteListedRefresh(r, u)
      BY <1>2, <2>2, StaysByStep DEF DeleteListedAccess
    <3> QED BY <3>3, <3>4, <3>5
  <2> QED BY <1>2, <2>1, <2>2, ReachesByStep DEF Reaches
<1> QED BY <1>1, <1>2

\* No step of a cascade, or after it, leaves a token behind.
LEMMA ExtinctionKept ==
  ASSUME MaxInFlight = 1, Typed, Safe, Lineage, Alone, Once, Extinction, [Next]_vars
  PROVE  Extinction'
<1>t. /\ pc \in [Requests -> Running \cup Ended \cup {"idle"}]
      /\ req \in [Requests -> Request \cup {Absent}]
      /\ \A r \in Requests : pc[r] # "idle" => req[r] \in Request /\ Knows(pc[r], req[r])
      /\ pc' \in [Requests -> Running \cup Ended \cup {"idle"}]
      /\ \A r \in Requests : pc'[r] # "idle" => req'[r] \in Request /\ Knows(pc'[r], req'[r])
  BY NextTyped DEF Typed, TypeOK, Control
<1>1. ASSUME NEW r \in Requests, pc'[r] \in AccessGone
      PROVE  /\ req'[r].kind # "revokeRefresh" /\ req'[r].grant = req[r].grant
             /\ pc[r] \in AccessGone \/ CascadeAccess(r) \/ AccessDeleted(r)
  <2>1. pc[r] \in AccessGone \/ CascadeAccess(r) \/ AccessDeleted(r)
    BY <1>1, ReachesByStep
    DEF Reaches, AccessGone, ListRefresh, CascadeRefresh, RefreshDeleted
  <2>2. pc[r] \notin {"idle", "find"}
    BY <2>1 DEF AccessGone, CascadeAccess, AccessDeleted
  <2>3. req'[r].kind = req[r].kind /\ req'[r].grant = req[r].grant
    BY <2>2, GrantKept
  <2>4. req[r].kind # "revokeRefresh"
    <3>1. CASE pc[r] \in AccessGone
      BY <3>1 DEF Extinction
    <3>2. CASE CascadeAccess(r) \/ AccessDeleted(r)
      <4>1. pc'[r] = AfterAccessCascade(r)
        BY <3>2, <1>t DEF CascadeAccess, AccessDeleted, End, Goto
      <4> QED BY <4>1, <1>1 DEF AfterAccessCascade, AccessGone
    <3> QED BY <2>1, <3>1, <3>2
  <2> QED BY <2>1, <2>3, <2>4
<1>2. ASSUME NEW r \in Requests, pc'[r] \in Cascading \cup {"replayed"},
             req'[r].kind # "revokeRefresh"
      PROVE  req'[r].grant \in Grants
  <2>1. CASE pc'[r] \in Cascading
    BY <2>1, <1>t DEF Knows, Cascading
  <2>2. CASE pc'[r] = "replayed"
    <3>1. pc[r] \in Cascading \cup {"replayed"}
      BY <2>2, ReachesByStep DEF Reaches, CascadeRefresh, RefreshDeleted, Cascading
    <3>2. req'[r].kind = req[r].kind /\ req'[r].grant = req[r].grant
      BY <3>1, GrantKept DEF Cascading
    <3> QED BY <1>2, <3>1, <3>2 DEF Extinction
  <2> QED BY <1>2, <2>1, <2>2
<1>3. ASSUME NEW r \in Requests, NEW t \in Requests, pc'[r] \in AccessGone, Active(t)'
      PROVE  access'[t].grant # req'[r].grant
  <2>1. CASE CascadeAccess(r) \/ AccessDeleted(r)
    BY <1>1, <1>3, <2>1, AccessExtinct
  <2>2. CASE pc[r] \in AccessGone
    <3>1. CASE Active(t) /\ access'[t] = access[t]
      BY <1>1, <1>3, <2>2, <3>1 DEF Extinction
    <3>2. ASSUME NEW s \in Requests, StoreAccess(s), access'[t] = IssuedAccess(s)
          PROVE  access'[t].grant # req'[r].grant
      <4>1. pc[s] = "issue" /\ access'[t].grant = req[s].grant
        BY <3>2 DEF StoreAccess, IssuedAccess
      <4>2. CASE pc[r] = "replayed"
        BY <1>1, <1>3, <4>1, <4>2 DEF Extinction, Minting, Redeeming
      <4>3. CASE pc[r] # "replayed"
        BY <2>2, <4>1, <4>3 DEF Alone, AccessGone, Running
      <4> QED BY <4>2, <4>3
    <3> QED BY <1>3, <3>1, <3>2, ActiveSteps
  <2> QED BY <1>1, <1>3, <2>1, <2>2
<1>4. ASSUME NEW r \in Requests, NEW t \in Requests, pc'[r] = "replayed", Usable(t)'
      PROVE  refresh'[t].grant # req'[r].grant
  <2>1. req'[r].grant = req[r].grant
    BY <1>1, <1>4 DEF AccessGone
  <2>2. CASE CascadeRefresh(r) \/ RefreshDeleted(r)
    BY <1>4, <2>1, <2>2, RefreshExtinct
  <2>3. CASE pc[r] = "replayed"
    <3>1. CASE Usable(t) /\ refresh'[t] = refresh[t]
      BY <2>1, <2>3, <3>1 DEF Extinction
    <3>2. CASE StoreRefresh(t) /\ refresh'[t] = IssuedRefresh(t)
      <4>1. pc[t] = "storeRefresh" /\ refresh'[t].grant = req[t].grant
        BY <3>2 DEF StoreRefresh, IssuedRefresh
      <4> QED BY <2>1, <2>3, <4>1 DEF Extinction, Minting
    <3> QED BY <1>4, <3>1, <3>2, UsableSteps
  <2> QED BY <1>4, <2>2, <2>3, ReachesByStep DEF Reaches
<1>5. ASSUME NEW r \in Requests, NEW s \in Requests, pc'[r] = "replayed", pc'[s] \in Minting,
             req'[r].grant = req'[s].grant
      PROVE  FALSE
  <2>1. pc[r] \in AccessGone /\ req'[r].grant = req[r].grant /\ req[r].kind # "revokeRefresh"
    <3>1. pc[r] \in AccessGone
      BY <1>5, ReachesByStep DEF Reaches, AccessGone, CascadeRefresh, RefreshDeleted
    <3> QED BY <1>1, <1>5, <3>1 DEF AccessGone, Extinction
  <2>2. pc[r] = "replayed"
    <3>1. ASSUME pc[r] # "replayed" PROVE FALSE
      <4>1. CascadeRefresh(r) \/ RefreshDeleted(r)
        BY <1>5, <3>1, ReachesByStep DEF Reaches
      <4>2. s # r
        BY <1>5 DEF Minting, Redeeming
      <4>3. Arrive(r) \/ Serve(r) \/ Fail(r)
        BY <4>1 DEF Serve, CascadeStep
      <4>4. pc'[s] = pc[s]
        BY <4>2, <4>3, OthersWait
      <4> QED BY <1>5, <2>1, <3>1, <4>2, <4>4
              DEF Alone, AccessGone, Minting, Redeeming, Running
    <3> QED BY <3>1
  <2>3. req[r].grant \in Grants /\ Closed(req[r].grant)
    BY <2>1, <2>2 DEF Extinction
  <2>4. CASE pc[s] \in Minting
    <3>1. req'[s].grant = req[s].grant
      BY <2>4, GrantKept DEF Minting, Redeeming
    <3> QED BY <1>5, <2>1, <2>2, <2>4, <3>1 DEF Extinction
  <2>5. CASE CodeAccepted(s)
    BY <1>5, <2>1, <2>3, <2>5, AcceptedCode
  <2>6. CASE RefreshAccepted(s)
    <3>1. Usable(req[s].token) /\ req[s].token \in Requests
          /\ refresh[req[s].token].grant = req[r].grant
      BY <1>5, <2>1, <2>6, AcceptedRefresh
    <3> QED BY <2>2, <3>1 DEF Extinction
  <2> QED BY <1>5, <2>4, <2>5, <2>6, ReachesByStep DEF Reaches
<1>6. \A r \in Requests :
        pc'[r] \in Cascading \cup {"replayed"} /\ req'[r].kind # "revokeRefresh" =>
          req'[r].grant \in Grants /\ Closed(req[r].grant)'
  <2> SUFFICES ASSUME NEW r \in Requests, pc'[r] \in Cascading \cup {"replayed"},
                      req'[r].kind # "revokeRefresh"
               PROVE  req'[r].grant \in Grants /\ Closed(req[r].grant)'
    OBVIOUS
  <2>1. PICK g \in Grants : req'[r].grant = g
    BY <1>2
  <2>2. Closed(g)'
    BY <2>1, CascadeOfClosed
  <2> QED BY <2>1, <2>2 DEF Closed
<1> QED BY <1>1, <1>3, <1>4, <1>5, <1>6, ListsKept DEF Extinction

\* Once a replay is answered no token of its grant is alive, nor ever will be.
THEOREM ReplaysEndTheFamily == ASSUME MaxInFlight = 1 PROVE Spec => []ReplayKillsFamily
<1>1. Init => Alone /\ Once /\ Extinction
  BY DEF Init, StoresInit, Alone, Once, CodeRedeemedOnce, Pursues, HasIssued, Running,
         Redeeming, Extinction, AccessGone, Cascading
<1>2. /\ Typed /\ Safe /\ Lineage /\ Alone /\ Once /\ Extinction
      /\ [Next]_vars
      => (Alone /\ Once /\ Extinction)'
  BY StaysAlone, OnceKept, ExtinctionKept
<1>3. Extinction => ReplayKillsFamily
  BY DEF Extinction, AccessGone, ReplayKillsFamily
<1> QED BY <1>1, <1>2, <1>3, SafetyInvariant, LineageInvariant, PTL DEF Spec
=============================================================================
