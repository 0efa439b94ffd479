--------------------------- MODULE TokenProperties ---------------------------
(***************************************************************************)
(* What should hold of the token and revocation endpoints.  The first      *)
(* group holds for every interleaving and failure; the second when         *)
(* requests are served one at a time (MaxInFlight = 1); the third is what  *)
(* eventually happens.                                                     *)
(***************************************************************************)
EXTENDS TokenEndpoint

HasIssued(r) == req[r] # Absent /\ req[r].issuedAt # Absent

\* A code that no token request can be granted with any more.
Closed(g) ==
  /\ granted[g] # Absent
  /\ \/ granted[g].expiresAt <= now
     \/ codes[g] # Absent /\ codes[g].used

-----------------------------------------------------------------------------
(* Whatever the interleaving.                                              *)

Within(entry) ==
  /\ granted[entry.grant] # Absent
  /\ entry.client = granted[entry.grant].client
  /\ entry.scope \subseteq granted[entry.grant].scope

\* Every stored token belongs to the client its authorization code was issued
\* to and carries no scope the user did not grant, however many rotations and
\* narrowings lie between; a refresh token exists only under offline_access.
\* (clientId and scope carried from the code through the whole token family.)
TokensWithinGrant ==
  \A t \in Requests :
    /\ access[t] # Absent => Within(access[t])
    /\ refresh[t] # Absent => /\ Within(refresh[t])
                              /\ OfflineAccess \in refresh[t].scope

\* While any token of a grant is stored, its code is either past its lifetime
\* or still in the code store marked used: a replay of the code is detected for
\* as long as the code lives.  (consume() before issuance, and never delete().)
ReplayDetectable ==
  \A t \in Requests :
    /\ access[t] # Absent => Closed(access[t].grant)
    /\ refresh[t] # Absent => Closed(refresh[t].grant)

\* No refresh token outlives the absolute lifetime that started with a
\* redemption of its grant's code: rotation never moves the expiry.
\* (originalIssuedAt carried through rotations by routes/token.ts.)
AbsoluteLifetime ==
  \A t \in Requests :
    refresh[t] # Absent =>
      \E root \in Requests :
        /\ HasIssued(root) /\ req[root].kind = "code"
        /\ req[root].grant = refresh[t].grant
        /\ refresh[t].expiresAt = req[root].issuedAt + RefreshLifetime

\* A cascade or a revocation has been at work on the grant.
Disturbed(g) ==
  \E r \in Requests :
    /\ req[r] # Absent
    /\ req[r].grant = g
    /\ req[r].kind = "revokeRefresh" \/ pc[r] \in Cascading \cup {"replayed", "cut"}

\* A refresh token is spent only once a successor that lives as long is stored,
\* so a rotation that fails half way never leaves the client without one:
\* "new tokens are saved first, then the old one is revoked" (routes/token.ts).
SpentHasSuccessor ==
  \A t \in Requests :
    (/\ refresh[t] # Absent
     /\ refresh[t].used
     /\ refresh[t].expiresAt > now
     /\ ~Disturbed(refresh[t].grant)) =>
       \E r \in Requests :
         /\ req[r] # Absent
         /\ req[r].kind = "refresh" /\ req[r].token = t
         /\ refresh[r] # Absent
         /\ refresh[r].expiresAt = refresh[t].expiresAt

\* The access tokens of r and of t are, or may be, one and the same string.
SameText(r, t) ==
  \/ r = t
  \/ /\ AccessTokenFormat = "jwt"
     /\ req[t] # Absent
     /\ \A k \in {"madeAt", "client", "scope"} : req[r][k] = req[t][k]

\* A token becomes usable only when its response stores it: no delayed write-back of
\* a JSON store's consume() brings a revoked or rotated token back to life.  Random
\* strings are stored once; a JWT may be stored again, and only by a request that
\* made it in the very second it was first made, for the same client and scope.
NoRevival ==
  [][\A t \in Requests :
       /\ Usable(t)' /\ ~Usable(t) => pc[t] = "storeRefresh"
       /\ Active(t)' /\ ~Active(t) =>
            \E r \in Requests :
              pc[r] = "issue" /\ pc'[r] # "issue" /\ req[r].minted = t /\ SameText(r, t)]_vars

\* The endpoints implement the abstract life cycle of codes and tokens.
TokenNames == {"access", "refresh"} \X Requests

RenewableNames ==
  IF AccessTokenFormat = "jwt" THEN {"access"} \X Requests ELSE {}

Alive(n) == IF n[1] = "access" THEN Active(n[2]) ELSE Usable(n[2])

\* The labels a request passes before it has made its tokens.
Unmade == {"idle", "find", "consume", "markUsed", "recheck", "sign"}

\* A request may yet store the token: one that holds it, its first maker while it has
\* not made it, and any other in the second in which a JWT was made.
ToCome(n) ==
  \/ pc[n[2]] \in Unmade
  \/ /\ n[1] = "refresh"
     /\ pc[n[2]] \in {"issue", "storeRefresh"}
  \/ /\ n[1] = "access"
     /\ \/ \E r \in Requests : pc[r] = "issue" /\ req[r].minted = n[2]
        \/ /\ AccessTokenFormat = "jwt"
           /\ req[n[2]].minted = n[2] /\ req[n[2]].madeAt = now

AbstractCode ==
  [g \in Grants |-> IF granted[g] = Absent THEN "none"
                    ELSE IF Closed(g) THEN "closed" ELSE "open"]

AbstractLife ==
  [n \in TokenNames |-> IF Alive(n) THEN "live"
                        ELSE IF ToCome(n) THEN "pending" ELSE "dead"]

AbstractParent ==
  [n \in TokenNames |->
     IF ~Alive(n) THEN Absent
     ELSE IF n[1] = "access" THEN access[n[2]].grant ELSE refresh[n[2]].grant]

Lifecycle ==
  INSTANCE TokenLifecycle
    WITH Tokens <- TokenNames, Renewable <- RenewableNames, NoGrant <- Absent,
         code <- AbstractCode, life <- AbstractLife, parent <- AbstractParent

\* Codes close before tokens are born; what is dead stays dead, and a token other than
\* a JWT dies as soon as it is gone, a JWT when the second it was made in is over and no
\* request holds it any more (the promise of TokenLifecycle, kept by every handler in
\* any interleaving).
ImplementsLifecycle == Lifecycle!Spec

-----------------------------------------------------------------------------
(* When requests are served one at a time.                                 *)

\* An authorization code yields tokens to one request at most: "MUST: single
\* use" (authorization-code-grant.ts).
CodeRedeemedOnce ==
  \A r1, r2 \in Requests :
    (/\ HasIssued(r1) /\ req[r1].kind = "code"
     /\ HasIssued(r2) /\ req[r2].kind = "code"
     /\ req[r1].grant = req[r2].grant) => r1 = r2

\* A rotation that was carried through and left undisturbed leaves one usable
\* refresh token to its grant (revocation-refresh-token-family-cascade.md).
\* Requests that died, or are being served, may hold a second one.
OneUsableRefresh ==
  \A t1, t2 \in Requests :
    (/\ Usable(t1) /\ Usable(t2) /\ refresh[t1].grant = refresh[t2].grant
     /\ pc[t1] = "done" /\ pc[t2] = "done") => t1 = t2

\* Once the replay of a code or refresh token has been answered, no token of
\* its grant is alive, and none ever will be again: the cascade left nothing
\* from which a new one could be minted.
ReplayKillsFamily ==
  \A r, t \in Requests :
    pc[r] = "replayed" =>
      /\ Active(t) => access[t].grant # req[r].grant
      /\ Usable(t) => refresh[t].grant # req[r].grant

-----------------------------------------------------------------------------
(* What eventually happens.                                                *)

\* Every request is answered or dies; none is stuck between two store calls.
RequestsEnd ==
  \A r \in Requests : pc[r] \in Running ~> pc[r] \in Ended

\* A token that is alive when the cascade over its store begins dies, unless
\* the cascade itself is cut short; and by NoRevival it stays dead.
CascadeReaches ==
  \A r, t \in Requests :
    /\ (pc[r] = "cascadeAccess" /\ Active(t) /\ access[t].grant = req[r].grant)
         ~> (~Active(t) \/ pc[r] = "cut")
    /\ (pc[r] = "cascadeRefresh" /\ Usable(t) /\ refresh[t].grant = req[r].grant)
         ~> (~Usable(t) \/ pc[r] = "cut")
=============================================================================
