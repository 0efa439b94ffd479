----------------------------- MODULE TokenReaders -----------------------------
(***************************************************************************)
(* What UserInfo and introspection make of a token that is presented to    *)
(* them: handleUserInfoRequest with the two ways to present a token, and   *)
(* handleIntrospectionRequest with its hint.  Both only read.              *)
(*                                                                         *)
(* A stored entry is Missing, or the record the token endpoint stored: of  *)
(* an access token [client, subject, scope, expiresAt, nbf, audience,      *)
(* claims], of a refresh token [client, subject, scope, expiresAt, used].  *)
(* claims is the userinfo member of the claims parameter: a claim's name   *)
(* -> the values that are asked for, or AnyValue.  A user is the record of *)
(* the claims there are values for, with sub among them.                   *)
(***************************************************************************)
EXTENDS Integers

CONSTANTS
  ScopeClaims,      \* scope value -> the claims it stands for (SCOPE_CLAIMS_MAP)
  AnyValue,         \* a claim is asked for, whatever its value
  Missing           \* undefined and null

\* Mutant: an entry lives through the second it expires in.
Kept_OneMore(stored, now) ==
  IF stored # Missing /\ stored.expiresAt < now THEN Missing ELSE stored

\* get() of both stores.
Kept(stored, now) ==
  IF stored # Missing /\ stored.expiresAt <= now THEN Missing ELSE stored

-----------------------------------------------------------------------------
(* Introspection.                                                          *)

AccessActive(info, now) ==
  info.expiresAt > now /\ (info.nbf # Missing => info.nbf <= now)

RefreshActive(info, now) == ~info.used /\ info.expiresAt > now

Inactive == [active |-> FALSE]

Report(info, type) ==
  [active |-> TRUE, type |-> type, client |-> info.client, subject |-> info.subject,
   scope |-> info.scope, exp |-> info.expiresAt]

AccessReport(info, now) ==
  IF AccessActive(info, now) THEN Report(info, "Bearer") ELSE Inactive

RefreshReport(info, now) ==
  IF RefreshActive(info, now) THEN Report(info, "refresh_token") ELSE Inactive

\* Mutant: the hint decides which store is asked.
Introspected_HintDecides(hint, access, refresh, now) ==
  IF hint = "refresh_token"
    THEN IF refresh # Missing THEN RefreshReport(refresh, now) ELSE Inactive
    ELSE IF access # Missing THEN AccessReport(access, now)
    ELSE IF refresh # Missing THEN RefreshReport(refresh, now)
    ELSE Inactive

\* The hint says which store is asked first.
Introspected(hint, access, refresh, now) ==
  IF hint = "refresh_token" /\ refresh # Missing THEN RefreshReport(refresh, now)
  ELSE IF access # Missing THEN AccessReport(access, now)
  ELSE IF refresh # Missing THEN RefreshReport(refresh, now)
  ELSE Inactive

-----------------------------------------------------------------------------
(* UserInfo.                                                               *)

\* filterClaimsByScope.
ByScope(scope) ==
  UNION {ScopeClaims[value] : value \in scope \cap DOMAIN ScopeClaims}

\* Mutant: a claim is asked for whatever value it has.
Matches_AnyValue(claims, k, value) == TRUE

\* matchesRequestedValue.
Matches(claims, k, value) == claims[k] = AnyValue \/ value \in claims[k]

ByRequest(claims, user) ==
  {k \in DOMAIN claims \cap DOMAIN user : Matches(claims, k, user[k])}

\* sub is answered whatever is asked for.
Disclosed(info, claims, user) ==
  {"sub"} \cup ((ByScope(info.scope) \cup ByRequest(claims, user)) \cap DOMAIN user)

Refused(error) == [error |-> error]

\* handleUserInfoRequest: user is Missing when the subject is not known any more.
UserInfo(info, claims, user, endpoint, now) ==
  IF info = Missing THEN Refused("invalid_token")
  ELSE IF info.expiresAt < now THEN Refused("invalid_token")
  ELSE IF "openid" \notin info.scope THEN Refused("insufficient_scope")
  ELSE IF info.audience = Missing THEN Refused("invalid_token")
  ELSE IF endpoint \notin info.audience THEN Refused("invalid_token")
  ELSE IF user = Missing THEN Refused("invalid_token")
  ELSE [claims |-> [k \in Disclosed(info, claims, user) |-> user[k]]]

\* The token is read here for its claims parameter and its client, and again by
\* handleUserInfoRequest: first and second are what the two reads find.  algs are
\* the algorithms there are keys for.
UserInfoAnswer(first, second, user, registry, algs, endpoint, now) ==
  LET claims == IF first = Missing \/ first.claims = Missing
                  THEN [k \in {} |-> AnyValue] ELSE first.claims
      answer == UserInfo(second, claims, user, endpoint, now)
      alg == IF first = Missing \/ first.client \notin DOMAIN registry THEN Missing
             ELSE registry[first.client].userinfoAlg
  IN  IF "error" \in DOMAIN answer THEN answer
      ELSE IF alg \notin algs \cup {Missing} THEN Refused("server_error")
      ELSE [claims |-> answer.claims, signed |-> alg]

\* The Authorization header, or the form of a POST: one of them, not both.
Presented(header, form, post) ==
  IF header # Missing THEN header ELSE IF post THEN form ELSE Missing

TwoTokens(header, form, post) == post /\ header # Missing /\ form # Missing
=============================================================================
