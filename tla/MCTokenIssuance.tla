---------------------------- MODULE MCTokenIssuance ----------------------------
(***************************************************************************)
(* Two authorizations, either of which may be repeated: one whose tokens   *)
(* can be refreshed and narrowed, and one without offline_access, for a    *)
(* client that asks for its acr in the claims parameter.                   *)
(***************************************************************************)
EXTENDS TokenIssuance, TLC

AnyScope == {"openid", "profile", "offline_access"}

TheAuthorizations ==
  {[subject |-> "u1", client |-> "c1", scope |-> AnyScope, audience |-> {"api"},
    nonce |-> "n1", acrValues |-> "high", acrClaim |-> "low"],
   [subject |-> "u2", client |-> "c2", scope |-> {"openid"}, audience |-> {},
    nonce |-> Absent, acrValues |-> Absent, acrClaim |-> "low"]}

TheResolver == ("high" :> "gold") @@ ("low" :> "silver") @@ (Absent :> "bronze")

Symmetry == Permutations(Requests) \cup Permutations(Grants)
=============================================================================
