--------------------------- MODULE MCConsentCascade ---------------------------
(***************************************************************************)
(* A small instance of ConsentCascade: a whole authorization, a withdrawal *)
(* and the requests that redeem and rotate what was issued.                *)
(***************************************************************************)
EXTENDS ConsentCascade, TLC

AnyPrompts == {{}, {"consent"}}
Symmetry == Permutations(Requests) \cup Permutations(TokenRequests)
=============================================================================
