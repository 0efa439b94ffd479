-------------------------- MODULE MCAuthorizationFlow --------------------------
(***************************************************************************)
(* Small instances of AuthorizationFlow.  Requests are only ever compared  *)
(* for equality, so they may be permuted where no liveness property is     *)
(* checked.                                                                *)
(***************************************************************************)
EXTENDS AuthorizationProperties, TLC

RequestSymmetry == Permutations(Requests)
Symmetry == Permutations(Requests) \cup Permutations(Users)

\* The prompt parameters whose paths through /authorize differ.
PlainPrompt == {{}}
SignOnPrompts == {{}, {"none"}}
ForcedPrompts == {{}, {"none"}, {"login"}}
AllPrompts == {{}, {"none"}, {"login"}, {"consent"}}
=============================================================================
