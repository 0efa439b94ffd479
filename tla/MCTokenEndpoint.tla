--------------------------- MODULE MCTokenEndpoint ---------------------------
(***************************************************************************)
(* Small instances of TokenEndpoint.  Requests are only ever compared for  *)
(* equality, so they may be permuted where no liveness property is         *)
(* checked.                                                                *)
(***************************************************************************)
EXTENDS TokenProperties, TLC

RequestSymmetry == Permutations(Requests)
=============================================================================
