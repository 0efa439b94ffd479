--------------------------- MODULE MCSigningKeyCache ---------------------------
(***************************************************************************)
(* A small instance of SigningKeyCache: two requests, served by the same   *)
(* of two workers, where their fills may overtake each other, or each by   *)
(* its own.                                                                *)
(***************************************************************************)
EXTENDS SigningKeyCache, TLC

Symmetry == Permutations(Workers) \cup Permutations(Requests)
=============================================================================
