--------------------------- MODULE MCAccessCheck ---------------------------
(***************************************************************************)
(* A small instance of AccessCheck for TLC.                                  *)
(***************************************************************************)
EXTENDS AccessCheck, TLC

AccessSymmetry == Permutations(Replicas) \union Permutations(Requests)
=============================================================================
