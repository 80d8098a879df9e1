----------------------------- MODULE MCRbacAdmin -----------------------------
(***************************************************************************)
(* Small instances of RbacAdmin for TLC.                                    *)
(***************************************************************************)
EXTENDS RbacAdmin, TLC

AdminSymmetry == Permutations(Readers) \union Permutations(Writers)
=============================================================================
