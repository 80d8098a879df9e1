---------------------------- MODULE MCAdminRows ----------------------------
(***************************************************************************)
(* A small instance of AdminRows for TLC: one feature with a permission of   *)
(* the seed and one that an administrator adds.                             *)
(***************************************************************************)
EXTENDS AdminRows, TLC

CONSTANTS p1, p2, f1

OneFeature == [p \in {p1, p2} |-> f1]

RowSymmetry == Permutations(Roles) \union Permutations(Calls)
=============================================================================
