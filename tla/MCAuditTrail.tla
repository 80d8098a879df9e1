---------------------------- MODULE MCAuditTrail ----------------------------
(***************************************************************************)
(* A small instance of AuditTrail for TLC: a request that is audited beside  *)
(* one that is not, so that two stores of RequestContext are in use while    *)
(* the state space keeps one job.                                           *)
(***************************************************************************)
EXTENDS AuditTrail, TLC

CONSTANTS r1, r2

MCKinds == r1 :> {"updateRole", "reuse"} @@ r2 :> {"updateFeature"}
=============================================================================
