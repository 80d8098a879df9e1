---------------------------- MODULE AuditClaims ----------------------------
(***************************************************************************)
(* A sentence of the audit module's documentation that AuditTrail breaks.   *)
(***************************************************************************)
EXTENDS AuditTrail

\* Any request may call any handler.
AllKinds == [r \in Requests |-> Handlers]

\* modules/audit/README.md, "entityIdParam?: number; // Arg index for entityId
\* (default: 0)" and "id from first param": the record of an @Auditable mutation
\* names the entity that was mutated.
RecordsNameTheirEntity ==
  \A r \in Requests : RecordsOf(r) # {} /\ Auditable(req[r].kind) =>
    payload[r].entity = "target"
=============================================================================
