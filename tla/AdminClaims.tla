---------------------------- MODULE AdminClaims ----------------------------
(***************************************************************************)
(* What the API documentation says of deletions, and the foreign keys of the *)
(* migrations do otherwise.                                                 *)
(***************************************************************************)
EXTENDS MCAdminRows

\* permission.controller.ts:77, "Deletes a permission. Fails if the permission is
\* assigned to any role.": no role loses a permission because it is deleted.
DeletesAreRestricted ==
  [][\A p \in permissions \ permissions' : \A k \in Roles : p \notin grants[k]]_vars
=============================================================================
