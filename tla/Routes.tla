------------------------------- MODULE Routes -------------------------------
(***************************************************************************)
(* The HTTP routes, the guards in front of their handlers, and the seed's    *)
(* permissions they ask for.  Swagger texts, DTOs and status codes are left  *)
(* out.                                                                     *)
(***************************************************************************)
EXTENDS FiniteSets

\* A handler with @Public() is run for anybody, one without any decorator for every
\* user.  RbacEndpoint and RequirePermissions say what PermissionGuard asks for, where
\* the class or the method uses that guard.
Handler(path, public, guarded, needs) == [public |-> public, guarded |-> guarded,
                                          needs |-> needs, path |-> path]
Public(paths)         == {Handler(p, TRUE, FALSE, {}) : p \in paths}
SignedIn(paths)       == {Handler(p, FALSE, FALSE, {}) : p \in paths}
Guarded(needs, paths) == {Handler(p, FALSE, TRUE, needs) : p \in paths}

AuthRoutes ==
  Public({"POST auth/login", "POST auth/refresh"})
  \union SignedIn({"POST auth/logout", "POST auth/logout-all", "GET auth/sessions",
                   "POST auth/change-password"})
  \union Guarded({"users:create"}, {"POST auth/register"})

UserRoutes == Guarded({"users:edit"}, {"PATCH users/:id/active"})

\* A handler for which only the guard of the class is there.
AssignmentUnnamed == Guarded({}, {"POST roles/:id/permissions"})
AssignmentRoute   == Guarded({"rbac:assign_permissions"}, {"POST roles/:id/permissions"})

RoleRoutes ==
  Guarded({"rbac:create"}, {"POST roles"})
  \union Guarded({"rbac:view"}, {"GET roles", "GET roles/:id"})
  \union Guarded({"rbac:edit"}, {"PUT roles/:id"})
  \union Guarded({"rbac:delete"}, {"DELETE roles/:id"})
  \union AssignmentRoute

PermissionRoutes ==
  Guarded({"rbac:create"}, {"POST permissions"})
  \union Guarded({"rbac:view"}, {"GET permissions/feature/:featureId", "GET permissions/:id"})
  \union Guarded({"rbac:edit"}, {"PUT permissions/:id"})
  \union Guarded({"rbac:delete"}, {"DELETE permissions/:id"})

FeatureRoutes ==
  Guarded({"rbac:create"}, {"POST features"})
  \union Guarded({"rbac:view"}, {"GET features", "GET features/:id"})
  \union Guarded({"rbac:edit"}, {"PUT features/:id"})
  \union Guarded({"rbac:delete"}, {"DELETE features/:id"})

AdminRoutes == UserRoutes \union RoleRoutes \union PermissionRoutes \union FeatureRoutes

\* What the seed gives to the Super Admin; the other two roles are given nothing.
SeededPermissions ==
  {"rbac:view", "rbac:create", "rbac:edit", "rbac:delete", "rbac:assign_permissions",
   "users:view", "users:create", "users:edit", "users:delete"}
SeededGrants ==
  [r \in {"Super Admin", "Manager", "Viewer"} |->
     IF r = "Super Admin" THEN SeededPermissions ELSE {}]
=============================================================================
