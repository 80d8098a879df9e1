------------------------------ MODULE RbacAdmin ------------------------------
(***************************************************************************)
(* RoleService, PermissionService and FeatureService over the cache of      *)
(* RbacCache.  PermissionService does not clear every role: it asks the     *)
(* database which roles hold the permission, before it deletes one and      *)
(* after it updates one.  One permission is followed through its rows of    *)
(* role_permissions.                                                        *)
(***************************************************************************)
EXTENDS RbacCache

CONSTANT Ops   \* the mutations this instance performs

ASSUME AdminOpsAssumption == Ops \subseteq {"role", "feature", "permUpdate", "permRemove"}

VARIABLES
  assigned,   \* the roles that hold the permission
  exists,     \* whether the permission is still there
  removing    \* the writers that are in PermissionService.remove

adminVars == <<vars, assigned, exists, removing>>
permVars  == <<assigned, exists, removing>>

AdminInit == Init /\ assigned \in SUBSET Roles /\ exists = TRUE /\ removing = {}
-----------------------------------------------------------------------------
\* assignPermissions replaces all rows of the role in a SERIALIZABLE transaction;
\* update (of isActive) and remove invalidate the role in the same way.
ChangeRole(w, p, k) ==
  /\ "role" \in Ops
  /\ Mutate(w, p, {k})
  /\ assigned' \in {assigned \ {k}} \union (IF exists THEN {assigned \union {k}} ELSE {})
  /\ UNCHANGED <<exists, removing>>

\* update changes the key of the permission's feature; remove deletes the feature,
\* which cascades to the permission and its rows.
ChangeFeature(w, p, removed) ==
  /\ "feature" \in Ops /\ exists
  /\ wpc[w] = "idle" /\ Touch(assigned)
  /\ WriterTo(w, "incr", Work(p, Roles))
  /\ exists' = ~removed
  /\ assigned' = IF removed THEN {} ELSE assigned
  /\ UNCHANGED <<removing, epoch, cacheVars, local, pending, at, acked>>

UpdatePermission(w, p) ==
  /\ "permUpdate" \in Ops /\ exists
  /\ wpc[w] = "idle" /\ Touch(assigned)
  /\ WriterTo(w, "roles", Work(p, {}))
  /\ UNCHANGED <<permVars, epoch, cacheVars, local, pending, at, acked>>

RemovePermission(w, p) ==
  /\ "permRemove" \in Ops
  /\ wpc[w] = "idle"
  /\ WriterTo(w, "roles", Work(p, {}))
  /\ removing' = removing \union {w}
  /\ UNCHANGED <<assigned, exists, version, epoch, cacheVars, local, pending, at, acked>>

NoRoleFound == {}
RolesFound == assigned

\* invalidateRoles([]) returns at once.
InvalidateRoles(w, S) ==
  IF S = {} THEN WriterTo(w, "idle", NoWrite)
            ELSE WriterTo(w, "incr", [wtr[w] EXCEPT !.roles = S])

\* The query is answered, or fails and the call with it: an update is committed
\* by then.
FetchRoleIdsForPermission(w) ==
  /\ wpc[w] = "roles"
  /\ \/ IF w \in removing
        THEN /\ WriterTo(w, "delete", [wtr[w] EXCEPT !.roles = RolesFound])
             /\ UNCHANGED removing
        ELSE InvalidateRoles(w, RolesFound) /\ UNCHANGED removing
     \/ /\ "roles" \in Faults
        /\ WriterTo(w, "idle", NoWrite) /\ removing' = removing \ {w}
  /\ UNCHANGED <<assigned, exists, version, epoch, cacheVars, local, pending, at, acked>>

\* DELETE, which cascades to role_permissions; NotFoundException if there is no row.
SafeDelete(w) ==
  /\ wpc[w] = "delete"
  /\ IF exists THEN Touch(assigned) /\ InvalidateRoles(w, wtr[w].roles)
               ELSE WriterTo(w, "idle", NoWrite) /\ UNCHANGED version
  /\ exists' = FALSE /\ assigned' = {} /\ removing' = removing \ {w}
  /\ UNCHANGED <<epoch, cacheVars, local, pending, at, acked>>
-----------------------------------------------------------------------------
AdminStep(w) ==
  \/ FetchRoleIdsForPermission(w) \/ SafeDelete(w)
  \/ \E p \in Replicas : \/ UpdatePermission(w, p) \/ RemovePermission(w, p)
                         \/ \E k \in Roles : ChangeRole(w, p, k)
                         \/ \E b \in BOOLEAN : ChangeFeature(w, p, b)

AdminNext ==
  \/ Read /\ UNCHANGED permVars
  \/ CacheStep /\ UNCHANGED <<assigned, exists>>
     /\ removing' = {w \in removing : wpc'[w] # "idle"}
  \/ \E w \in Writers : AdminStep(w) \/ (Invalidate(w) /\ UNCHANGED permVars)

AdminSpec == AdminInit /\ [][AdminNext]_adminVars
=============================================================================
