--------------------------- MODULE RbacAdminProofs ---------------------------
(***************************************************************************)
(* The permission cache under the services that change it.  A step of       *)
(* RoleService, PermissionService or FeatureService that is not a step of   *)
(* RbacCache only moves its writer and lets versions grow, so that what was *)
(* shown of the cache carries over to AdminSpec, which the runs check.      *)
(* Freshness at rest does not carry over: between an update of the          *)
(* permission and the query for its roles nobody owes the INCR yet, and     *)
(* assigned is what keeps the debt.                                         *)
(***************************************************************************)
EXTENDS RbacAdmin, RbacCacheProofs

USE ReplicasAssumption, ReadersAssumption, CacheBoundsAssumption
USE DEF Versions, Epochs, LocalEpochs
-----------------------------------------------------------------------------
(* 1. Steps of the services.                                                *)

AdminTypes == TypeOK /\ assigned \subseteq Roles /\ removing \subseteq Writers

\* The writer moves without a reply of Redis; versions of the roles in S grow.
QuietWrite(w, S) ==
  /\ Touch(S)
  /\ \E step \in {"idle", "roles", "delete", "incr"}, j \in Writer :
       WriterTo(w, step, j) /\ j.num \in {0, wtr[w].num}
  /\ UNCHANGED <<epoch, cacheVars, local, pending, at, acked>>

LEMMA Untouched ==
  ASSUME TypeOK, version' = version
  PROVE  Touch({})
  BY DEF Touch, TypeOK, StoreTypes

LEMMA WorkTypes ==
  ASSUME TypeOK, NEW p \in Replicas, NEW S \in SUBSET Roles, NEW w \in Writers
  PROVE  /\ Work(p, S) \in Writer /\ Work(p, S).num = 0
         /\ NoWrite \in Writer /\ NoWrite.num = 0
         /\ [wtr[w] EXCEPT !.roles = S] \in Writer
         /\ [wtr[w] EXCEPT !.roles = S].num = wtr[w].num
  <1>1. wtr[w] \in Writer
    BY DEF TypeOK, CallTypes
  <1>2. Work(p, S) \in Writer /\ Work(p, S).num = 0
    BY DEF Work, Writer
  <1>3. NoWrite \in Writer /\ NoWrite.num = 0
    BY DefaultTypes DEF NoWrite
  <1> QED  BY <1>1, <1>2, <1>3 DEF Writer

\* invalidateRoles(S), with the version settled by the caller.
LEMMA InvalidateRolesQuiet ==
  ASSUME TypeOK, NEW w \in Writers, NEW S \in SUBSET Roles, InvalidateRoles(w, S)
  PROVE  \E step \in {"idle", "roles", "delete", "incr"}, j \in Writer :
           WriterTo(w, step, j) /\ j.num \in {0, wtr[w].num}
  <1>1. CASE S = {}
    BY <1>1, WorkTypes DEF InvalidateRoles
  <1>2. CASE S # {}
    BY <1>2, WorkTypes DEF InvalidateRoles
  <1> QED  BY <1>1, <1>2

LEMMA ChangeFeatureQuiet ==
  ASSUME AdminTypes, NEW w \in Writers, NEW p \in Replicas, NEW b \in BOOLEAN,
         ChangeFeature(w, p, b)
  PROVE  QuietWrite(w, assigned)
  <1>1. Work(p, Roles) \in Writer /\ Work(p, Roles).num = 0
    BY WorkTypes DEF AdminTypes
  <1> QED  BY <1>1 DEF ChangeFeature, QuietWrite

LEMMA UpdatePermissionQuiet ==
  ASSUME AdminTypes, NEW w \in Writers, NEW p \in Replicas, UpdatePermission(w, p)
  PROVE  QuietWrite(w, assigned)
  <1>1. Work(p, {}) \in Writer /\ Work(p, {}).num = 0
    BY WorkTypes DEF AdminTypes
  <1> QED  BY <1>1 DEF UpdatePermission, QuietWrite

LEMMA RemovePermissionQuiet ==
  ASSUME AdminTypes, NEW w \in Writers, NEW p \in Replicas, RemovePermission(w, p)
  PROVE  QuietWrite(w, {})
  <1>1. Work(p, {}) \in Writer /\ Work(p, {}).num = 0
    BY WorkTypes DEF AdminTypes
  <1>2. Touch({})
    BY Untouched DEF AdminTypes, RemovePermission
  <1> QED  BY <1>1, <1>2 DEF RemovePermission, QuietWrite

LEMMA FetchRoleIdsQuiet ==
  ASSUME AdminTypes, NEW w \in Writers, FetchRoleIdsForPermission(w)
  PROVE  QuietWrite(w, {})
  <1>1. Touch({}) /\ UNCHANGED <<epoch, cacheVars, local, pending, at, acked>>
    BY Untouched DEF AdminTypes, FetchRoleIdsForPermission
  <1>2. RolesFound \in SUBSET Roles
    BY DEF AdminTypes, RolesFound
  <1>3. \E step \in {"idle", "roles", "delete", "incr"}, j \in Writer :
          WriterTo(w, step, j) /\ j.num \in {0, wtr[w].num}
    <2>1. CASE WriterTo(w, "delete", [wtr[w] EXCEPT !.roles = RolesFound])
      BY <1>2, <2>1, WorkTypes DEF AdminTypes
    <2>2. CASE InvalidateRoles(w, RolesFound)
      BY <1>2, <2>2, InvalidateRolesQuiet DEF AdminTypes
    <2>3. CASE WriterTo(w, "idle", NoWrite)
      BY <1>2, <2>3, WorkTypes DEF AdminTypes
    <2> QED  BY <2>1, <2>2, <2>3 DEF FetchRoleIdsForPermission
  <1> QED  BY <1>1, <1>3 DEF QuietWrite

LEMMA SafeDeleteQuiet ==
  ASSUME AdminTypes, NEW w \in Writers, SafeDelete(w)
  PROVE  \E S \in SUBSET Roles : QuietWrite(w, S)
  <1>1. UNCHANGED <<epoch, cacheVars, local, pending, at, acked>>
    BY DEF SafeDelete
  <1>2. CASE exists
    <2>1. wtr[w].roles \in SUBSET Roles
      BY DEF AdminTypes, TypeOK, CallTypes, Writer
    <2>2. Touch(assigned) /\ InvalidateRoles(w, wtr[w].roles)
      BY <1>2 DEF SafeDelete
    <2> QED  BY <1>1, <2>1, <2>2, InvalidateRolesQuiet DEF AdminTypes, QuietWrite
  <1>3. CASE ~exists
    <2>1. WriterTo(w, "idle", NoWrite) /\ Touch({})
      BY <1>3, Untouched DEF SafeDelete, AdminTypes
    <2> QED  BY <1>1, <2>1, WorkTypes DEF AdminTypes, QuietWrite
  <1> QED  BY <1>2, <1>3

\* Every step is one of RbacCache or a quiet one.
LEMMA AdminSteps ==
  ASSUME AdminTypes, [AdminNext]_adminVars
  PROVE  [Next]_vars \/ \E w \in Writers, S \in SUBSET Roles : QuietWrite(w, S)
  <1>1. ASSUME NEW w \in Writers, AdminStep(w)
        PROVE  [Next]_vars \/ \E S \in SUBSET Roles : QuietWrite(w, S)
    <2>1. ASSUME NEW p \in Replicas, NEW k \in Roles, ChangeRole(w, p, k)  PROVE Next
      BY <2>1 DEF ChangeRole, Next
    <2>2. CASE FetchRoleIdsForPermission(w)
      BY <2>2, FetchRoleIdsQuiet
    <2>3. CASE SafeDelete(w)
      BY <2>3, SafeDeleteQuiet
    <2>4. ASSUME NEW p \in Replicas, UpdatePermission(w, p) \/ RemovePermission(w, p)
          PROVE  \E S \in SUBSET Roles : QuietWrite(w, S)
      BY <2>4, UpdatePermissionQuiet, RemovePermissionQuiet DEF AdminTypes
    <2>5. ASSUME NEW p \in Replicas, NEW b \in BOOLEAN, ChangeFeature(w, p, b)
          PROVE  \E S \in SUBSET Roles : QuietWrite(w, S)
      BY <2>5, ChangeFeatureQuiet DEF AdminTypes
    <2> QED  BY <1>1, <2>1, <2>2, <2>3, <2>4, <2>5 DEF AdminStep
  <1>2. CASE Read \/ CacheStep \/ \E w \in Writers : Invalidate(w)
    BY <1>2 DEF Next
  <1>3. CASE UNCHANGED adminVars
    BY <1>3 DEF adminVars
  <1> QED  BY <1>1, <1>2, <1>3 DEF AdminNext
-----------------------------------------------------------------------------
(* 2. Types, coherence and freshness.                                       *)

LEMMA QuietTypes ==
  ASSUME TypeOK, NEW w \in Writers, NEW S \in SUBSET Roles, QuietWrite(w, S)
  PROVE  TypeOK'
  <1>1. version' \in [Roles -> Versions]
    <2>1. /\ version \in [Roles -> Versions] /\ \A k \in S : version[k] < MaxEpoch
          /\ version' = [k \in Roles |-> IF k \in S THEN version[k] + 1 ELSE version[k]]
      BY DEF QuietWrite, Touch, TypeOK, StoreTypes
    <2>2. \A k \in Roles : (IF k \in S THEN version[k] + 1 ELSE version[k]) \in Versions
      BY <2>1
    <2> QED  BY <2>1, <2>2
  <1>2. StoreTypes'
    BY <1>1 DEF QuietWrite, cacheVars, TypeOK, StoreTypes, IsTier
  <1>3. CallTypes'
    BY DEF QuietWrite, WriterTo, TypeOK, CallTypes
  <1> QED  BY <1>2, <1>3 DEF TypeOK

LEMMA QuietCoherence ==
  ASSUME TypeOK, CoherenceInv, NEW w \in Writers, NEW S \in SUBSET Roles, QuietWrite(w, S)
  PROVE  CoherenceInv'
  <1>1. \A v \in Writers : wtr[v].num \in Nat /\ wtr[v].num <= epoch /\ epoch \in Nat
    BY LocalTypes DEF CoherenceInv, EpochsBounded
  <1>2. \A v \in Writers : wtr'[v].num \in {0, wtr[v].num}
    BY DEF QuietWrite, WriterTo, TypeOK, CallTypes
  <1>3. \A v \in Writers : wtr'[v].num <= epoch
    BY <1>1, <1>2
  <1> QED  BY <1>3, CommitCoherence DEF QuietWrite, WriterTo

LEMMA QuietFresh ==
  ASSUME TypeOK, FreshInv, NEW w \in Writers, NEW S \in SUBSET Roles, QuietWrite(w, S)
  PROVE  FreshInv'
  <1>1. /\ wpc'[w] \notin {"reply", "clear"}
        /\ \A v \in Writers \ {w} : wpc'[v] = wpc[v] /\ wtr'[v] = wtr[v]
        /\ UNCHANGED <<rpc, rdr, local, pending, at, acked>>
    BY DEF QuietWrite, WriterTo, TypeOK, CallTypes
  <1>2. LocalInv'
    BY <1>1 DEF FreshInv, LocalInv
  <1> QED  BY <1>1, <1>2, ReadersRest DEF FreshInv

LEMMA AdminInitTypes ==
  ASSUME AdminInit
  PROVE  AdminTypes
  BY InitTypes DEF AdminInit, AdminTypes

LEMMA AdminNextTypes ==
  ASSUME AdminTypes, [AdminNext]_adminVars
  PROVE  AdminTypes'
  <1>1. TypeOK'
    BY AdminSteps, NextTypes, QuietTypes DEF AdminTypes
  <1>2. assigned' \subseteq Roles /\ removing' \subseteq Writers
    <2>1. CASE \E w \in Writers : AdminStep(w)
      BY <2>1 DEF AdminTypes, AdminStep, FetchRoleIdsForPermission, SafeDelete,
         UpdatePermission, RemovePermission, ChangeRole, ChangeFeature, permVars
    <2>2. CASE \/ Read /\ UNCHANGED permVars
               \/ CacheStep /\ UNCHANGED <<assigned, exists>>
                  /\ removing' = {w \in removing : wpc'[w] # "idle"}
               \/ \E w \in Writers : Invalidate(w) /\ UNCHANGED permVars
               \/ UNCHANGED adminVars
      BY <2>2 DEF AdminTypes, permVars, adminVars
    <2> QED  BY <2>1, <2>2 DEF AdminNext
  <1> QED  BY <1>1, <1>2 DEF AdminTypes

\* Every call and every store keeps its type under the admin services, whatever fails.
THEOREM AdminTypeOK == AdminSpec => []TypeOK
  <1>1. AdminInit => AdminTypes
    BY AdminInitTypes
  <1>2. AdminTypes /\ [AdminNext]_adminVars => AdminTypes'
    BY AdminNextTypes
  <1>3. AdminTypes => TypeOK
    BY DEF AdminTypes
  <1> QED  BY <1>1, <1>2, <1>3, PTL DEF AdminSpec

AdminInv == AdminTypes /\ CoherenceInv /\ FreshInv

\* CacheInv holds of the services and the cache together: every interleaving of
\* role, permission and feature changes with the readers, as long as no INCR is
\* rejected.
THEOREM AdminInvariant ==
  ASSUME "incr" \notin Faults
  PROVE  AdminSpec => []CacheInv
  <1>1. AdminInit => AdminInv
    BY AdminInitTypes, InitTypes, InitCoherence, InitFresh DEF AdminInit, AdminInv
  <1>2. AdminInv /\ [AdminNext]_adminVars => AdminInv'
    <2> SUFFICES ASSUME AdminInv, [AdminNext]_adminVars  PROVE AdminInv'
      OBVIOUS
    <2>1. AdminTypes /\ TypeOK /\ CoherenceInv /\ FreshInv
      BY DEF AdminInv, AdminTypes
    <2>2. AdminTypes'
      BY <2>1, AdminNextTypes
    <2>3. CASE [Next]_vars
      BY <2>1, <2>2, <2>3, NextCoherence, NextFresh DEF AdminInv
    <2>4. ASSUME NEW w \in Writers, NEW S \in SUBSET Roles, QuietWrite(w, S)
          PROVE  AdminInv'
      BY <2>1, <2>2, <2>4, QuietCoherence, QuietFresh DEF AdminInv
    <2> QED  BY <2>1, <2>3, <2>4, AdminSteps
  <1>3. AdminInv => CacheInv
    BY DEF AdminInv, AdminTypes, CacheInv, FreshInv
  <1> QED  BY <1>1, <1>2, <1>3, PTL DEF AdminSpec

\* No entry promises a mutation it does not include, whichever service made it:
\* a deleted permission, a renamed feature, a role whose permissions are replaced.
THEOREM AdminCacheCoherent ==
  ASSUME "incr" \notin Faults
  PROVE  AdminSpec => []CacheCoherent
  <1>1. CacheInv => CacheCoherent
    BY DEF CacheInv, CoherenceInv
  <1> QED  BY <1>1, AdminInvariant, PTL

\* A check sees every mutation of its role that its own replica has answered, also
\* while a deletion is between its query for the roles and its DELETE.
THEOREM AdminFreshOnOwnReplica ==
  ASSUME "incr" \notin Faults
  PROVE  AdminSpec => []FreshOnOwnReplica
  <1>1. CacheInv => FreshOnOwnReplica
    BY FreshFollows DEF CacheInv, FreshInv
  <1> QED  BY <1>1, AdminInvariant, PTL
-----------------------------------------------------------------------------
(* 3. The caches at rest.                                                   *)

\* A change without an epoch has a writer that still owes the INCR, or is one of the
\* permission, of a role that holds it, and a writer has still to ask for the roles.
\* A change that takes the permission from a role brings a debt of its own.
DebtsOwed ==
  \A k \in Roles : version[k] # at[epoch][k] =>
    \E w \in Writers : \/ wpc[w] = "incr"
                       \/ wpc[w] = "roles" /\ w \notin removing /\ k \in assigned

\* Nobody gives a role the permission while another call is about to delete it.
NoGrantBeforeDelete == ~("role" \in Ops /\ "permRemove" \in Ops)

\* A deletion has found every role that still holds the permission, if no role can
\* have got it since.
RemovalInv ==
  /\ removing # {} => "permRemove" \in Ops
  /\ \A w \in Writers : wpc[w] = "delete" => w \in removing
  /\ \A w \in removing : wpc[w] \in {"roles", "delete"}
  /\ "role" \notin Ops => \A w \in Writers : wpc[w] = "delete" => assigned \subseteq wtr[w].roles

AdminRest == NothingNewer /\ DebtsOwed /\ RemovalInv /\ (~exists => assigned = {})

LEMMA AdminInitRest ==
  ASSUME AdminInit
  PROVE  AdminRest
  <1>1. RestInv /\ TypeOK
    BY InitRest, InitTypes DEF AdminInit
  <1>2. DebtsOwed
    BY <1>1 DEF RestInv, ChangesOwed, DebtsOwed
  <1>3. RemovalInv /\ exists
    BY DEF AdminInit, Init, RemovalInv
  <1> QED  BY <1>1, <1>2, <1>3 DEF RestInv, AdminRest

\* A writer at "incr" owes whatever has changed.
LEMMA OneOwesAll ==
  ASSUME NEW w \in Writers, wpc'[w] = "incr"
  PROVE  DebtsOwed'
  BY DEF DebtsOwed

\* The debts of the others, when w owed none that counts and changes nothing.
LEMMA OthersOwe ==
  ASSUME DebtsOwed, NEW w \in Writers, wpc[w] # "incr", wpc[w] # "roles" \/ w \in removing,
         \A v \in Writers \ {w} : wpc'[v] = wpc[v] /\ (v \in removing' <=> v \in removing),
         UNCHANGED <<version, at, epoch, assigned>>
  PROVE  DebtsOwed'
  BY DEF DebtsOwed

\* One writer moves, and is in removing as its step says.
LEMMA RemovalMoves ==
  ASSUME RemovalInv, NEW w \in Writers, assigned' \subseteq assigned,
         removing' \subseteq Writers,
         \A v \in Writers \ {w} : /\ wpc'[v] = wpc[v] /\ wtr'[v] = wtr[v]
                                  /\ v \in removing' <=> v \in removing,
         removing' # {} => "permRemove" \in Ops,
         wpc'[w] = "delete" => w \in removing' /\ assigned' \subseteq wtr'[w].roles,
         w \in removing' => wpc'[w] \in {"roles", "delete"}
  PROVE  RemovalInv'
  BY DEF RemovalInv

LEMMA AdminInvalidateRest ==
  ASSUME AdminTypes, AdminRest, "incr" \notin Faults, NEW w \in Writers, Invalidate(w),
         UNCHANGED permVars
  PROVE  AdminRest'
  <1>1. /\ wpc[w] \notin {"roles", "delete"} /\ wpc'[w] \in {"reply", "clear", "idle"}
        /\ \A v \in Writers \ {w} : wpc'[v] = wpc[v] /\ wtr'[v] = wtr[v]
        /\ UNCHANGED <<rpc, rdr, version>> /\ Cached' = Cached
    BY DEF Invalidate, IncrementRbacGlobalEpoch, BumpGlobalEpoch, ClearRoleCacheKey, WriterTo,
       AdminTypes, TypeOK, CallTypes, cacheVars, Cached
  <1>2. UNCHANGED <<assigned, exists, removing>>
    BY DEF permVars
  <1>3. NothingNewer'
    BY <1>1 DEF AdminRest, NothingNewer
  <1>4. DebtsOwed'
    <2>1. CASE IncrementRbacGlobalEpoch(w)
      <3>1. at'[epoch'] = version'
        BY <2>1 DEF IncrementRbacGlobalEpoch, AdminTypes, TypeOK, StoreTypes
      <3> QED  BY <3>1 DEF DebtsOwed
    <2>2. CASE BumpGlobalEpoch(w) \/ ClearRoleCacheKey(w)
      <3>1. wpc[w] # "incr" /\ UNCHANGED <<epoch, at>>
        BY <2>2 DEF BumpGlobalEpoch, ClearRoleCacheKey
      <3> QED  BY <1>1, <1>2, <3>1, OthersOwe DEF AdminRest
    <2> QED  BY <2>1, <2>2 DEF Invalidate
  <1>5. w \notin removing /\ (removing # {} => "permRemove" \in Ops)
    BY <1>1 DEF AdminRest, RemovalInv
  <1>6. RemovalInv'
    BY <1>1, <1>2, <1>5, RemovalMoves DEF AdminRest, AdminTypes
  <1> QED  BY <1>2, <1>3, <1>4, <1>6 DEF AdminRest

\* What the other writers and the caches see of a quiet step.
LEMMA QuietRest ==
  ASSUME TypeOK, NothingNewer, NEW w \in Writers, NEW S \in SUBSET Roles, QuietWrite(w, S)
  PROVE  /\ NothingNewer' /\ UNCHANGED <<at, epoch>>
         /\ \A v \in Writers \ {w} : wpc'[v] = wpc[v] /\ wtr'[v] = wtr[v]
         /\ \A k \in Roles \ S : version'[k] = version[k]
  <1>1. NothingNewer'
    BY CommitNewer DEF QuietWrite, WriterTo
  <1>2. \A v \in Writers \ {w} : wpc'[v] = wpc[v] /\ wtr'[v] = wtr[v]
    BY DEF QuietWrite, WriterTo, TypeOK, CallTypes
  <1>3. \A k \in Roles \ S : version'[k] = version[k]
    BY DEF QuietWrite, Touch
  <1> QED  BY <1>1, <1>2, <1>3 DEF QuietWrite

LEMMA ChangeRoleRest ==
  ASSUME AdminTypes, AdminRest, NoGrantBeforeDelete, NEW w \in Writers, NEW p \in Replicas,
         NEW k \in Roles, ChangeRole(w, p, k)
  PROVE  AdminRest'
  <1>1. wpc'[w] = "incr" /\ \A v \in Writers \ {w} : wpc'[v] = wpc[v]
    BY DEF ChangeRole, Mutate, WriterTo, AdminTypes, TypeOK, CallTypes
  <1>2. NothingNewer'
    BY CommitNewer DEF ChangeRole, Mutate, WriterTo, AdminTypes, AdminRest
  <1>3. removing = {} /\ removing' = {} /\ "role" \in Ops
    BY DEF ChangeRole, NoGrantBeforeDelete, AdminRest, RemovalInv
  <1>4. RemovalInv'
    BY <1>1, <1>3 DEF AdminRest, RemovalInv
  <1>5. ~exists' => assigned' = {}
    BY DEF ChangeRole, AdminRest
  <1> QED  BY <1>1, <1>2, <1>4, <1>5, OneOwesAll DEF AdminRest

LEMMA ChangeFeatureRest ==
  ASSUME AdminTypes, AdminRest, NEW w \in Writers, NEW p \in Replicas, NEW b \in BOOLEAN,
         ChangeFeature(w, p, b)
  PROVE  AdminRest'
  <1>1. NothingNewer' /\ \A v \in Writers \ {w} : wpc'[v] = wpc[v] /\ wtr'[v] = wtr[v]
    BY ChangeFeatureQuiet, QuietRest DEF AdminTypes, AdminRest
  <1>2. /\ wpc[w] = "idle" /\ wpc'[w] = "incr" /\ removing' = removing
        /\ assigned' \subseteq assigned /\ (~exists' => assigned' = {})
    BY DEF ChangeFeature, WriterTo, AdminTypes, TypeOK, CallTypes
  <1>3. w \notin removing /\ (removing # {} => "permRemove" \in Ops)
    BY <1>2 DEF AdminRest, RemovalInv
  <1>4. RemovalInv'
    BY <1>1, <1>2, <1>3, RemovalMoves DEF AdminRest, AdminTypes
  <1> QED  BY <1>1, <1>2, <1>4, OneOwesAll DEF AdminRest

\* From its commit to its query an update of the permission owes an INCR to every
\* role that holds it.
LEMMA UpdatePermissionRest ==
  ASSUME AdminTypes, AdminRest, NEW w \in Writers, NEW p \in Replicas, UpdatePermission(w, p)
  PROVE  AdminRest'
  <1>1. /\ NothingNewer' /\ UNCHANGED <<at, epoch>>
        /\ \A v \in Writers \ {w} : wpc'[v] = wpc[v] /\ wtr'[v] = wtr[v]
        /\ \A k \in Roles \ assigned : version'[k] = version[k]
    BY UpdatePermissionQuiet, QuietRest DEF AdminTypes, AdminRest
  <1>2. wpc[w] = "idle" /\ wpc'[w] = "roles" /\ UNCHANGED <<assigned, exists, removing>>
    BY DEF UpdatePermission, WriterTo, permVars, AdminTypes, TypeOK, CallTypes
  <1>3. w \notin removing /\ (removing # {} => "permRemove" \in Ops)
    BY <1>2 DEF AdminRest, RemovalInv
  <1>4. DebtsOwed'
    BY <1>1, <1>2, <1>3 DEF AdminRest, DebtsOwed
  <1>5. RemovalInv'
    BY <1>1, <1>2, <1>3, RemovalMoves DEF AdminRest, AdminTypes
  <1> QED  BY <1>1, <1>2, <1>4, <1>5 DEF AdminRest

LEMMA RemovePermissionRest ==
  ASSUME AdminTypes, AdminRest, NEW w \in Writers, NEW p \in Replicas, RemovePermission(w, p)
  PROVE  AdminRest'
  <1>1. /\ NothingNewer' /\ UNCHANGED <<at, epoch>>
        /\ \A v \in Writers \ {w} : wpc'[v] = wpc[v] /\ wtr'[v] = wtr[v]
    BY RemovePermissionQuiet, QuietRest DEF AdminTypes, AdminRest
  <1>2. /\ wpc[w] = "idle" /\ wpc'[w] = "roles" /\ UNCHANGED <<assigned, exists, version>>
        /\ removing' = removing \union {w} /\ "permRemove" \in Ops
    BY DEF RemovePermission, WriterTo, AdminTypes, TypeOK, CallTypes
  <1>3. DebtsOwed'
    BY <1>1, <1>2, OthersOwe DEF AdminRest
  <1>4. RemovalInv'
    BY <1>1, <1>2, RemovalMoves DEF AdminRest, AdminTypes
  <1> QED  BY <1>1, <1>2, <1>3, <1>4 DEF AdminRest

LEMMA FetchRoleIdsRest ==
  ASSUME AdminTypes, AdminRest, "roles" \notin Faults, NEW w \in Writers,
         FetchRoleIdsForPermission(w)
  PROVE  AdminRest'
  <1>1. /\ NothingNewer' /\ UNCHANGED <<at, epoch>>
        /\ \A v \in Writers \ {w} : wpc'[v] = wpc[v] /\ wtr'[v] = wtr[v]
    BY FetchRoleIdsQuiet, QuietRest DEF AdminTypes, AdminRest
  <1>2. /\ wpc[w] = "roles" /\ UNCHANGED <<assigned, exists, version, removing>>
        /\ removing # {} => "permRemove" \in Ops
    BY DEF FetchRoleIdsForPermission, AdminRest, RemovalInv
  <1>3. CASE w \in removing
    <2>1. wpc'[w] = "delete" /\ wtr'[w].roles = assigned
      BY <1>3 DEF FetchRoleIdsForPermission, RolesFound, WriterTo, AdminTypes, TypeOK, CallTypes,
         Writer
    <2>2. DebtsOwed'
      BY <1>1, <1>2, <1>3, OthersOwe DEF AdminRest
    <2>3. RemovalInv'
      BY <1>1, <1>2, <1>3, <2>1, RemovalMoves DEF AdminRest, AdminTypes
    <2> QED  BY <1>1, <1>2, <2>2, <2>3 DEF AdminRest
  <1>4. CASE w \notin removing
    <2>1. IF assigned = {} THEN wpc'[w] = "idle" ELSE wpc'[w] = "incr"
      BY <1>4 DEF FetchRoleIdsForPermission, RolesFound, InvalidateRoles, WriterTo, AdminTypes,
         TypeOK, CallTypes
    <2>2. DebtsOwed'
      <3>1. CASE assigned = {}
        BY <1>1, <1>2, <3>1 DEF AdminRest, DebtsOwed
      <3>2. CASE assigned # {}
        BY <2>1, <3>2, OneOwesAll
      <3> QED  BY <3>1, <3>2
    <2>3. RemovalInv'
      BY <1>1, <1>2, <1>4, <2>1, RemovalMoves DEF AdminRest, AdminTypes
    <2> QED  BY <1>1, <1>2, <2>2, <2>3 DEF AdminRest
  <1> QED  BY <1>3, <1>4

\* The roles that lose the permission with it are among those the query has found.
LEMMA SafeDeleteRest ==
  ASSUME AdminTypes, AdminRest, NoGrantBeforeDelete, NEW w \in Writers, SafeDelete(w)
  PROVE  AdminRest'
  <1>1. /\ NothingNewer' /\ UNCHANGED <<at, epoch>>
        /\ \A v \in Writers \ {w} : wpc'[v] = wpc[v] /\ wtr'[v] = wtr[v]
    BY SafeDeleteQuiet, QuietRest DEF AdminTypes, AdminRest
  <1>2. /\ wpc[w] = "delete" /\ w \in removing /\ "permRemove" \in Ops
        /\ assigned \subseteq wtr[w].roles
    BY DEF SafeDelete, AdminRest, RemovalInv, NoGrantBeforeDelete
  <1>3. /\ assigned' = {} /\ exists' = FALSE /\ removing' = removing \ {w}
        /\ wpc'[w] \in {"idle", "incr"}
        /\ wpc'[w] = "idle" => assigned = {} /\ version' = version
    <2>1. CASE exists /\ wtr[w].roles # {}
      BY <2>1 DEF SafeDelete, InvalidateRoles, WriterTo, AdminTypes, TypeOK, CallTypes
    <2>2. CASE exists /\ wtr[w].roles = {}
      BY <1>2, <2>2 DEF SafeDelete, InvalidateRoles, WriterTo, Touch, AdminTypes, TypeOK,
         StoreTypes, CallTypes
    <2>3. CASE ~exists
      BY <2>3 DEF SafeDelete, WriterTo, AdminRest, AdminTypes, TypeOK, CallTypes
    <2> QED  BY <2>1, <2>2, <2>3
  <1>4. DebtsOwed'
    <2>1. CASE wpc'[w] = "idle"
      BY <1>1, <1>2, <1>3, <2>1, OthersOwe DEF AdminRest
    <2> QED  BY <1>3, <2>1, OneOwesAll
  <1>5. RemovalInv'
    BY <1>1, <1>2, <1>3, RemovalMoves DEF AdminRest, AdminTypes
  <1> QED  BY <1>1, <1>3, <1>4, <1>5 DEF AdminRest

LEMMA AdminNextRest ==
  ASSUME AdminTypes, AdminRest, Faults \intersect {"incr", "restart", "roles"} = {},
         NoGrantBeforeDelete, [AdminNext]_adminVars
  PROVE  AdminRest'
  <1>1. TypeOK /\ NothingNewer /\ removing \subseteq Writers
    BY DEF AdminTypes, AdminRest
  <1>2. ASSUME Resting, UNCHANGED <<assigned, exists, removing>>
        PROVE  AdminRest'
    BY <1>2 DEF Resting, AdminRest, DebtsOwed, RemovalInv
  <1>3. CASE Read /\ UNCHANGED permVars
    BY <1>1, <1>2, <1>3, ReadRests DEF permVars
  <1>4. CASE /\ CacheStep /\ UNCHANGED <<assigned, exists>>
             /\ removing' = {w \in removing : wpc'[w] # "idle"}
    <2>1. Resting
      BY <1>1, <1>4, CacheStepRests
    <2>2. removing' = removing
      BY <1>1, <1>4, <2>1 DEF Resting, AdminRest, RemovalInv
    <2> QED  BY <1>2, <1>4, <2>1, <2>2
  <1>5. ASSUME NEW w \in Writers, Invalidate(w), UNCHANGED permVars
        PROVE  AdminRest'
    BY <1>5, AdminInvalidateRest
  <1>6. ASSUME NEW w \in Writers, AdminStep(w)
        PROVE  AdminRest'
    BY <1>6, FetchRoleIdsRest, SafeDeleteRest, UpdatePermissionRest, RemovePermissionRest,
       ChangeRoleRest, ChangeFeatureRest DEF AdminStep
  <1>7. CASE UNCHANGED adminVars
    <2>1. Resting
      BY <1>1, <1>7, CachesRests DEF adminVars, vars, cacheVars, Cached
    <2> QED  BY <1>2, <1>7, <2>1 DEF adminVars
  <1> QED  BY <1>3, <1>4, <1>5, <1>6, <1>7 DEF AdminNext

\* Once every mutation of a role, of the permission or of its feature is over, an
\* entry that would be accepted holds what the database holds, although the roles
\* of the permission change between its update and the query for them.  It needs
\* that no INCR and no query for the roles is rejected and that no replica dies
\* before its INCR, and of PermissionService.remove, which asks for the roles before
\* it deletes, that no role gets the permission meanwhile.
THEOREM AdminQuiescentFresh ==
  ASSUME Faults \intersect {"incr", "restart", "roles"} = {}, NoGrantBeforeDelete
  PROVE  AdminSpec => []QuiescentFresh
  <1> DEFINE I == AdminTypes /\ AdminRest
  <1>1. AdminInit => I
    BY AdminInitTypes, AdminInitRest
  <1>2. I /\ [AdminNext]_adminVars => I'
    BY AdminNextTypes, AdminNextRest
  <1>3. I /\ CacheCoherent => QuiescentFresh
    <2> SUFFICES ASSUME AdminTypes, AdminRest, CacheCoherent,
                        \A w \in Writers : wpc[w] = "idle"
                 PROVE  QuiescentFresh
      BY DEF QuiescentFresh
    <2>1. RestInv
      BY DEF AdminRest, DebtsOwed, RestInv, ChangesOwed
    <2> QED  BY <2>1, RestFollows DEF AdminTypes
  <1>4. AdminSpec => []CacheCoherent
    BY AdminCacheCoherent
  <1> QED  BY <1>1, <1>2, <1>3, <1>4, PTL DEF AdminSpec
=============================================================================
