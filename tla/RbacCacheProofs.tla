--------------------------- MODULE RbacCacheProofs ---------------------------
(***************************************************************************)
(* The permission cache for any replicas, roles, calls and bounds.  Types   *)
(* need no condition on Faults; coherence and what a replica owes to its    *)
(* own answers need that no INCR is rejected, and freshness at rest needs   *)
(* that no replica dies either.                                             *)
(***************************************************************************)
EXTENDS RbacCache, TLAPS

USE ReplicasAssumption, ReadersAssumption, CacheBoundsAssumption
USE DEF Versions, Epochs, LocalEpochs
-----------------------------------------------------------------------------
(* 1. Types.                                                                *)

LEMMA DefaultTypes ==
  /\ NoVersions \in [Roles -> Versions] /\ NoVersions \in [Roles -> Epochs]
  /\ NoRead \in Reader /\ NoWrite \in Writer
  <1>1. AnyReplica \in Replicas /\ AnyRole \in Roles
    BY DEF AnyReplica, AnyRole
  <1> QED  BY <1>1 DEF NoVersions, NoRead, NoWrite, Reader, Writer

LEMMA PutTier ==
  ASSUME NEW S, IsTier(S), NEW e \in Entry
  PROVE  IsTier(Put(S, e))
  BY DEF IsTier, Put, OfRole

LEMMA SubTier ==
  ASSUME NEW S, IsTier(S), NEW T \in SUBSET S
  PROVE  IsTier(T)
  BY DEF IsTier

LEMMA SettleTypes ==
  ASSUME CallTypes, NEW r \in Readers, NEW outcome \in {"idle", "failed"}, Settle(r, outcome)
  PROVE  /\ rpc' \in [Readers -> {"idle", "failed", "epoch", "cache", "missed", "joined",
                                  "query", "rows"}]
         /\ rdr' \in [Readers -> Reader]
         /\ wpc' = wpc /\ wtr' = wtr
  BY DefaultTypes DEF CallTypes, Settle

LEMMA SetPendingTypes ==
  ASSUME CallTypes, NEW r \in Readers, NEW q \in Readers \union {NoReader}
  PROVE  SetPending(r, q) \in [Replicas -> [Roles -> Readers \union {NoReader}]]
  <1>1. rdr[r].replica \in Replicas /\ rdr[r].role \in Roles
    BY DEF CallTypes, Reader
  <1> QED  BY <1>1 DEF CallTypes, SetPending

\* A reader whose record changes in one field stays a reader.
LEMMA ReaderFields ==
  ASSUME CallTypes, NEW r \in Readers
  PROVE  /\ \A n \in LocalEpochs : [rdr EXCEPT ![r].cur = n] \in [Readers -> Reader]
         /\ \A n \in LocalEpochs : [rdr EXCEPT ![r].snap = n] \in [Readers -> Reader]
         /\ \A q \in Readers \union {NoReader} : [rdr EXCEPT ![r].on = q] \in [Readers -> Reader]
         /\ \A v \in Versions : [rdr EXCEPT ![r].val = v] \in [Readers -> Reader]
  <1>1. rdr \in [Readers -> Reader] /\ rdr[r] \in Reader
    BY DEF CallTypes
  <1>2. ASSUME NEW x \in Reader  PROVE [rdr EXCEPT ![r] = x] \in [Readers -> Reader]
    BY <1>1
  <1>3. \A n \in LocalEpochs : [rdr[r] EXCEPT !.cur = n] \in Reader
    BY <1>1 DEF Reader
  <1>4. \A n \in LocalEpochs : [rdr[r] EXCEPT !.snap = n] \in Reader
    BY <1>1 DEF Reader
  <1>5. \A q \in Readers \union {NoReader} : [rdr[r] EXCEPT !.on = q] \in Reader
    BY <1>1 DEF Reader
  <1>6. \A v \in Versions : [rdr[r] EXCEPT !.val = v] \in Reader
    BY <1>1 DEF Reader
  <1> QED  BY <1>2, <1>3, <1>4, <1>5, <1>6

LEMMA WriterNum ==
  ASSUME CallTypes, NEW w \in Writers, NEW n \in Epochs
  PROVE  [wtr[w] EXCEPT !.num = n] \in Writer
  BY DEF CallTypes, Writer

LEMMA StoresKept ==
  ASSUME StoreTypes, UNCHANGED <<version, epoch, cacheVars, at, acked>>
  PROVE  StoreTypes'
  BY DEF StoreTypes, cacheVars, IsTier

LEMMA InitTypes ==
  ASSUME Init
  PROVE  TypeOK
  BY DefaultTypes DEF Init, TypeOK, StoreTypes, CallTypes, IsTier

LEMMA CallTypesOfRead ==
  ASSUME TypeOK, NEW r \in Readers, NEW p \in Replicas, NEW k \in Roles,
         GetPermissionsForRole(r, p, k)
  PROVE  TypeOK'
  <1>1. StoreTypes'
    BY StoresKept DEF GetPermissionsForRole, TypeOK
  <1>2. [NoRead EXCEPT !.replica = p, !.role = k, !.cur = epoch,
                       !.seen = [q \in Observed |-> acked[q][k]]] \in Reader
    <2>1. epoch \in Epochs /\ acked \in [Observed -> [Roles -> Epochs]]
      BY DEF TypeOK, StoreTypes
    <2>2. [q \in Observed |-> acked[q][k]] \in [Observed -> Epochs] /\ epoch \in LocalEpochs
      BY <2>1
    <2>3. \A x \in [Observed -> Epochs], n \in LocalEpochs :
            [NoRead EXCEPT !.replica = p, !.role = k, !.cur = n, !.seen = x] \in Reader
      BY DefaultTypes DEF Reader, NoRead
    <2> QED  BY <2>1, <2>2, <2>3
  <1>3. CallTypes'
    BY <1>2 DEF GetPermissionsForRole, TypeOK, CallTypes, ReaderTo
  <1> QED  BY <1>1, <1>3 DEF TypeOK

LEMMA GetGlobalEpochTypes ==
  ASSUME TypeOK, NEW r \in Readers, GetGlobalEpoch(r)
  PROVE  TypeOK'
  <1> DEFINE p == rdr[r].replica
  <1>1. StoreTypes'
    BY StoresKept DEF GetGlobalEpoch, TypeOK
  <1>2. p \in Replicas /\ rdr[r].cur \in LocalEpochs /\ local[p] \in LocalEpochs
    BY DEF TypeOK, CallTypes, Reader
  <1>3. \/ rdr' = [rdr EXCEPT ![r].cur = local[p]] /\ local' = local
        \/ local' = [local EXCEPT ![p] = rdr[r].cur] /\ rdr' = rdr
    BY DEF GetGlobalEpoch
  <1>4. rdr' \in [Readers -> Reader] /\ local' \in [Replicas -> LocalEpochs]
    <2>1. rdr \in [Readers -> Reader] /\ local \in [Replicas -> LocalEpochs] /\ CallTypes
      BY DEF TypeOK, CallTypes
    <2>2. [rdr EXCEPT ![r].cur = local[p]] \in [Readers -> Reader]
      BY <1>2, <2>1, ReaderFields
    <2>3. [local EXCEPT ![p] = rdr[r].cur] \in [Replicas -> LocalEpochs]
      BY <1>2, <2>1
    <2> QED  BY <1>3, <2>1, <2>2, <2>3
  <1>5. CallTypes'
    BY <1>4 DEF GetGlobalEpoch, TypeOK, CallTypes, ReaderTo
  <1> QED  BY <1>1, <1>5 DEF TypeOK

LEMMA CacheLookupTypes ==
  ASSUME TypeOK, NEW r \in Readers, CacheHit(r) \/ CacheMiss(r)
  PROVE  TypeOK'
  <1>1. StoreTypes'
    BY StoresKept DEF CacheHit, CacheMiss, TypeOK
  <1>2. CASE CacheHit(r)
    <2>1. CallTypes'
      BY <1>2, SettleTypes DEF CacheHit, TypeOK, CallTypes
    <2> QED  BY <1>1, <2>1 DEF TypeOK
  <1>3. CASE CacheMiss(r)
    <2>1. CallTypes'
      BY <1>3 DEF CacheMiss, ReaderTo, TypeOK, CallTypes
    <2> QED  BY <1>1, <2>1 DEF TypeOK
  <1> QED  BY <1>2, <1>3

LEMMA JoinTypes ==
  ASSUME TypeOK, NEW r \in Readers, Join(r)
  PROVE  TypeOK'
  <1>1. StoreTypes'
    BY StoresKept DEF Join, TypeOK
  <1>2. PendingOf(r) \in Readers \union {NoReader}
    BY DEF PendingOf, TypeOK, CallTypes, Reader
  <1>3. CallTypes'
    BY <1>2, ReaderFields DEF Join, ReaderTo, TypeOK, CallTypes
  <1> QED  BY <1>1, <1>3 DEF TypeOK

LEMMA FetchTypes ==
  ASSUME TypeOK, NEW r \in Readers, Fetch(r)
  PROVE  TypeOK'
  <1>1. StoreTypes'
    BY StoresKept DEF Fetch, TypeOK
  <1>2. local[rdr[r].replica] \in LocalEpochs
    BY DEF TypeOK, CallTypes, Reader
  <1>3. CallTypes'
    BY <1>2, ReaderFields, SetPendingTypes DEF Fetch, ReaderTo, TypeOK, CallTypes
  <1> QED  BY <1>1, <1>3 DEF TypeOK

LEMMA QueryTypes ==
  ASSUME TypeOK, NEW r \in Readers, FetchPermissionStringsForRole(r)
  PROVE  TypeOK'
  <1>1. StoreTypes'
    BY StoresKept DEF FetchPermissionStringsForRole, TypeOK
  <1>2. version[rdr[r].role] \in Versions
    BY DEF TypeOK, StoreTypes, CallTypes, Reader
  <1>3. CallTypes'
    BY <1>2, ReaderFields DEF FetchPermissionStringsForRole, ReaderTo, TypeOK, CallTypes
  <1> QED  BY <1>1, <1>3 DEF TypeOK

LEMMA FetchDoneTypes ==
  ASSUME TypeOK, NEW r \in Readers, FetchDone(r)
  PROVE  TypeOK'
  <1> DEFINE p == rdr[r].replica
             e == [role |-> rdr[r].role, tag |-> EpochOfCall(r), val |-> rdr[r].val]
  <1>1. p \in Replicas /\ e \in Entry
    BY DEF TypeOK, CallTypes, Reader, Entry, EpochOfCall
  <1>2. \/ l1' = [l1 EXCEPT ![p] = Put(l1[p], e)] /\ sets' = [sets EXCEPT ![p] = sets[p] \union {e}]
        \/ l1' = l1 /\ sets' = sets
    BY DEF FetchDone
  <1> HIDE DEF p, e
  <1>3. sets' \in [Replicas -> SUBSET Entry]
    <2>1. sets \in [Replicas -> SUBSET Entry] /\ sets[p] \union {e} \in SUBSET Entry
      BY <1>1 DEF TypeOK, StoreTypes
    <2> QED  BY <1>2, <2>1
  <1>4. IsTier(Put(l1[p], e))
    BY <1>1, PutTier DEF TypeOK, StoreTypes
  <1>5. l1' \in [Replicas -> SUBSET Entry] /\ \A q \in Replicas : IsTier(l1'[q])
    <2>1. l1 \in [Replicas -> SUBSET Entry] /\ \A q \in Replicas : IsTier(l1[q])
      BY DEF TypeOK, StoreTypes
    <2>2. Put(l1[p], e) \in SUBSET Entry
      BY <1>4 DEF IsTier
    <2> QED  BY <1>1, <1>2, <1>4, <2>1, <2>2
  <1>6. StoreTypes'
    BY <1>3, <1>5 DEF FetchDone, TypeOK, StoreTypes, IsTier
  <1>7. CallTypes'
    BY SettleTypes, SetPendingTypes DEF FetchDone, TypeOK, CallTypes
  <1> QED  BY <1>6, <1>7 DEF TypeOK

LEMMA FetchFailsTypes ==
  ASSUME TypeOK, NEW r \in Readers, FetchFails(r)
  PROVE  TypeOK'
  <1>1. StoreTypes'
    BY StoresKept DEF FetchFails, TypeOK
  <1>2. CallTypes'
    BY SettleTypes, SetPendingTypes DEF FetchFails, TypeOK, CallTypes
  <1> QED  BY <1>1, <1>2 DEF TypeOK

LEMMA SetArrivesTypes ==
  ASSUME TypeOK, NEW p \in Replicas, NEW e \in sets[p], SetArrives(p, e)
  PROVE  TypeOK'
  <1>1. e \in Entry /\ sets' \in [Replicas -> SUBSET Entry]
    BY DEF SetArrives, TypeOK, StoreTypes
  <1>2. IsTier(l2')
    BY <1>1, PutTier DEF SetArrives, TypeOK, StoreTypes
  <1>3. StoreTypes'
    BY <1>1, <1>2 DEF SetArrives, TypeOK, StoreTypes, IsTier
  <1>4. CallTypes'
    BY DEF SetArrives, callVars, TypeOK, CallTypes
  <1> QED  BY <1>3, <1>4 DEF TypeOK

LEMMA ExpireTypes ==
  ASSUME TypeOK, NEW e, Expire(e)
  PROVE  TypeOK'
  <1>1. IsTier(l2') /\ l1' \in [Replicas -> SUBSET Entry]
    BY DEF Expire, TypeOK, StoreTypes, IsTier
  <1>2. ASSUME NEW p \in Replicas  PROVE IsTier(l1'[p])
    <2>1. IsTier(l1[p]) /\ l1'[p] \in SUBSET l1[p]
      BY DEF Expire, TypeOK, StoreTypes
    <2> QED  BY <2>1, SubTier
  <1>3. StoreTypes'
    BY <1>1, <1>2 DEF Expire, TypeOK, StoreTypes
  <1>4. CallTypes'
    BY DEF Expire, callVars, TypeOK, CallTypes
  <1> QED  BY <1>3, <1>4 DEF TypeOK

LEMMA MutateTypes ==
  ASSUME TypeOK, NEW w \in Writers, NEW p \in Replicas, NEW S \in SUBSET Roles,
         Mutate(w, p, S)
  PROVE  TypeOK'
  <1>1. version' \in [Roles -> Versions]
    <2>1. /\ version \in [Roles -> Versions] /\ \A k \in S : version[k] < MaxEpoch
          /\ version' = [k \in Roles |-> IF k \in S THEN version[k] + 1 ELSE version[k]]
      BY DEF Mutate, Touch, TypeOK, StoreTypes
    <2>2. \A k \in Roles : (IF k \in S THEN version[k] + 1 ELSE version[k]) \in Versions
      BY <2>1
    <2> QED  BY <2>1, <2>2
  <1>2. StoreTypes'
    BY <1>1 DEF Mutate, cacheVars, TypeOK, StoreTypes, IsTier
  <1>3. Work(p, S) \in Writer
    BY DEF Work, Writer
  <1>4. CallTypes'
    BY <1>3 DEF Mutate, WriterTo, TypeOK, CallTypes
  <1> QED  BY <1>2, <1>4 DEF TypeOK

LEMMA IncrementTypes ==
  ASSUME TypeOK, NEW w \in Writers, IncrementRbacGlobalEpoch(w)
  PROVE  TypeOK'
  <1>1. epoch' \in Epochs /\ epoch' = epoch + 1
    BY DEF IncrementRbacGlobalEpoch, TypeOK, StoreTypes
  <1>2. at' \in [Epochs -> [Roles -> Versions]]
    BY <1>1 DEF IncrementRbacGlobalEpoch, TypeOK, StoreTypes
  <1>3. StoreTypes'
    BY <1>1, <1>2 DEF IncrementRbacGlobalEpoch, cacheVars, TypeOK, StoreTypes, IsTier
  <1>4. CallTypes'
    BY <1>1, WriterNum DEF IncrementRbacGlobalEpoch, WriterTo, TypeOK, CallTypes
  <1> QED  BY <1>3, <1>4 DEF TypeOK

LEMMA BumpTypes ==
  ASSUME TypeOK, NEW w \in Writers, BumpGlobalEpoch(w)
  PROVE  TypeOK'
  <1>1. StoreTypes'
    BY StoresKept DEF BumpGlobalEpoch, TypeOK
  <1>2. wtr[w] \in Writer /\ wtr[w].replica \in Replicas /\ wtr[w].num \in LocalEpochs
    BY DEF TypeOK, CallTypes, Writer
  <1>3. local' \in [Replicas -> LocalEpochs]
    <2>1. local \in [Replicas -> LocalEpochs] /\ MaxEpoch \in Nat
      BY CacheBoundsAssumption DEF TypeOK, CallTypes
    <2>2. CASE local' = EpochTaken(w)
      BY <1>2, <2>1, <2>2 DEF EpochTaken
    <2>3. CASE /\ local[wtr[w].replica] < 2 * MaxEpoch
               /\ local' = [local EXCEPT ![wtr[w].replica] = @ + 1]
      BY <1>2, <2>1, <2>3 DEF LocalEpochs
    <2> QED  BY <2>2, <2>3 DEF BumpGlobalEpoch
  <1>4. wtr' \in [Writers -> Writer]
    <2>1. wtr \in [Writers -> Writer] /\ [wtr[w] EXCEPT !.num = 0] \in Writer
      <3>1. 0 \in Epochs
        BY CacheBoundsAssumption DEF Epochs
      <3> QED  BY <3>1, WriterNum DEF TypeOK, CallTypes
    <2>2. wtr' = [wtr EXCEPT ![w] = wtr[w]] \/ wtr' = [wtr EXCEPT ![w] = [wtr[w] EXCEPT !.num = 0]]
      BY DEF BumpGlobalEpoch, WriterTo
    <2> QED  BY <1>2, <2>1, <2>2
  <1>5. CallTypes'
    BY <1>3, <1>4 DEF BumpGlobalEpoch, WriterTo, TypeOK, CallTypes
  <1> QED  BY <1>1, <1>5 DEF TypeOK

LEMMA ClearTypes ==
  ASSUME TypeOK, NEW w \in Writers, ClearRoleCacheKey(w)
  PROVE  TypeOK'
  <1>1. wtr[w].replica \in Replicas /\ wtr[w].num \in Epochs
    BY DEF TypeOK, CallTypes, Writer
  <1>2. acked' \in [Observed -> [Roles -> Epochs]]
    BY <1>1 DEF ClearRoleCacheKey, TypeOK, StoreTypes
  <1>3. StoreTypes'
    BY <1>2 DEF ClearRoleCacheKey, cacheVars, TypeOK, StoreTypes, IsTier
  <1>4. PendingCleared(w) \in [Roles -> Readers \union {NoReader}]
    BY <1>1 DEF PendingCleared, TypeOK, CallTypes
  <1>5. CallTypes'
    BY <1>4, DefaultTypes DEF ClearRoleCacheKey, WriterTo, TypeOK, CallTypes
  <1> QED  BY <1>3, <1>5 DEF TypeOK

LEMMA RestartTypes ==
  ASSUME TypeOK, NEW p \in Replicas, Restart(p)
  PROVE  TypeOK'
  <1>1. /\ l1' \in [Replicas -> SUBSET Entry] /\ sets' \in [Replicas -> SUBSET Entry]
        /\ \A q \in Replicas : IsTier(l1'[q])
    BY DEF Restart, TypeOK, StoreTypes, IsTier
  <1>2. acked' \in [Observed -> [Roles -> Epochs]]
    BY DefaultTypes DEF Restart, TypeOK, StoreTypes
  <1>3. StoreTypes'
    BY <1>1, <1>2 DEF Restart, TypeOK, StoreTypes, IsTier
  <1>4. pending' \in [Replicas -> [Roles -> Readers \union {NoReader}]]
    BY DEF Restart, TypeOK, CallTypes
  <1>5. rpc' \in [Readers -> {"idle", "failed", "epoch", "cache", "missed", "joined",
                              "query", "rows"}] /\ rdr' \in [Readers -> Reader]
    BY DefaultTypes DEF Restart, TypeOK, CallTypes
  <1>6. wpc' \in [Writers -> {"idle", "roles", "delete", "incr", "reply", "clear"}]
        /\ wtr' \in [Writers -> Writer]
    BY DefaultTypes DEF Restart, TypeOK, CallTypes
  <1>7. local' \in [Replicas -> LocalEpochs]
    BY DEF Restart, TypeOK, CallTypes
  <1>8. CallTypes'
    BY <1>4, <1>5, <1>6, <1>7 DEF CallTypes
  <1> QED  BY <1>3, <1>8 DEF TypeOK

LEMMA ReaderStepTypes ==
  ASSUME TypeOK, NEW r \in Readers, ReaderStep(r)
  PROVE  TypeOK'
  BY GetGlobalEpochTypes, CacheLookupTypes, JoinTypes, FetchTypes, QueryTypes,
     FetchDoneTypes, FetchFailsTypes DEF ReaderStep

LEMMA NextTypes ==
  ASSUME TypeOK, [Next]_vars
  PROVE  TypeOK'
  <1>1. CASE Read
    BY <1>1, ReaderStepTypes, CallTypesOfRead DEF Read
  <1>2. CASE CacheStep
    BY <1>2, RestartTypes, SetArrivesTypes, ExpireTypes DEF CacheStep
  <1>3. ASSUME NEW w \in Writers, Invalidate(w)  PROVE TypeOK'
    BY <1>3, IncrementTypes, BumpTypes, ClearTypes DEF Invalidate
  <1>4. ASSUME NEW w \in Writers, NEW p \in Replicas,
               NEW S \in {{k} : k \in Roles} \union {Roles}, Mutate(w, p, S)
        PROVE  TypeOK'
    <2>1. S \in SUBSET Roles
      OBVIOUS
    <2> QED  BY <1>4, <2>1, MutateTypes
  <1>5. CASE UNCHANGED vars
    BY <1>5 DEF vars, cacheVars, callVars, TypeOK, StoreTypes, CallTypes, IsTier
  <1> QED  BY <1>1, <1>2, <1>3, <1>4, <1>5 DEF Next

\* Every variable keeps its type, whatever may fail.
THEOREM CacheTypeOK == Spec => []TypeOK
  BY InitTypes, NextTypes, PTL DEF Spec
-----------------------------------------------------------------------------
(* 2. Coherence.                                                            *)

LEMMA InitCoherence ==
  ASSUME Init
  PROVE  CoherenceInv
  <1>1. TypeOK /\ Cached = {}
    BY InitTypes DEF Init, Cached
  <1>2. EpochsBounded
    BY DEF Init, EpochsBounded, NoRead, NoWrite
  <1>3. EpochsGrow
    BY DEF Init, EpochsGrow, NoVersions
  <1>4. RowsFresh
    BY DEF Init, RowsFresh
  <1> QED  BY <1>1, <1>2, <1>3, <1>4 DEF CoherenceInv, CacheCoherent

\* An entry, or the rows of a fetch, that a state may hold at the current epochs.
Coherent(e) == e.tag <= epoch /\ e.val >= at[e.tag][e.role]

\* What has to be looked at in a step that produces no epoch and commits nothing.
LEMMA CoherenceFrame ==
  ASSUME TypeOK, CoherenceInv, UNCHANGED <<version, epoch, at>>,
         \A p \in Replicas : local'[p] <= epoch,
         \A r \in Readers : rdr'[r].cur <= epoch,
         \A w \in Writers : wtr'[w].num <= epoch,
         \A r \in Readers : rpc'[r] = "rows" => rdr'[r].val >= at[rdr'[r].cur][rdr'[r].role],
         \A e \in Cached' : Coherent(e)
  PROVE  CoherenceInv'
  <1>1. EpochsBounded'
    BY DEF EpochsBounded
  <1>2. EpochsGrow'
    BY DEF EpochsGrow, CoherenceInv
  <1>3. RowsFresh'
    BY DEF RowsFresh
  <1>4. CacheCoherent'
    BY DEF CacheCoherent, Coherent
  <1> QED  BY <1>1, <1>2, <1>3, <1>4 DEF CoherenceInv

\* A step of one reader that leaves the caches alone.
LEMMA ReaderCoherence ==
  ASSUME TypeOK, CoherenceInv, NEW r \in Readers,
         UNCHANGED <<version, epoch, l1, l2, sets, at, wtr>>,
         \A p \in Replicas : local'[p] <= epoch,
         \A q \in Readers \ {r} : \/ rpc'[q] = rpc[q] /\ rdr'[q] = rdr[q]
                                  \/ rpc'[q] # "rows" /\ rdr'[q] = NoRead,
         rdr'[r].cur <= epoch,
         rpc'[r] = "rows" => rdr'[r].val >= at[rdr'[r].cur][rdr'[r].role]
  PROVE  CoherenceInv'
  <1>1. \A e \in Cached' : Coherent(e)
    BY DEF CoherenceInv, CacheCoherent, Coherent, Cached
  <1>2. epoch \in Nat /\ NoRead.cur = 0
    BY DEF TypeOK, StoreTypes, NoRead
  <1>3. \A q \in Readers : rdr'[q].cur <= epoch
    BY <1>2 DEF CoherenceInv, EpochsBounded
  <1>4. \A q \in Readers : rpc'[q] = "rows" => rdr'[q].val >= at[rdr'[q].cur][rdr'[q].role]
    BY DEF CoherenceInv, RowsFresh
  <1>5. \A w \in Writers : wtr'[w].num <= epoch
    BY DEF CoherenceInv, EpochsBounded
  <1> QED  BY <1>1, <1>3, <1>4, <1>5, CoherenceFrame

LEMMA ReadCoherence ==
  ASSUME TypeOK, CoherenceInv, NEW r \in Readers, NEW p \in Replicas, NEW k \in Roles,
         GetPermissionsForRole(r, p, k)
  PROVE  CoherenceInv'
  <1>1. /\ rpc'[r] = "epoch" /\ rdr'[r].cur = epoch /\ local' = local
        /\ \A q \in Readers : q # r => rpc'[q] = rpc[q] /\ rdr'[q] = rdr[q]
    BY DEF GetPermissionsForRole, ReaderTo, TypeOK, CallTypes, NoRead
  <1>2. epoch \in Nat /\ \A q \in Replicas : local'[q] <= epoch
    BY <1>1 DEF TypeOK, StoreTypes, CoherenceInv, EpochsBounded
  <1>3. UNCHANGED <<version, epoch, l1, l2, sets, at, wtr>>
    BY DEF GetPermissionsForRole, ReaderTo, cacheVars
  <1> QED  BY <1>1, <1>2, <1>3, ReaderCoherence

LEMMA GetGlobalEpochCoherence ==
  ASSUME TypeOK, CoherenceInv, NEW r \in Readers, GetGlobalEpoch(r)
  PROVE  CoherenceInv'
  <1> DEFINE p == rdr[r].replica
  <1>1. p \in Replicas
    BY DEF TypeOK, CallTypes, Reader
  <1>2. \/ rdr' = [rdr EXCEPT ![r].cur = local[p]] /\ local' = local
        \/ local' = [local EXCEPT ![p] = rdr[r].cur] /\ rdr' = rdr
    BY DEF GetGlobalEpoch
  <1>3. local[p] <= epoch /\ rdr[r].cur <= epoch
    BY <1>1 DEF CoherenceInv, EpochsBounded
  <1>4. rdr'[r].cur <= epoch /\ \A q \in Readers : q # r => rdr'[q] = rdr[q]
    BY <1>2, <1>3 DEF TypeOK, CallTypes, Reader
  <1>5. \A q \in Replicas : local'[q] <= epoch
    BY <1>1, <1>2, <1>3 DEF CoherenceInv, EpochsBounded, TypeOK, CallTypes
  <1>6. rpc'[r] = "cache" /\ \A q \in Readers : q # r => rpc'[q] = rpc[q]
    BY DEF GetGlobalEpoch, ReaderTo, TypeOK, CallTypes
  <1>7. UNCHANGED <<version, epoch, l1, l2, sets, at, wtr>>
    BY DEF GetGlobalEpoch, ReaderTo, cacheVars
  <1> QED  BY <1>4, <1>5, <1>6, <1>7, ReaderCoherence

\* What the steps between the epoch and the rows leave as it is.
LEMMA LookupCoherence ==
  ASSUME TypeOK, CoherenceInv, NEW r \in Readers, CacheMiss(r) \/ Join(r) \/ Fetch(r)
  PROVE  CoherenceInv'
  <1>1. /\ rpc'[r] \in {"missed", "joined", "query"} /\ local' = local
        /\ \A q \in Readers : q # r => rpc'[q] = rpc[q] /\ rdr'[q] = rdr[q]
        /\ UNCHANGED <<version, epoch, l1, l2, sets, at, wtr>>
    BY DEF CacheMiss, Join, Fetch, ReaderTo, cacheVars, TypeOK, CallTypes
  <1>2. rdr'[r].cur = rdr[r].cur
    BY DEF CacheMiss, Join, Fetch, ReaderTo, TypeOK, CallTypes, Reader
  <1>3. rdr'[r].cur <= epoch /\ \A p \in Replicas : local'[p] <= epoch
    BY <1>1, <1>2 DEF CoherenceInv, EpochsBounded
  <1> QED  BY <1>1, <1>3, ReaderCoherence

LEMMA QueryCoherence ==
  ASSUME TypeOK, CoherenceInv, NEW r \in Readers, FetchPermissionStringsForRole(r)
  PROVE  CoherenceInv'
  <1>1. rdr[r].role \in Roles /\ rdr[r].cur \in Epochs /\ rdr[r].cur <= epoch
    <2>1. rdr[r].role \in Roles /\ rdr[r].cur \in LocalEpochs /\ epoch \in Epochs
      BY DEF TypeOK, CallTypes, StoreTypes, Reader
    <2>2. rdr[r].cur <= epoch
      BY DEF CoherenceInv, EpochsBounded
    <2> QED  BY <2>1, <2>2
  <1>2. /\ rdr'[r].cur = rdr[r].cur /\ rdr'[r].role = rdr[r].role
        /\ rdr'[r].val = version[rdr[r].role]
    BY DEF FetchPermissionStringsForRole, TypeOK, CallTypes, Reader
  <1>3. rdr'[r].val >= at[rdr'[r].cur][rdr'[r].role]
    BY <1>1, <1>2 DEF CoherenceInv, EpochsGrow, TypeOK, StoreTypes
  <1>4. /\ \A q \in Readers : q # r => rpc'[q] = rpc[q] /\ rdr'[q] = rdr[q]
        /\ UNCHANGED <<version, epoch, l1, l2, sets, at, wtr, local>>
    BY DEF FetchPermissionStringsForRole, ReaderTo, cacheVars, TypeOK, CallTypes
  <1>5. rdr'[r].cur <= epoch /\ \A p \in Replicas : local'[p] <= epoch
    BY <1>1, <1>2, <1>4 DEF CoherenceInv, EpochsBounded
  <1> QED  BY <1>3, <1>4, <1>5, ReaderCoherence

LEMMA SettleMoves ==
  ASSUME TypeOK, NEW r \in Readers, NEW outcome \in {"idle", "failed"}, Settle(r, outcome)
  PROVE  /\ \A q \in Readers : \/ q \notin Holders(r) /\ rpc'[q] = rpc[q] /\ rdr'[q] = rdr[q]
                               \/ q \in Holders(r) /\ rpc'[q] = outcome /\ rdr'[q] = NoRead
         /\ r \in Holders(r) /\ wpc' = wpc /\ wtr' = wtr
  <1>1. \A q \in Readers : q \in Holders(r) => rpc'[q] = outcome /\ rdr'[q] = NoRead
    BY DEF Settle
  <1>2. \A q \in Readers : q \notin Holders(r) => rpc'[q] = rpc[q] /\ rdr'[q] = rdr[q]
    BY DEF Settle
  <1>3. r \in Holders(r)
    BY DEF Holders
  <1> QED  BY <1>1, <1>2, <1>3 DEF Settle

LEMMA SettleCoherence ==
  ASSUME TypeOK, CoherenceInv, NEW r \in Readers, NEW outcome \in {"idle", "failed"},
         Settle(r, outcome), UNCHANGED <<version, epoch, cacheVars, local, at>>
  PROVE  CoherenceInv'
  <1>1. epoch \in Nat /\ NoRead.cur = 0
    BY DEF TypeOK, StoreTypes, NoRead
  <1>2. \A q \in Readers \ {r} : \/ rpc'[q] = rpc[q] /\ rdr'[q] = rdr[q]
                                 \/ rpc'[q] # "rows" /\ rdr'[q] = NoRead
    BY SettleMoves
  <1>3. rpc'[r] # "rows" /\ rdr'[r] = NoRead /\ wtr' = wtr
    BY SettleMoves
  <1>4. rdr'[r].cur <= epoch /\ \A p \in Replicas : local'[p] <= epoch
    BY <1>1, <1>3 DEF CoherenceInv, EpochsBounded
  <1> QED  BY <1>2, <1>3, <1>4, ReaderCoherence DEF cacheVars

LEMMA FetchDoneCoherence ==
  ASSUME TypeOK, CoherenceInv, NEW r \in Readers, FetchDone(r)
  PROVE  CoherenceInv'
  <1> DEFINE p == rdr[r].replica
             e == [role |-> rdr[r].role, tag |-> EpochOfCall(r), val |-> rdr[r].val]
  <1>1. Coherent(e)
    BY DEF FetchDone, CoherenceInv, RowsFresh, EpochsBounded, EpochOfCall, Coherent
  <1>2. \A q \in Replicas : l1'[q] \subseteq l1[q] \union {e} /\ sets'[q] \subseteq sets[q] \union {e}
    <2>1. \/ l1' = [l1 EXCEPT ![p] = Put(l1[p], e)] /\ sets' = [sets EXCEPT ![p] = sets[p] \union {e}]
          \/ l1' = l1 /\ sets' = sets
      BY DEF FetchDone
    <2>2. Put(l1[p], e) \subseteq l1[p] \union {e}
      BY DEF Put
    <2> HIDE DEF p, e
    <2> QED  BY <2>1, <2>2 DEF TypeOK, StoreTypes
  <1>3. Cached' \subseteq Cached \union {e}
    BY <1>2 DEF FetchDone, Cached
  <1>4. \A d \in Cached' : Coherent(d)
    BY <1>1, <1>3 DEF CoherenceInv, CacheCoherent, Coherent
  <1>5. epoch \in Nat /\ NoRead.cur = 0
    BY DEF TypeOK, StoreTypes, NoRead
  <1>6. \A q \in Readers : \/ rpc'[q] = rpc[q] /\ rdr'[q] = rdr[q]
                           \/ rpc'[q] = "idle" /\ rdr'[q] = NoRead
    BY SettleMoves DEF FetchDone
  <1>7. \A q \in Readers : rdr'[q].cur <= epoch
    BY <1>5, <1>6 DEF CoherenceInv, EpochsBounded
  <1>8. \A q \in Readers : rpc'[q] = "rows" => rdr'[q].val >= at[rdr'[q].cur][rdr'[q].role]
    BY <1>6 DEF CoherenceInv, RowsFresh
  <1>9. UNCHANGED <<version, epoch, local, at, wtr>>
    BY DEF FetchDone, Settle
  <1> QED  BY <1>4, <1>7, <1>8, <1>9, CoherenceFrame DEF CoherenceInv, EpochsBounded

\* An entry moves from one place to another, or is lost.
LEMMA CachesCoherence ==
  ASSUME TypeOK, CoherenceInv, Cached' \subseteq Cached,
         UNCHANGED <<version, epoch, local, callVars, at>>
  PROVE  CoherenceInv'
  <1>1. \A e \in Cached' : Coherent(e)
    BY DEF CoherenceInv, CacheCoherent, Coherent
  <1> QED  BY <1>1, CoherenceFrame DEF callVars, CoherenceInv, EpochsBounded, RowsFresh

LEMMA SetArrivesCoherence ==
  ASSUME TypeOK, CoherenceInv, NEW p \in Replicas, NEW e \in sets[p], SetArrives(p, e)
  PROVE  CoherenceInv'
  <1>1. l2' \subseteq l2 \union {e}
    BY DEF SetArrives, Put, OfRole
  <1>2. \A q \in Replicas : l1'[q] = l1[q] /\ sets'[q] \subseteq sets[q]
    BY DEF SetArrives, TypeOK, StoreTypes
  <1>3. Cached' \subseteq Cached
    BY <1>1, <1>2 DEF Cached
  <1> QED  BY <1>3, CachesCoherence DEF SetArrives

LEMMA ExpireCoherence ==
  ASSUME TypeOK, CoherenceInv, NEW e, Expire(e)
  PROVE  CoherenceInv'
  <1>1. l2' \subseteq l2 /\ \A q \in Replicas : l1'[q] \subseteq l1[q] /\ sets'[q] = sets[q]
    BY DEF Expire, TypeOK, StoreTypes
  <1>2. Cached' \subseteq Cached
    BY <1>1 DEF Cached
  <1> QED  BY <1>2, CachesCoherence DEF Expire

\* A commit, by a writer that owes an INCR now.
LEMMA CommitCoherence ==
  ASSUME TypeOK, CoherenceInv, NEW w \in Writers, NEW S \in SUBSET Roles, Touch(S),
         UNCHANGED <<epoch, cacheVars, local, rpc, rdr, at>>,
         \A v \in Writers : wtr'[v].num <= epoch
  PROVE  CoherenceInv'
  <1>1. \A k \in Roles : version[k] \in Nat /\ version'[k] \in Nat /\ version[k] <= version'[k]
    <2>1. version' = [k \in Roles |-> IF k \in S THEN version[k] + 1 ELSE version[k]]
      BY DEF Touch
    <2>2. \A k \in Roles : version[k] \in Nat
      BY DEF TypeOK, StoreTypes
    <2> QED  BY <2>1, <2>2
  <1>2. \A n \in Epochs, k \in Roles : at[n][k] \in Nat
    BY DEF TypeOK, StoreTypes
  <1>3. EpochsGrow'
    BY <1>1, <1>2 DEF CoherenceInv, EpochsGrow
  <1>4. EpochsBounded'
    BY DEF CoherenceInv, EpochsBounded
  <1>5. RowsFresh'
    BY DEF CoherenceInv, RowsFresh
  <1>6. CacheCoherent'
    BY DEF CoherenceInv, CacheCoherent, Cached, cacheVars
  <1> QED  BY <1>3, <1>4, <1>5, <1>6 DEF CoherenceInv

LEMMA MutateCoherence ==
  ASSUME TypeOK, CoherenceInv, NEW w \in Writers, NEW p \in Replicas, NEW S \in SUBSET Roles,
         Mutate(w, p, S)
  PROVE  CoherenceInv'
  <1>1. epoch \in Nat /\ Work(p, S).num = 0
    BY DEF Work, TypeOK, StoreTypes
  <1>2. \A v \in Writers : wtr'[v].num <= epoch
    BY <1>1 DEF Mutate, WriterTo, TypeOK, CallTypes, CoherenceInv, EpochsBounded
  <1> QED  BY <1>2, CommitCoherence DEF Mutate, WriterTo

LEMMA IncrementCoherence ==
  ASSUME TypeOK, CoherenceInv, NEW w \in Writers, IncrementRbacGlobalEpoch(w)
  PROVE  CoherenceInv'
  <1>1. epoch \in Epochs /\ epoch' = epoch + 1 /\ epoch' \in Epochs /\ version' = version
    BY DEF IncrementRbacGlobalEpoch, TypeOK, StoreTypes
  <1>2. at'[epoch'] = version /\ \A n \in Epochs : n # epoch' => at'[n] = at[n]
    BY <1>1 DEF IncrementRbacGlobalEpoch, TypeOK, StoreTypes
  <1>3. /\ \A n \in Epochs, k \in Roles : at[n][k] \in Nat
        /\ \A k \in Roles : version[k] \in Nat
    BY DEF TypeOK, StoreTypes
  <1>4. EpochsGrow'
    BY <1>1, <1>2, <1>3 DEF CoherenceInv, EpochsGrow
  <1>5. \A v \in Writers : wtr'[v].num <= epoch'
    BY <1>1 DEF IncrementRbacGlobalEpoch, WriterTo, TypeOK, CallTypes, Writer, CoherenceInv,
                EpochsBounded
  <1>6. EpochsBounded'
    BY <1>1, <1>5 DEF IncrementRbacGlobalEpoch, WriterTo, TypeOK, CallTypes, Reader,
                      CoherenceInv, EpochsBounded
  <1>7. \A r \in Readers : rdr[r].cur \in Epochs /\ rdr[r].cur # epoch'
    BY <1>1 DEF TypeOK, CallTypes, Reader, CoherenceInv, EpochsBounded
  <1>8. RowsFresh'
    BY <1>2, <1>7 DEF IncrementRbacGlobalEpoch, WriterTo, CoherenceInv, RowsFresh
  <1>9. ASSUME NEW e \in Cached  PROVE e.tag \in Epochs /\ e.tag # epoch'
    <2>1. e \in Entry
      BY DEF TypeOK, StoreTypes, IsTier, Cached
    <2>2. e.tag \in LocalEpochs /\ e.tag <= epoch
      BY <2>1 DEF Entry, CoherenceInv, CacheCoherent
    <2> QED  BY <1>1, <2>2
  <1>10. Cached' = Cached
    BY DEF IncrementRbacGlobalEpoch, cacheVars, Cached
  <1>11. CacheCoherent'
    BY <1>1, <1>2, <1>9, <1>10 DEF CoherenceInv, CacheCoherent
  <1> QED  BY <1>4, <1>6, <1>8, <1>11 DEF CoherenceInv

LEMMA BumpCoherence ==
  ASSUME TypeOK, CoherenceInv, "incr" \notin Faults, NEW w \in Writers, BumpGlobalEpoch(w)
  PROVE  CoherenceInv'
  <1>1. wtr[w].replica \in Replicas /\ wtr[w].num <= epoch
    BY DEF TypeOK, CallTypes, Writer, CoherenceInv, EpochsBounded
  <1>2. \A p \in Replicas : local'[p] <= epoch
    BY <1>1 DEF BumpGlobalEpoch, EpochTaken, TypeOK, CallTypes, CoherenceInv, EpochsBounded
  <1>3. \A v \in Writers : wtr'[v].num <= epoch
    BY DEF BumpGlobalEpoch, WriterTo, TypeOK, CallTypes, CoherenceInv, EpochsBounded
  <1>4. UNCHANGED <<version, epoch, cacheVars, at, rpc, rdr>>
    BY DEF BumpGlobalEpoch, WriterTo
  <1>5. \A e \in Cached' : Coherent(e)
    BY <1>4 DEF CoherenceInv, CacheCoherent, Coherent, Cached, cacheVars
  <1> QED  BY <1>2, <1>3, <1>4, <1>5, CoherenceFrame DEF CoherenceInv, EpochsBounded, RowsFresh

LEMMA ClearCoherence ==
  ASSUME TypeOK, CoherenceInv, NEW w \in Writers, ClearRoleCacheKey(w)
  PROVE  CoherenceInv'
  <1>1. epoch \in Nat /\ NoWrite.num = 0
    BY DEF NoWrite, TypeOK, StoreTypes
  <1>2. \A v \in Writers : wtr'[v].num <= epoch
    BY <1>1 DEF ClearRoleCacheKey, WriterTo, TypeOK, CallTypes, CoherenceInv, EpochsBounded
  <1>3. UNCHANGED <<version, epoch, cacheVars, local, at, rpc, rdr>>
    BY DEF ClearRoleCacheKey, WriterTo
  <1>4. \A e \in Cached' : Coherent(e)
    BY <1>3 DEF CoherenceInv, CacheCoherent, Coherent, Cached, cacheVars
  <1> QED  BY <1>2, <1>3, <1>4, CoherenceFrame DEF CoherenceInv, EpochsBounded, RowsFresh

LEMMA RestartCoherence ==
  ASSUME TypeOK, CoherenceInv, NEW p \in Replicas, Restart(p)
  PROVE  CoherenceInv'
  <1>1. epoch \in Nat /\ NoRead.cur = 0 /\ NoWrite.num = 0
    BY DEF NoRead, NoWrite, TypeOK, StoreTypes
  <1>2. \A q \in Replicas : local'[q] <= epoch
    BY <1>1 DEF Restart, TypeOK, CallTypes, CoherenceInv, EpochsBounded
  <1>3. \A q \in Replicas : l1'[q] \subseteq l1[q] /\ sets'[q] \subseteq sets[q]
    BY DEF Restart, TypeOK, StoreTypes
  <1>4. Cached' \subseteq Cached
    BY <1>3 DEF Restart, Cached
  <1>5. \A r \in Readers : \/ rpc'[r] = rpc[r] /\ rdr'[r] = rdr[r]
                           \/ rpc'[r] = "failed" /\ rdr'[r] = NoRead
    <2> SUFFICES ASSUME NEW r \in Readers
                 PROVE  \/ rpc'[r] = rpc[r] /\ rdr'[r] = rdr[r]
                        \/ rpc'[r] = "failed" /\ rdr'[r] = NoRead
      OBVIOUS
    <2>1. CASE DiesWith(p, r)
      BY <2>1 DEF Restart
    <2>2. CASE ~DiesWith(p, r)
      BY <2>2 DEF Restart
    <2> QED  BY <2>1, <2>2
  <1>6. \A w \in Writers : wtr'[w] = wtr[w] \/ wtr'[w] = NoWrite
    BY DEF Restart
  <1>7. \A e \in Cached' : Coherent(e)
    BY <1>4 DEF CoherenceInv, CacheCoherent, Coherent
  <1>8. /\ \A r \in Readers : rdr'[r].cur <= epoch
        /\ \A w \in Writers : wtr'[w].num <= epoch
    BY <1>1, <1>5, <1>6 DEF CoherenceInv, EpochsBounded
  <1>9. \A r \in Readers : rpc'[r] = "rows" => rdr'[r].val >= at[rdr'[r].cur][rdr'[r].role]
    BY <1>5 DEF CoherenceInv, RowsFresh
  <1> QED  BY <1>2, <1>7, <1>8, <1>9, CoherenceFrame DEF Restart

LEMMA ReaderStepCoherence ==
  ASSUME TypeOK, CoherenceInv, NEW r \in Readers, ReaderStep(r)
  PROVE  CoherenceInv'
  <1>1. CASE GetGlobalEpoch(r)
    BY <1>1, GetGlobalEpochCoherence
  <1>2. CASE CacheHit(r)
    BY <1>2, SettleCoherence DEF CacheHit
  <1>3. CASE CacheMiss(r) \/ Join(r) \/ Fetch(r)
    BY <1>3, LookupCoherence
  <1>4. CASE FetchPermissionStringsForRole(r)
    BY <1>4, QueryCoherence
  <1>5. CASE FetchDone(r)
    BY <1>5, FetchDoneCoherence
  <1>6. CASE FetchFails(r)
    BY <1>6, SettleCoherence DEF FetchFails
  <1> QED  BY <1>1, <1>2, <1>3, <1>4, <1>5, <1>6 DEF ReaderStep

LEMMA NextCoherence ==
  ASSUME TypeOK, CoherenceInv, "incr" \notin Faults, [Next]_vars
  PROVE  CoherenceInv'
  <1>1. CASE Read
    BY <1>1, ReaderStepCoherence, ReadCoherence DEF Read
  <1>2. CASE CacheStep
    BY <1>2, RestartCoherence, SetArrivesCoherence, ExpireCoherence DEF CacheStep
  <1>3. ASSUME NEW w \in Writers, Invalidate(w)  PROVE CoherenceInv'
    BY <1>3, IncrementCoherence, BumpCoherence, ClearCoherence DEF Invalidate
  <1>4. ASSUME NEW w \in Writers, NEW p \in Replicas,
               NEW S \in {{k} : k \in Roles} \union {Roles}, Mutate(w, p, S)
        PROVE  CoherenceInv'
    <2>1. S \in SUBSET Roles
      OBVIOUS
    <2> QED  BY <1>4, <2>1, MutateCoherence
  <1>5. CASE UNCHANGED vars
    <2>1. Cached' = Cached
      BY <1>5 DEF vars, cacheVars, Cached
    <2> QED  BY <1>5, <2>1 DEF vars, cacheVars, callVars, CoherenceInv, EpochsBounded,
                               EpochsGrow, RowsFresh, CacheCoherent
  <1> QED  BY <1>1, <1>2, <1>3, <1>4, <1>5 DEF Next

\* The tag of an entry never promises more than the entry holds, whatever is late,
\* lost, expired or restarted; an INCR that is rejected is the one exception.
THEOREM CacheIsCoherent ==
  ASSUME "incr" \notin Faults
  PROVE  Spec => []CacheCoherent
  <1>1. Init => TypeOK /\ CoherenceInv
    BY InitTypes, InitCoherence
  <1>2. TypeOK /\ CoherenceInv /\ [Next]_vars => (TypeOK /\ CoherenceInv)'
    BY NextTypes, NextCoherence
  <1>3. CoherenceInv => CacheCoherent
    BY DEF CoherenceInv
  <1> QED  BY <1>1, <1>2, <1>3, PTL DEF Spec
-----------------------------------------------------------------------------
(* 3. What a replica owes to its own answers.                               *)

FreshInv == LocalInv /\ SeenInv /\ PendingInv /\ JoinedInv

LEMMA InitFresh ==
  ASSUME Init
  PROVE  FreshInv
  BY DEF Init, FreshInv, LocalInv, SeenInv, PendingInv, JoinedInv, NoVersions

LEMMA LocalTypes ==
  ASSUME TypeOK
  PROVE  /\ epoch \in Nat
         /\ \A p \in Replicas : local[p] \in Nat
         /\ \A r \in Readers : rdr[r].cur \in Nat /\ rdr[r].replica \in Replicas /\ rdr[r].role \in Roles
         /\ \A w \in Writers : wtr[w].num \in Nat /\ wtr[w].replica \in Replicas
         /\ \A p \in Observed, k \in Roles : acked[p][k] \in Epochs
         /\ \A r \in Readers, p \in Observed : rdr[r].seen[p] \in Epochs
  <1>1. epoch \in Nat /\ \A p \in Replicas : local[p] \in Nat
    BY DEF TypeOK, StoreTypes, CallTypes
  <1>2. \A r \in Readers : rdr[r] \in Reader
    BY DEF TypeOK, CallTypes
  <1>3. \A r \in Readers : rdr[r].cur \in Nat /\ rdr[r].replica \in Replicas /\ rdr[r].role \in Roles
    BY <1>2 DEF Reader
  <1>4. \A r \in Readers : rdr[r].seen \in [Observed -> Epochs]
    BY <1>2 DEF Reader
  <1>5. \A w \in Writers : wtr[w].num \in Nat /\ wtr[w].replica \in Replicas
    BY DEF TypeOK, CallTypes, Writer
  <1>6. \A p \in Observed, k \in Roles : acked[p][k] \in Epochs
    BY DEF TypeOK, StoreTypes
  <1> QED  BY <1>1, <1>3, <1>4, <1>5, <1>6

LEMMA VersionTypes ==
  ASSUME TypeOK
  PROVE  \A n \in Epochs, k \in Roles : at[n][k] \in Nat
  <1>1. \A n \in Epochs : at[n] \in [Roles -> Versions]
    BY DEF TypeOK, StoreTypes
  <1>2. \A n \in Epochs, k \in Roles : at[n][k] \in Versions
    BY <1>1
  <1>3. Versions \subseteq Nat
    OBVIOUS
  <1> QED  BY <1>2, <1>3

LEMMA LookupTypes ==
  ASSUME TypeOK, NEW p \in Replicas, NEW k \in Roles, NEW e \in Lookup(p, k)
  PROVE  e \in Cached /\ e \in Entry /\ e.role = k
  <1>1. l2 \subseteq Entry /\ l1[p] \subseteq Entry
    BY DEF TypeOK, StoreTypes, IsTier
  <1>2. e \in l1[p] \union l2 /\ e.role = k
    BY DEF Lookup, OfRole
  <1> QED  BY <1>1, <1>2 DEF Cached

\* Steps that no call of getPermissionsForRole takes part in.
LEMMA ReadersRest ==
  ASSUME FreshInv, UNCHANGED <<rpc, rdr, pending, at, acked>>
  PROVE  SeenInv' /\ PendingInv' /\ JoinedInv'
  BY DEF FreshInv, SeenInv, PendingInv, JoinedInv, Fetching

\* A step of a call that fetches nothing and does not join.
LEMMA QuietReader ==
  ASSUME TypeOK, FreshInv, NEW r \in Readers,
         rpc[r] \notin {"query", "rows"}, rpc'[r] # "joined",
         \A q \in Readers \ {r} : rpc'[q] = rpc[q] /\ rdr'[q] = rdr[q],
         UNCHANGED <<pending, at, acked>>
  PROVE  PendingInv' /\ JoinedInv'
  <1>1. PendingInv'
    BY DEF FreshInv, PendingInv, Fetching
  <1>2. JoinedInv'
    BY DEF FreshInv, JoinedInv, Fetching
  <1> QED  BY <1>1, <1>2

LEMMA ReadFresh ==
  ASSUME TypeOK, CoherenceInv, FreshInv, NEW r \in Readers, NEW p \in Replicas, NEW k \in Roles,
         GetPermissionsForRole(r, p, k)
  PROVE  FreshInv'
  <1>1. /\ rpc[r] \in {"idle", "failed"} /\ rpc'[r] = "epoch"
        /\ \A q \in Readers \ {r} : rpc'[q] = rpc[q] /\ rdr'[q] = rdr[q]
        /\ UNCHANGED <<local, pending, at, acked, wpc, wtr>>
    BY DEF GetPermissionsForRole, ReaderTo, TypeOK, CallTypes
  <1>2. /\ rdr'[r].cur = epoch /\ rdr'[r].replica = p /\ rdr'[r].role = k
        /\ rdr'[r].seen = [q \in Observed |-> acked[q][k]]
    BY DEF GetPermissionsForRole, TypeOK, CallTypes, NoRead
  <1>3. local[p] <= epoch
    BY DEF CoherenceInv, EpochsBounded
  <1>4. LocalInv'
    BY <1>1, <1>2, <1>3 DEF FreshInv, LocalInv
  <1>5. SeenInv'
    BY <1>1, <1>2, LocalTypes DEF FreshInv, SeenInv
  <1>6. PendingInv' /\ JoinedInv'
    BY <1>1, QuietReader
  <1> QED  BY <1>4, <1>5, <1>6 DEF FreshInv

LEMMA GetGlobalEpochFresh ==
  ASSUME TypeOK, CoherenceInv, FreshInv, NEW r \in Readers, GetGlobalEpoch(r)
  PROVE  FreshInv'
  <1> DEFINE p == rdr[r].replica
  <1>1. /\ rpc[r] = "epoch" /\ rpc'[r] = "cache"
        /\ \A q \in Readers \ {r} : rpc'[q] = rpc[q]
        /\ UNCHANGED <<pending, at, acked, wpc, wtr>>
    BY DEF GetGlobalEpoch, ReaderTo, TypeOK, CallTypes
  <1>2. p \in Replicas /\ local[p] <= rdr[r].cur
    BY <1>1, LocalTypes DEF FreshInv, LocalInv
  <1>3. \/ rdr' = [rdr EXCEPT ![r].cur = local[p]] /\ local' = local
        \/ InOrder(p, rdr[r].cur) /\ local' = [local EXCEPT ![p] = rdr[r].cur] /\ rdr' = rdr
    BY DEF GetGlobalEpoch
  <1>4. /\ rdr'[r].replica = p /\ rdr'[r].role = rdr[r].role /\ rdr'[r].seen = rdr[r].seen
        /\ rdr'[r].cur >= local[p]
        /\ \A q \in Readers \ {r} : rdr'[q] = rdr[q]
    BY <1>2, <1>3, LocalTypes DEF TypeOK, CallTypes, Reader
  <1>5. /\ \A q \in Replicas : local'[q] >= local[q] /\ (q # p => local'[q] = local[q])
        /\ local'[p] = local[p] \/ InOrder(p, local'[p])
    BY <1>2, <1>3, LocalTypes DEF TypeOK, CallTypes
  <1>6. LocalInv'
    <2>1. \A q \in Readers : rpc'[q] = "epoch" => local'[rdr'[q].replica] <= rdr'[q].cur
      BY <1>1, <1>4, <1>5, LocalTypes DEF InOrder, FreshInv, LocalInv
    <2>2. \A w \in Writers : wpc'[w] = "reply" => local'[wtr'[w].replica] <= wtr'[w].num
      BY <1>1, <1>5, LocalTypes DEF InOrder, FreshInv, LocalInv
    <2>3. ASSUME NEW w \in Writers, wpc'[w] = "clear"
          PROVE  wtr'[w].num <= local'[wtr'[w].replica]
      <3>1. /\ wtr[w].replica \in Replicas /\ wtr[w].num \in Nat
            /\ wtr[w].num <= local[wtr[w].replica] /\ wtr' = wtr
        BY <1>1, <2>3, LocalTypes DEF FreshInv, LocalInv
      <3>2. local[wtr[w].replica] \in Nat /\ local'[wtr[w].replica] \in Nat
        BY <1>2, <1>3, <3>1, LocalTypes DEF TypeOK, CallTypes
      <3> QED  BY <1>5, <3>1, <3>2
    <2>4. ASSUME NEW q \in Observed, NEW k \in Roles  PROVE acked'[q][k] <= local'[q]
      <3>1. q \in Replicas /\ acked' = acked /\ acked[q][k] \in Nat /\ acked[q][k] <= local[q]
        BY <1>1, LocalTypes DEF FreshInv, LocalInv
      <3>2. local[q] \in Nat /\ local'[q] \in Nat
        BY <1>2, <1>3, <3>1, LocalTypes DEF TypeOK, CallTypes
      <3> QED  BY <1>5, <3>1, <3>2
    <2> QED  BY <2>1, <2>2, <2>3, <2>4 DEF LocalInv
  <1>7. p \in Observed => rdr'[r].seen[p] <= acked[p][rdr[r].role] /\ rdr'[r].seen[p] <= rdr'[r].cur
    <2> SUFFICES ASSUME p \in Observed
                 PROVE  rdr'[r].seen[p] <= acked[p][rdr[r].role] /\ rdr'[r].seen[p] <= rdr'[r].cur
      OBVIOUS
    <2>1. rdr[r].seen[p] <= acked[p][rdr[r].role] /\ acked[p][rdr[r].role] <= local[p]
      BY <1>1, LocalTypes DEF FreshInv, SeenInv, LocalInv
    <2>2. /\ rdr[r].seen[p] \in Nat /\ acked[p][rdr[r].role] \in Nat /\ local[p] \in Nat
          /\ rdr'[r].cur \in Nat
      BY <1>2, <1>3, LocalTypes DEF TypeOK, CallTypes, Reader
    <2> QED  BY <1>4, <2>1, <2>2
  <1>8. SeenInv'
    BY <1>1, <1>4, <1>7 DEF FreshInv, SeenInv
  <1>9. /\ pending' = pending /\ JoinedInv' /\ PendingInv'
    <2>1. PendingInv'
      BY <1>1, <1>4 DEF FreshInv, PendingInv, Fetching
    <2>2. JoinedInv'
      BY <1>1, <1>4 DEF FreshInv, JoinedInv, Fetching
    <2> QED  BY <1>1, <2>1, <2>2
  <1> QED  BY <1>6, <1>8, <1>9 DEF FreshInv

LEMMA CacheHitFresh ==
  ASSUME TypeOK, CoherenceInv, FreshInv, NEW r \in Readers, CacheHit(r)
  PROVE  FreshInv'
  <1>1. rpc[r] = "cache" /\ Settle(r, "idle") /\ UNCHANGED <<local, pending, at, acked>>
    BY DEF CacheHit
  <1>2. Holders(r) = {r}
    BY <1>1 DEF Holders, FreshInv, JoinedInv, Fetching
  <1>3. /\ rpc'[r] = "idle" /\ wpc' = wpc /\ wtr' = wtr
        /\ \A q \in Readers \ {r} : rpc'[q] = rpc[q] /\ rdr'[q] = rdr[q]
    BY <1>1, <1>2 DEF Settle
  <1>4. LocalInv'
    BY <1>1, <1>3 DEF FreshInv, LocalInv
  <1>5. SeenInv'
    BY <1>1, <1>3 DEF FreshInv, SeenInv
  <1>6. PendingInv' /\ JoinedInv'
    BY <1>1, <1>3, QuietReader
  <1> QED  BY <1>4, <1>5, <1>6 DEF FreshInv

LEMMA CacheMissFresh ==
  ASSUME TypeOK, FreshInv, NEW r \in Readers, CacheMiss(r)
  PROVE  FreshInv'
  <1>1. /\ rpc[r] = "cache" /\ rpc'[r] = "missed" /\ rdr' = rdr
        /\ \A q \in Readers \ {r} : rpc'[q] = rpc[q]
        /\ UNCHANGED <<local, pending, at, acked, wpc, wtr>>
    BY DEF CacheMiss, ReaderTo, TypeOK, CallTypes
  <1>2. LocalInv'
    BY <1>1 DEF FreshInv, LocalInv
  <1>3. SeenInv'
    BY <1>1 DEF FreshInv, SeenInv
  <1>4. PendingInv' /\ JoinedInv'
    BY <1>1, QuietReader
  <1> QED  BY <1>2, <1>3, <1>4 DEF FreshInv

\* Who joins a fetch relies on what pendingRequests promised.
LEMMA JoinFresh ==
  ASSUME TypeOK, CoherenceInv, FreshInv, NEW r \in Readers, Join(r)
  PROVE  FreshInv'
  <1> DEFINE p == rdr[r].replica
             k == rdr[r].role
             f == pending[p][k]
  <1>1. /\ rpc[r] = "missed" /\ rpc'[r] = "joined" /\ f # NoReader
        /\ \A q \in Readers \ {r} : rpc'[q] = rpc[q] /\ rdr'[q] = rdr[q]
        /\ UNCHANGED <<local, pending, at, acked, wpc, wtr>>
    BY DEF Join, PendingOf, ReaderTo, TypeOK, CallTypes
  <1>2. /\ rdr'[r].on = f /\ rdr'[r].replica = p /\ rdr'[r].role = k
        /\ rdr'[r].seen = rdr[r].seen /\ rdr'[r].cur = rdr[r].cur
    BY DEF Join, PendingOf, TypeOK, CallTypes, Reader
  <1>3. p \in Replicas /\ k \in Roles
    BY LocalTypes
  <1>4. Fetching(f, p, k, IF p \in Observed THEN acked[p][k] ELSE 0)
    BY <1>1, <1>3 DEF FreshInv, PendingInv
  <1>5. p \in Observed => rdr[r].seen[p] <= acked[p][k] /\ acked[p][k] <= epoch
    BY <1>1, <1>3, LocalTypes DEF FreshInv, SeenInv, LocalInv, CoherenceInv, EpochsBounded
  <1>6. p \in Observed => at[rdr[r].seen[p]][k] <= at[acked[p][k]][k]
    BY <1>3, <1>5, LocalTypes DEF CoherenceInv, EpochsGrow
  <1>7. p \in Observed /\ rpc[f] = "rows" => rdr[f].val >= at[rdr[r].seen[p]][k]
    <2>1. p \in Observed => at[rdr[r].seen[p]][k] \in Nat /\ at[acked[p][k]][k] \in Nat
      BY <1>3, LocalTypes, VersionTypes
    <2>2. f \in Readers /\ rdr[f].val \in Nat
      BY <1>4 DEF Fetching, TypeOK, CallTypes, Reader
    <2>3. p \in Observed /\ rpc[f] = "rows" => rdr[f].val >= at[acked[p][k]][k]
      BY <1>4 DEF Fetching
    <2> QED  BY <1>6, <2>1, <2>2, <2>3
  <1>8. f \in Readers /\ f # r /\ rpc[f] \in {"query", "rows"}
    BY <1>1, <1>4 DEF Fetching
  <1>9. LocalInv'
    BY <1>1 DEF FreshInv, LocalInv
  <1>10. SeenInv'
    BY <1>1, <1>2 DEF FreshInv, SeenInv
  <1>11. PendingInv'
    BY <1>1 DEF FreshInv, PendingInv, Fetching
  <1>12. ASSUME NEW q \in Readers \ {r}, rpc'[q] = "joined"
         PROVE  Fetching(rdr[q].on, rdr[q].replica, rdr[q].role,
                         IF rdr[q].replica \in Observed THEN rdr[q].seen[rdr[q].replica] ELSE 0)'
    BY <1>1, <1>12 DEF FreshInv, JoinedInv, Fetching
  <1>13. Fetching(rdr[r].on, rdr[r].replica, rdr[r].role,
                  IF rdr[r].replica \in Observed THEN rdr[r].seen[rdr[r].replica] ELSE 0)'
    BY <1>1, <1>2, <1>4, <1>7, <1>8 DEF Fetching
  <1>14. JoinedInv'
    BY <1>12, <1>13 DEF JoinedInv
  <1> QED  BY <1>9, <1>10, <1>11, <1>14 DEF FreshInv

LEMMA FetchFresh ==
  ASSUME TypeOK, FreshInv, NEW r \in Readers, Fetch(r)
  PROVE  FreshInv'
  <1> DEFINE p == rdr[r].replica
             k == rdr[r].role
  <1>1. /\ rpc[r] = "missed" /\ rpc'[r] = "query"
        /\ \A q \in Readers \ {r} : rpc'[q] = rpc[q] /\ rdr'[q] = rdr[q]
        /\ UNCHANGED <<local, at, acked, wpc, wtr>>
    BY DEF Fetch, ReaderTo, TypeOK, CallTypes
  <1>2. /\ rdr'[r].replica = p /\ rdr'[r].role = k
        /\ rdr'[r].seen = rdr[r].seen /\ rdr'[r].cur = rdr[r].cur
    BY DEF Fetch, TypeOK, CallTypes, Reader
  <1>3. p \in Replicas /\ k \in Roles
    BY LocalTypes
  <1>4. \A q \in Replicas, j \in Roles :
          pending'[q][j] = IF q = p /\ j = k THEN r ELSE pending[q][j]
    BY <1>3 DEF Fetch, SetPending, TypeOK, CallTypes
  <1>5. LocalInv'
    BY <1>1 DEF FreshInv, LocalInv
  <1>6. SeenInv'
    BY <1>1, <1>2 DEF FreshInv, SeenInv
  <1>7. PendingInv'
    BY <1>1, <1>2, <1>4 DEF FreshInv, PendingInv, Fetching
  <1>8. JoinedInv'
    BY <1>1 DEF FreshInv, JoinedInv, Fetching
  <1> QED  BY <1>5, <1>6, <1>7, <1>8 DEF FreshInv

LEMMA QueryFresh ==
  ASSUME TypeOK, CoherenceInv, FreshInv, NEW r \in Readers, FetchPermissionStringsForRole(r)
  PROVE  FreshInv'
  <1>1. /\ rpc[r] = "query" /\ rpc'[r] = "rows"
        /\ \A q \in Readers \ {r} : rpc'[q] = rpc[q] /\ rdr'[q] = rdr[q]
        /\ UNCHANGED <<local, pending, at, acked, wpc, wtr>>
    BY DEF FetchPermissionStringsForRole, ReaderTo, TypeOK, CallTypes
  <1>2. /\ rdr'[r].replica = rdr[r].replica /\ rdr'[r].role = rdr[r].role
        /\ rdr'[r].seen = rdr[r].seen /\ rdr'[r].cur = rdr[r].cur
        /\ rdr'[r].val = version[rdr[r].role]
    BY DEF FetchPermissionStringsForRole, TypeOK, CallTypes, Reader
  <1>3. \A n \in Epochs : rdr'[r].val >= at[n][rdr[r].role]
    BY <1>2, LocalTypes DEF CoherenceInv, EpochsGrow, TypeOK, StoreTypes
  <1>4. LocalInv'
    BY <1>1 DEF FreshInv, LocalInv
  <1>5. SeenInv'
    BY <1>1, <1>2 DEF FreshInv, SeenInv
  <1>6. PendingInv'
    BY <1>1, <1>2, <1>3, LocalTypes DEF FreshInv, PendingInv, Fetching
  <1>7. JoinedInv'
    BY <1>1, <1>2, <1>3, LocalTypes DEF FreshInv, JoinedInv, Fetching
  <1> QED  BY <1>4, <1>5, <1>6, <1>7 DEF FreshInv

\* A fetch ends for everybody who holds its promise.
LEMMA FetchEndsFresh ==
  ASSUME TypeOK, FreshInv, NEW r \in Readers, FetchDone(r) \/ FetchFails(r)
  PROVE  FreshInv'
  <1> DEFINE p == rdr[r].replica
             k == rdr[r].role
  <1>1. PICK outcome \in {"idle", "failed"} : Settle(r, outcome)
    BY DEF FetchDone, FetchFails
  <1>2. /\ rpc[r] \in {"query", "rows"}
        /\ UNCHANGED <<local, at, acked>> /\ pending' = SetPending(r, NoReader)
    BY DEF FetchDone, FetchFails
  <1>3. /\ wpc' = wpc /\ wtr' = wtr
        /\ \A q \in Holders(r) \intersect Readers : rpc'[q] \in {"idle", "failed"}
        /\ \A q \in Readers \ Holders(r) : rpc'[q] = rpc[q] /\ rdr'[q] = rdr[q]
    BY <1>1, SettleMoves
  <1>4. \A q \in Readers : q \in Holders(r) <=> q = r \/ (rpc[q] = "joined" /\ rdr[q].on = r)
    BY DEF Holders
  <1>5. p \in Replicas /\ k \in Roles
    BY LocalTypes
  <1>6. \A q \in Replicas, j \in Roles :
          pending'[q][j] = IF q = p /\ j = k THEN NoReader ELSE pending[q][j]
    BY <1>2, <1>5 DEF SetPending, TypeOK, CallTypes
  <1>7. LocalInv'
    BY <1>2, <1>3 DEF FreshInv, LocalInv
  <1>8. SeenInv'
    BY <1>2, <1>3 DEF FreshInv, SeenInv
  <1>9. PendingInv'
    BY <1>2, <1>3, <1>4, <1>6 DEF FreshInv, PendingInv, Fetching
  <1>10. JoinedInv'
    BY <1>2, <1>3, <1>4 DEF FreshInv, JoinedInv, Fetching
  <1> QED  BY <1>7, <1>8, <1>9, <1>10 DEF FreshInv

LEMMA MutateFresh ==
  ASSUME TypeOK, FreshInv, NEW w \in Writers, NEW p \in Replicas, NEW S \in SUBSET Roles,
         Mutate(w, p, S)
  PROVE  FreshInv'
  <1>1. /\ wpc'[w] = "incr" /\ \A v \in Writers \ {w} : wpc'[v] = wpc[v] /\ wtr'[v] = wtr[v]
        /\ UNCHANGED <<rpc, rdr, local, pending, at, acked>>
    BY DEF Mutate, WriterTo, TypeOK, CallTypes
  <1>2. LocalInv'
    BY <1>1 DEF FreshInv, LocalInv
  <1> QED  BY <1>1, <1>2, ReadersRest DEF FreshInv

LEMMA IncrementFresh ==
  ASSUME TypeOK, CoherenceInv, FreshInv, NEW w \in Writers, IncrementRbacGlobalEpoch(w)
  PROVE  FreshInv'
  <1>1. /\ epoch' = epoch + 1 /\ epoch' \in Epochs
        /\ wpc'[w] = "reply" /\ wtr'[w].num = epoch' /\ wtr'[w].replica = wtr[w].replica
        /\ \A v \in Writers \ {w} : wpc'[v] = wpc[v] /\ wtr'[v] = wtr[v]
        /\ UNCHANGED <<rpc, rdr, local, pending, acked>>
    <2>1. /\ epoch' = epoch + 1 /\ epoch \in Nat /\ epoch < MaxEpoch /\ MaxEpoch \in Nat
          /\ UNCHANGED <<rpc, rdr, local, pending, acked>>
      BY CacheBoundsAssumption
         DEF IncrementRbacGlobalEpoch, WriterTo, TypeOK, StoreTypes, Epochs
    <2>2. /\ wpc' = [wpc EXCEPT ![w] = "reply"]
          /\ wtr' = [wtr EXCEPT ![w] = [wtr[w] EXCEPT !.num = epoch']]
      BY DEF IncrementRbacGlobalEpoch, WriterTo
    <2>3. wpc \in [Writers -> {"idle", "roles", "delete", "incr", "reply", "clear"}]
          /\ wtr \in [Writers -> Writer]
      BY DEF TypeOK, CallTypes
    <2>4. epoch' \in Epochs
      BY <2>1 DEF Epochs
    <2>5. /\ wpc'[w] = "reply" /\ wtr'[w].num = epoch' /\ wtr'[w].replica = wtr[w].replica
          /\ \A v \in Writers \ {w} : wpc'[v] = wpc[v] /\ wtr'[v] = wtr[v]
      BY <2>2, <2>3 DEF Writer
    <2> QED  BY <2>1, <2>4, <2>5
  <1>2. \A n \in Epochs : n <= epoch => at'[n] = at[n]
    BY <1>1, LocalTypes DEF IncrementRbacGlobalEpoch, TypeOK, StoreTypes
  <1>3. local[wtr[w].replica] <= epoch
    BY LocalTypes DEF CoherenceInv, EpochsBounded
  <1>4. LocalInv'
    BY <1>1, <1>3, LocalTypes DEF FreshInv, LocalInv
  <1>5. SeenInv'
    BY <1>1 DEF FreshInv, SeenInv
  <1>6. \A p \in Observed, k \in Roles : acked[p][k] <= epoch
    BY LocalTypes DEF FreshInv, LocalInv, CoherenceInv, EpochsBounded
  <1>7. \A r \in Readers : rpc[r] = "joined" /\ rdr[r].replica \in Observed =>
          rdr[r].seen[rdr[r].replica] <= epoch
    BY <1>6, LocalTypes DEF FreshInv, SeenInv
  <1>8. at'[0] = at[0]
    BY <1>2, LocalTypes
  <1>9. PendingInv'
    BY <1>1, <1>2, <1>6, <1>8, LocalTypes DEF FreshInv, PendingInv, Fetching
  <1>10. JoinedInv'
    BY <1>1, <1>2, <1>7, <1>8, LocalTypes DEF FreshInv, JoinedInv, Fetching
  <1> QED  BY <1>4, <1>5, <1>9, <1>10 DEF FreshInv

LEMMA BumpFresh ==
  ASSUME TypeOK, FreshInv, "incr" \notin Faults, NEW w \in Writers, BumpGlobalEpoch(w)
  PROVE  FreshInv'
  <1> DEFINE p == wtr[w].replica
  <1>1. /\ wpc[w] = "reply" /\ InOrder(p, wtr[w].num) /\ wpc'[w] = "clear" /\ wtr' = wtr
        /\ local' = [local EXCEPT ![p] = wtr[w].num]
        /\ \A v \in Writers \ {w} : wpc'[v] = wpc[v]
        /\ UNCHANGED <<rpc, rdr, pending, at, acked>>
    BY DEF BumpGlobalEpoch, EpochTaken, WriterTo, TypeOK, CallTypes
  <1>2. p \in Replicas /\ wtr[w].num \in Nat /\ local[p] <= wtr[w].num
    BY <1>1, LocalTypes DEF FreshInv, LocalInv
  <1>3. /\ local'[p] = wtr[w].num
        /\ \A q \in Replicas : local[q] \in Nat /\ local'[q] \in Nat /\ local'[q] >= local[q]
                               /\ (q # p => local'[q] = local[q])
    BY <1>1, <1>2, LocalTypes DEF TypeOK, CallTypes
  <1>4. \A r \in Readers : rpc'[r] = "epoch" => local'[rdr'[r].replica] <= rdr'[r].cur
    BY <1>1, <1>3, LocalTypes DEF InOrder, FreshInv, LocalInv
  <1>5. \A v \in Writers : wpc'[v] = "reply" => local'[wtr'[v].replica] <= wtr'[v].num
    BY <1>1, <1>3, LocalTypes DEF InOrder, FreshInv, LocalInv
  <1>6. ASSUME NEW v \in Writers, wpc'[v] = "clear"
        PROVE  wtr'[v].num <= local'[wtr'[v].replica]
    <2>1. CASE v = w
      BY <1>1, <1>3, <2>1, LocalTypes
    <2>2. CASE v # w
      <3>1. wtr[v].num <= local[wtr[v].replica]
        BY <1>1, <1>6, <2>2 DEF FreshInv, LocalInv
      <3> QED  BY <1>1, <1>3, <3>1, LocalTypes
    <2> QED  BY <2>1, <2>2
  <1>7. ASSUME NEW q \in Observed, NEW k \in Roles  PROVE acked'[q][k] <= local'[q]
    <2>1. q \in Replicas /\ acked[q][k] \in Nat /\ acked[q][k] <= local[q]
      BY LocalTypes DEF FreshInv, LocalInv
    <2> QED  BY <1>1, <1>3, <2>1
  <1>8. LocalInv'
    BY <1>4, <1>5, <1>6, <1>7 DEF LocalInv
  <1> QED  BY <1>1, <1>8, ReadersRest DEF FreshInv

LEMMA ClearFresh ==
  ASSUME TypeOK, FreshInv, NEW w \in Writers, ClearRoleCacheKey(w)
  PROVE  FreshInv'
  <1> DEFINE p == wtr[w].replica
             K == wtr[w].roles
  <1>1. /\ wpc[w] = "clear" /\ wpc'[w] = "idle"
        /\ \A v \in Writers \ {w} : wpc'[v] = wpc[v] /\ wtr'[v] = wtr[v]
        /\ UNCHANGED <<rpc, rdr, local, at>>
    BY DEF ClearRoleCacheKey, WriterTo, TypeOK, CallTypes
  <1>2. \A q \in Observed, k \in Roles :
          acked'[q][k] = IF q = p /\ k \in K /\ wtr[w].num > acked[q][k]
                         THEN wtr[w].num ELSE acked[q][k]
    BY DEF ClearRoleCacheKey
  <1>3. p \in Replicas /\ wtr[w].num <= local[p]
    BY <1>1, LocalTypes DEF FreshInv, LocalInv
  <1>4. \A q \in Replicas, k \in Roles :
          pending'[q][k] = IF q = p /\ k \in K THEN NoReader ELSE pending[q][k]
    BY <1>3 DEF ClearRoleCacheKey, PendingCleared, TypeOK, CallTypes
  <1>5. LocalInv'
    BY <1>1, <1>2, <1>3, LocalTypes DEF FreshInv, LocalInv
  <1>6. \A q \in Observed, k \in Roles : acked'[q][k] >= acked[q][k] /\ acked'[q][k] \in Nat
    BY <1>2, LocalTypes
  <1>7. SeenInv'
    <2> SUFFICES ASSUME NEW r \in Readers, rpc[r] \notin {"idle", "failed"}, rdr[r].replica \in Observed
                 PROVE  /\ rdr[r].seen[rdr[r].replica] <= acked'[rdr[r].replica][rdr[r].role]
                        /\ rpc[r] # "epoch" => rdr[r].seen[rdr[r].replica] <= rdr[r].cur
      BY <1>1 DEF SeenInv
    <2>1. /\ rdr[r].seen[rdr[r].replica] <= acked[rdr[r].replica][rdr[r].role]
          /\ rpc[r] # "epoch" => rdr[r].seen[rdr[r].replica] <= rdr[r].cur
      BY DEF FreshInv, SeenInv
    <2>2. rdr[r].seen[rdr[r].replica] \in Nat /\ acked[rdr[r].replica][rdr[r].role] \in Nat
      BY LocalTypes
    <2> QED  BY <1>6, <2>1, <2>2, LocalTypes
  <1>8. PendingInv'
    BY <1>1, <1>2, <1>4 DEF FreshInv, PendingInv, Fetching
  <1>9. JoinedInv'
    BY <1>1 DEF FreshInv, JoinedInv, Fetching
  <1> QED  BY <1>5, <1>7, <1>8, <1>9 DEF FreshInv

LEMMA RestartFresh ==
  ASSUME TypeOK, FreshInv, NEW p \in Replicas, Restart(p)
  PROVE  FreshInv'
  <1>1. \A r \in Readers : rpc'[r] \notin {"idle", "failed"} =>
          rdr[r].replica # p /\ rpc'[r] = rpc[r] /\ rdr'[r] = rdr[r]
    <2> SUFFICES ASSUME NEW r \in Readers, rpc'[r] \notin {"idle", "failed"}
                 PROVE  rdr[r].replica # p /\ rpc'[r] = rpc[r] /\ rdr'[r] = rdr[r]
      OBVIOUS
    <2>1. ~DiesWith(p, r)
      BY DEF Restart
    <2>2. rpc'[r] = rpc[r] /\ rdr'[r] = rdr[r]
      BY <2>1 DEF Restart
    <2> QED  BY <2>1, <2>2 DEF DiesWith
  <1>2. \A r \in Readers : rpc[r] \notin {"idle", "failed"} /\ rdr[r].replica # p =>
          rpc'[r] = rpc[r] /\ rdr'[r] = rdr[r]
    BY DEF Restart, DiesWith
  <1>3. \A w \in Writers : wpc'[w] # "idle" =>
          wtr[w].replica # p /\ wpc'[w] = wpc[w] /\ wtr'[w] = wtr[w]
    BY DEF Restart
  <1>4. /\ local'[p] = 0 /\ \A q \in Replicas \ {p} : local'[q] = local[q]
        /\ \A k \in Roles : pending'[p][k] = NoReader
        /\ \A q \in Replicas \ {p} : pending'[q] = pending[q]
        /\ \A q \in Observed : acked'[q] = IF q = p THEN NoVersions ELSE acked[q]
        /\ at' = at
    BY DEF Restart, TypeOK, CallTypes
  <1>5. LocalInv'
    BY <1>1, <1>3, <1>4, LocalTypes DEF FreshInv, LocalInv, NoVersions
  <1>6. SeenInv'
    BY <1>1, <1>4, LocalTypes DEF FreshInv, SeenInv
  <1>7. PendingInv'
    BY <1>2, <1>4 DEF FreshInv, PendingInv, Fetching
  <1>8. JoinedInv'
    BY <1>1, <1>2, <1>4 DEF FreshInv, JoinedInv, Fetching
  <1> QED  BY <1>5, <1>6, <1>7, <1>8 DEF FreshInv

LEMMA NextFresh ==
  ASSUME TypeOK, CoherenceInv, FreshInv, "incr" \notin Faults, [Next]_vars
  PROVE  FreshInv'
  <1>1. ASSUME NEW r \in Readers, ReaderStep(r)  PROVE FreshInv'
    BY <1>1, GetGlobalEpochFresh, CacheHitFresh, CacheMissFresh, JoinFresh, FetchFresh,
       QueryFresh, FetchEndsFresh DEF ReaderStep
  <1>2. CASE Read
    BY <1>1, <1>2, ReadFresh DEF Read
  <1>3. ASSUME UNCHANGED <<local, pending, callVars, at, acked>>  PROVE FreshInv'
    <2>1. UNCHANGED <<rpc, rdr, wpc, wtr>>
      BY <1>3 DEF callVars
    <2>2. LocalInv'
      BY <1>3, <2>1 DEF FreshInv, LocalInv
    <2> QED  BY <1>3, <2>1, <2>2, ReadersRest DEF FreshInv
  <1>4. CASE CacheStep
    BY <1>3, <1>4, RestartFresh DEF CacheStep, SetArrives, Expire
  <1>5. ASSUME NEW w \in Writers, Invalidate(w)  PROVE FreshInv'
    BY <1>5, IncrementFresh, BumpFresh, ClearFresh DEF Invalidate
  <1>6. ASSUME NEW w \in Writers, NEW p \in Replicas,
               NEW S \in {{k} : k \in Roles} \union {Roles}, Mutate(w, p, S)
        PROVE  FreshInv'
    <2>1. S \in SUBSET Roles
      OBVIOUS
    <2> QED  BY <1>6, <2>1, MutateFresh
  <1>7. CASE UNCHANGED vars
    BY <1>3, <1>7 DEF vars
  <1> QED  BY <1>2, <1>4, <1>5, <1>6, <1>7 DEF Next

LEMMA FreshFollows ==
  ASSUME TypeOK, CoherenceInv, FreshInv
  PROVE  FreshOnOwnReplica
  <1> SUFFICES ASSUME NEW r \in Readers, rdr[r].replica \in Observed, NEW v \in Returns(r)
               PROVE  v >= at[rdr[r].seen[rdr[r].replica]][rdr[r].role]
    BY DEF FreshOnOwnReplica
  <1> DEFINE p == rdr[r].replica
             k == rdr[r].role
             n == rdr[r].seen[p]
  <1>1. p \in Replicas /\ k \in Roles /\ n \in Epochs /\ rdr[r].cur \in Nat /\ epoch \in Epochs
    BY LocalTypes DEF TypeOK, StoreTypes
  <1>2. ASSUME rpc[r] \in {"cache", "rows"}
        PROVE  /\ rdr[r].cur \in Epochs /\ at[n][k] <= at[rdr[r].cur][k]
               /\ at[n][k] \in Nat /\ at[rdr[r].cur][k] \in Nat
    <2>1. n <= rdr[r].cur /\ rdr[r].cur <= epoch
      BY <1>2 DEF FreshInv, SeenInv, CoherenceInv, EpochsBounded
    <2>2. rdr[r].cur \in Epochs
      BY <1>1, <2>1
    <2>3. at[n][k] <= at[rdr[r].cur][k]
      BY <1>1, <2>1, <2>2 DEF CoherenceInv, EpochsGrow
    <2> QED  BY <1>1, <2>2, <2>3, VersionTypes
  <1>3. CASE rpc[r] = "cache"
    <2>1. PICK e \in Lookup(p, k) : Accepted(r, e) /\ v = e.val
      BY <1>3 DEF Returns
    <2>2. e \in Cached /\ e \in Entry /\ e.role = k
      BY <1>1, <2>1, LookupTypes
    <2>3. v >= at[rdr[r].cur][k] /\ v \in Nat
      BY <2>1, <2>2 DEF Accepted, CoherenceInv, CacheCoherent, Entry
    <2> QED  BY <1>2, <1>3, <2>3
  <1>4. CASE rpc[r] = "rows"
    <2>1. v = rdr[r].val /\ v >= at[rdr[r].cur][k]
      BY <1>4 DEF Returns, CoherenceInv, RowsFresh
    <2>2. v \in Nat
      BY <2>1 DEF TypeOK, CallTypes, Reader
    <2> QED  BY <1>2, <1>4, <2>1, <2>2
  <1>5. CASE rpc[r] = "joined"
    BY <1>5 DEF Returns, FreshInv, JoinedInv, Fetching
  <1> QED  BY <1>3, <1>4, <1>5 DEF Returns

\* The inductive invariant the run of coherence checks, for every instance.
THEOREM CacheInvariant ==
  ASSUME "incr" \notin Faults
  PROVE  Spec => []CacheInv
  <1>1. Init => CacheInv
    BY InitTypes, InitCoherence, InitFresh DEF CacheInv, FreshInv
  <1>2. CacheInv /\ [Next]_vars => CacheInv'
    BY NextTypes, NextCoherence, NextFresh DEF CacheInv, FreshInv
  <1> QED  BY <1>1, <1>2, PTL DEF Spec

\* A check includes every change its own replica had answered when it began, also
\* when it is answered from a shared entry or with the query of an earlier caller.
THEOREM CacheFreshOnOwnReplica ==
  ASSUME "incr" \notin Faults
  PROVE  Spec => []FreshOnOwnReplica
  <1>1. CacheInv => FreshOnOwnReplica
    BY FreshFollows DEF CacheInv, FreshInv
  <1> QED  BY <1>1, CacheInvariant, PTL
-----------------------------------------------------------------------------
(* 4. The caches at rest.                                                   *)

\* Nothing in the caches, or on its way to them, is newer than the database.
NothingNewer ==
  /\ \A e \in Cached : e.val <= version[e.role]
  /\ \A r \in Readers : rpc[r] = "rows" => rdr[r].val <= version[rdr[r].role]

\* A change without an epoch has a writer that still owes the INCR.
ChangesOwed ==
  \A k \in Roles : version[k] # at[epoch][k] => \E w \in Writers : wpc[w] = "incr"

RestInv == NothingNewer /\ ChangesOwed

LEMMA CachedTypes ==
  ASSUME TypeOK
  PROVE  \A e \in Cached : e.val \in Nat /\ e.role \in Roles
  <1>1. Cached \subseteq Entry
    BY DEF Cached, TypeOK, StoreTypes, IsTier
  <1> QED  BY <1>1 DEF Entry

LEMMA InitRest ==
  ASSUME Init
  PROVE  RestInv
  <1>1. Cached = {} /\ version = at[epoch] /\ \A r \in Readers : rpc[r] # "rows"
    BY DEF Init, Cached
  <1> QED  BY <1>1 DEF RestInv, NothingNewer, ChangesOwed

\* Steps of the readers and the caches: no change, no epoch, no writer.
Resting == NothingNewer' /\ UNCHANGED <<version, epoch, at, wpc, wtr>>

LEMMA RestingReader ==
  ASSUME NothingNewer, NEW r \in Readers, Cached' \subseteq Cached,
         UNCHANGED <<version, epoch, at, wpc, wtr>>,
         \A q \in Readers : rpc'[q] = "rows" => rpc[q] = "rows" /\ rdr'[q] = rdr[q]
  PROVE  Resting
  <1>1. NothingNewer'
    BY DEF NothingNewer
  <1> QED  BY <1>1 DEF Resting

LEMMA CallRests ==
  ASSUME TypeOK, NothingNewer, NEW r \in Readers, NEW p \in Replicas, NEW k \in Roles,
         GetPermissionsForRole(r, p, k)
  PROVE  Resting
  <1>1. \A q \in Readers : rpc'[q] = "rows" => rpc[q] = "rows" /\ rdr'[q] = rdr[q]
    BY DEF GetPermissionsForRole, ReaderTo, TypeOK, CallTypes
  <1> QED  BY <1>1, RestingReader DEF GetPermissionsForRole, ReaderTo, cacheVars, Cached

LEMMA LookupRests ==
  ASSUME TypeOK, NothingNewer, NEW r \in Readers,
         GetGlobalEpoch(r) \/ CacheMiss(r) \/ Join(r) \/ Fetch(r)
  PROVE  Resting
  <1>1. /\ rpc'[r] # "rows" /\ UNCHANGED <<version, epoch, cacheVars, at, wpc, wtr>>
        /\ \A q \in Readers : q # r => rpc'[q] = rpc[q] /\ rdr'[q] = rdr[q]
    BY DEF GetGlobalEpoch, CacheMiss, Join, Fetch, ReaderTo, TypeOK, CallTypes
  <1> QED  BY <1>1, RestingReader DEF cacheVars, Cached

LEMMA QueryRests ==
  ASSUME TypeOK, NothingNewer, NEW r \in Readers, FetchPermissionStringsForRole(r)
  PROVE  Resting
  <1>1. /\ rdr'[r].val = version[rdr[r].role] /\ rdr'[r].role = rdr[r].role
        /\ rdr[r].role \in Roles
    BY DEF FetchPermissionStringsForRole, TypeOK, CallTypes, Reader
  <1>2. version[rdr[r].role] \in Nat
    BY <1>1 DEF TypeOK, StoreTypes
  <1>3. \A q \in Readers : q # r => rpc'[q] = rpc[q] /\ rdr'[q] = rdr[q]
    BY DEF FetchPermissionStringsForRole, ReaderTo, TypeOK, CallTypes
  <1>4. UNCHANGED <<version, epoch, cacheVars, at, wpc, wtr>> /\ Cached' = Cached
    BY DEF FetchPermissionStringsForRole, ReaderTo, cacheVars, Cached
  <1>5. NothingNewer'
    BY <1>1, <1>2, <1>3, <1>4 DEF NothingNewer
  <1> QED  BY <1>4, <1>5 DEF Resting

LEMMA SettleRests ==
  ASSUME TypeOK, NothingNewer, NEW r \in Readers, NEW outcome \in {"idle", "failed"},
         Settle(r, outcome), UNCHANGED <<version, epoch, cacheVars, at>>
  PROVE  Resting
  <1>1. /\ \A q \in Readers : rpc'[q] = "rows" => rpc[q] = "rows" /\ rdr'[q] = rdr[q]
        /\ UNCHANGED <<wpc, wtr>>
    BY SettleMoves
  <1> QED  BY <1>1, RestingReader DEF cacheVars, Cached

LEMMA FetchDoneRests ==
  ASSUME TypeOK, NothingNewer, NEW r \in Readers, FetchDone(r)
  PROVE  Resting
  <1> DEFINE p == rdr[r].replica
             e == [role |-> rdr[r].role, tag |-> EpochOfCall(r), val |-> rdr[r].val]
  <1>1. e.val <= version[e.role]
    BY DEF FetchDone, NothingNewer
  <1>2. \A q \in Replicas : l1'[q] \subseteq l1[q] \union {e} /\ sets'[q] \subseteq sets[q] \union {e}
    <2>1. \/ l1' = [l1 EXCEPT ![p] = Put(l1[p], e)] /\ sets' = [sets EXCEPT ![p] = sets[p] \union {e}]
          \/ l1' = l1 /\ sets' = sets
      BY DEF FetchDone
    <2>2. Put(l1[p], e) \subseteq l1[p] \union {e}
      BY DEF Put
    <2> HIDE DEF p, e
    <2> QED  BY <2>1, <2>2 DEF TypeOK, StoreTypes
  <1>3. Cached' \subseteq Cached \union {e}
    BY <1>2 DEF FetchDone, Cached
  <1>4. \A q \in Readers : rpc'[q] = "rows" => rpc[q] = "rows" /\ rdr'[q] = rdr[q]
    BY SettleMoves DEF FetchDone
  <1>5. UNCHANGED <<version, epoch, at, wpc, wtr>>
    BY DEF FetchDone, Settle
  <1> HIDE DEF e
  <1>6. NothingNewer'
    BY <1>1, <1>3, <1>4, <1>5 DEF NothingNewer
  <1> QED  BY <1>5, <1>6 DEF Resting

LEMMA CachesRests ==
  ASSUME NothingNewer, Cached' \subseteq Cached, UNCHANGED <<version, epoch, callVars, at>>
  PROVE  Resting
  <1>1. NothingNewer'
    BY DEF NothingNewer, callVars
  <1> QED  BY <1>1 DEF Resting, callVars

LEMMA SetArrivesRests ==
  ASSUME TypeOK, NothingNewer, NEW p \in Replicas, NEW e \in sets[p], SetArrives(p, e)
  PROVE  Resting
  <1>1. l2' \subseteq l2 \union {e}
    BY DEF SetArrives, Put, OfRole
  <1>2. \A q \in Replicas : l1'[q] = l1[q] /\ sets'[q] \subseteq sets[q]
    BY DEF SetArrives, TypeOK, StoreTypes
  <1>3. Cached' \subseteq Cached
    BY <1>1, <1>2 DEF Cached
  <1> QED  BY <1>3, CachesRests DEF SetArrives

LEMMA ExpireRests ==
  ASSUME TypeOK, NothingNewer, NEW e, Expire(e)
  PROVE  Resting
  <1>1. l2' \subseteq l2 /\ \A q \in Replicas : l1'[q] \subseteq l1[q] /\ sets'[q] = sets[q]
    BY DEF Expire, TypeOK, StoreTypes
  <1>2. Cached' \subseteq Cached
    BY <1>1 DEF Cached
  <1> QED  BY <1>2, CachesRests DEF Expire

LEMMA ReaderStepRests ==
  ASSUME TypeOK, NothingNewer, NEW r \in Readers, ReaderStep(r)
  PROVE  Resting
  <1>1. CASE CacheHit(r) \/ FetchFails(r)
    BY <1>1, SettleRests DEF CacheHit, FetchFails
  <1> QED  BY <1>1, LookupRests, QueryRests, FetchDoneRests DEF ReaderStep

LEMMA ReadRests ==
  ASSUME TypeOK, NothingNewer, Read
  PROVE  Resting
  BY ReaderStepRests, CallRests DEF Read

LEMMA CacheStepRests ==
  ASSUME TypeOK, NothingNewer, "restart" \notin Faults, CacheStep
  PROVE  Resting
  BY SetArrivesRests, ExpireRests DEF CacheStep, Restart

\* A commit makes the database newer,
LEMMA CommitNewer ==
  ASSUME TypeOK, NothingNewer, NEW S \in SUBSET Roles, Touch(S),
         UNCHANGED <<rpc, rdr, cacheVars>>
  PROVE  NothingNewer'
  <1>1. \A k \in Roles : version[k] \in Nat /\ version'[k] \in Nat /\ version[k] <= version'[k]
    <2>1. version' = [k \in Roles |-> IF k \in S THEN version[k] + 1 ELSE version[k]]
      BY DEF Touch
    <2>2. \A k \in Roles : version[k] \in Nat
      BY DEF TypeOK, StoreTypes
    <2> QED  BY <2>1, <2>2
  <1>2. \A e \in Cached : e.val \in Nat /\ e.role \in Roles
    BY CachedTypes
  <1>3. \A r \in Readers : rdr[r].val \in Nat /\ rdr[r].role \in Roles
    BY DEF TypeOK, CallTypes, Reader
  <1>4. UNCHANGED <<rpc, rdr>> /\ Cached' = Cached
    BY DEF cacheVars, Cached
  <1> QED  BY <1>1, <1>2, <1>3, <1>4 DEF NothingNewer

\* and its writer owes the INCR from that moment,
LEMMA MutateRest ==
  ASSUME TypeOK, RestInv, NEW w \in Writers, NEW p \in Replicas, NEW S \in SUBSET Roles,
         Mutate(w, p, S)
  PROVE  RestInv'
  <1>1. wpc'[w] = "incr"
    BY DEF Mutate, WriterTo, TypeOK, CallTypes
  <1>2. NothingNewer'
    BY CommitNewer DEF RestInv, Mutate, WriterTo
  <1> QED  BY <1>1, <1>2 DEF RestInv, ChangesOwed

\* and the INCR settles the debts of every change committed by then.
LEMMA IncrementRest ==
  ASSUME TypeOK, RestInv, NEW w \in Writers, IncrementRbacGlobalEpoch(w)
  PROVE  RestInv'
  <1>1. epoch' \in Epochs /\ at'[epoch'] = version /\ version' = version
    BY DEF IncrementRbacGlobalEpoch, TypeOK, StoreTypes
  <1>2. UNCHANGED <<rpc, rdr>> /\ Cached' = Cached
    BY DEF IncrementRbacGlobalEpoch, WriterTo, cacheVars, Cached
  <1>3. NothingNewer'
    BY <1>1, <1>2 DEF RestInv, NothingNewer
  <1> QED  BY <1>1, <1>3 DEF RestInv, ChangesOwed

LEMMA AnswerRest ==
  ASSUME TypeOK, RestInv, "incr" \notin Faults, NEW w \in Writers,
         BumpGlobalEpoch(w) \/ ClearRoleCacheKey(w)
  PROVE  RestInv'
  <1>1. wpc[w] # "incr" /\ \A v \in Writers : v # w => wpc'[v] = wpc[v]
    BY DEF BumpGlobalEpoch, ClearRoleCacheKey, WriterTo, TypeOK, CallTypes
  <1>2. UNCHANGED <<version, epoch, at, rpc, rdr>> /\ Cached' = Cached
    BY DEF BumpGlobalEpoch, ClearRoleCacheKey, WriterTo, cacheVars, Cached
  <1>3. NothingNewer'
    BY <1>2 DEF RestInv, NothingNewer
  <1> QED  BY <1>1, <1>2, <1>3 DEF RestInv, ChangesOwed

LEMMA NextRest ==
  ASSUME TypeOK, RestInv, Faults \intersect {"incr", "restart"} = {}, [Next]_vars
  PROVE  RestInv'
  <1>1. ASSUME Resting  PROVE RestInv'
    BY <1>1 DEF Resting, RestInv, ChangesOwed
  <1>2. CASE Read \/ CacheStep
    BY <1>1, <1>2, ReadRests, CacheStepRests DEF RestInv
  <1>3. ASSUME NEW w \in Writers, Invalidate(w)  PROVE RestInv'
    BY <1>3, IncrementRest, AnswerRest DEF Invalidate
  <1>4. ASSUME NEW w \in Writers, NEW p \in Replicas,
               NEW S \in {{k} : k \in Roles} \union {Roles}, Mutate(w, p, S)
        PROVE  RestInv'
    <2>1. S \in SUBSET Roles
      OBVIOUS
    <2> QED  BY <1>4, <2>1, MutateRest
  <1>5. CASE UNCHANGED vars
    BY <1>1, <1>5, CachesRests DEF vars, cacheVars, Cached, RestInv
  <1> QED  BY <1>2, <1>3, <1>4, <1>5 DEF Next

LEMMA RestFollows ==
  ASSUME TypeOK, CacheCoherent, RestInv
  PROVE  QuiescentFresh
  <1> SUFFICES ASSUME \A w \in Writers : wpc[w] = "idle", NEW e \in Cached, e.tag = epoch
               PROVE  e.val = version[e.role]
    BY DEF QuiescentFresh
  <1>1. e.val \in Nat /\ e.role \in Roles
    BY CachedTypes
  <1>2. version[e.role] \in Nat
    BY <1>1 DEF TypeOK, StoreTypes
  <1>3. version[e.role] = at[epoch][e.role]
    BY <1>1 DEF RestInv, ChangesOwed
  <1>4. e.val >= at[epoch][e.role] /\ e.val <= version[e.role]
    BY DEF CacheCoherent, RestInv, NothingNewer
  <1> QED  BY <1>1, <1>2, <1>3, <1>4

\* When no mutation is under way, what a reader of the current epoch accepts is
\* what the database holds, unless an INCR was rejected or a replica died before it.
THEOREM CacheQuiescentFresh ==
  ASSUME Faults \intersect {"incr", "restart"} = {}
  PROVE  Spec => []QuiescentFresh
  <1>1. Init => RestInv
    BY InitRest
  <1>2. TypeOK /\ RestInv /\ [Next]_vars => RestInv'
    BY NextRest
  <1>3. TypeOK /\ CacheCoherent /\ RestInv => QuiescentFresh
    BY RestFollows
  <1>4. "incr" \notin Faults
    OBVIOUS
  <1>5. Spec => []TypeOK /\ []CacheCoherent
    BY <1>4, CacheTypeOK, CacheIsCoherent
  <1> QED  BY <1>1, <1>2, <1>3, <1>5, PTL DEF Spec
=============================================================================
