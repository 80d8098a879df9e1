------------------------------ MODULE RbacCache ------------------------------
(***************************************************************************)
(* The permission cache of RbacService on several replicas that share one   *)
(* Redis and one database.                                                  *)
(*                                                                         *)
(* The permissions of a role are a version number that grows with every     *)
(* committed change of its rows.  A reader is one call of                   *)
(* getPermissionsForRole, a writer one call of a mutation of the admin      *)
(* services, which commits and then invalidates.                            *)
(*                                                                         *)
(* An action is the code between two awaits.  A call to Redis or PostgreSQL *)
(* takes effect there in one step, and the replica handles the answer in a  *)
(* later one; where nothing depends on the moment in between (the send of a *)
(* GET, the lookup of an entry) the two are one step.                       *)
(***************************************************************************)
EXTENDS Naturals, FiniteSets

CONSTANTS
  Replicas,      \* processes
  Observed,      \* replicas whose answered mutations the history remembers
  Roles,
  Readers,       \* calls of getPermissionsForRole in progress at the same time
  Writers,       \* mutations in progress at the same time
  NoReader,      \* "no fetch is pending"
  MaxEpoch,      \* bound: changes of one role, and epochs
  MaxSets,       \* bound: SETs of one replica on their way to Redis
  Faults         \* what may go wrong

ASSUME ReplicasAssumption == Replicas # {} /\ Roles # {} /\ Observed \subseteq Replicas
ASSUME ReadersAssumption  == NoReader \notin Readers
ASSUME CacheBoundsAssumption == MaxEpoch \in Nat /\ MaxSets \in Nat \ {0}
\* "redis": a GET or SET; "incr": the INCR; "select": the permission query;
\* "roles": the query for the roles of a permission; "restart": a replica dies;
\* "ttl": no failure, an entry of a cache outlives RBAC_CACHE_TTL.
ASSUME CacheFaultsAssumption ==
  Faults \subseteq {"redis", "incr", "select", "roles", "restart", "ttl"}

Versions == 0 .. MaxEpoch
Epochs   == 0 .. MaxEpoch
\* A replica whose INCR is rejected counts by itself and may run ahead.
LocalEpochs == 0 .. 2 * MaxEpoch
Entry    == [role : Roles, tag : LocalEpochs, val : Versions]

VARIABLES
  \* PostgreSQL
  version,    \* of the permission strings of each role
  \* Redis
  epoch,      \* rbac:global:epoch; 0 stands for the missing key
  l2,         \* entries of the shared tier
  \* each replica
  l1,         \* entries of the in-process tier
  sets,       \* SETs on their way to Redis that nobody waits for
  local,      \* invalidationEpoch
  pending,    \* pendingRequests: the reader that fetches a role
  \* the calls
  rpc, rdr, wpc, wtr,
  \* history, read by no action
  at,         \* the versions when an epoch was produced
  acked       \* for an observed replica and a role, the newest epoch produced for a
              \* mutation of that role which the replica has answered

cacheVars == <<l1, l2, sets>>
callVars  == <<rpc, rdr, wpc, wtr>>
vars == <<version, epoch, cacheVars, local, pending, callVars, at, acked>>
-----------------------------------------------------------------------------
Reader == [replica : Replicas, role : Roles, cur : LocalEpochs, snap : LocalEpochs,
           on : Readers \union {NoReader}, val : Versions, seen : [Observed -> Epochs]]
Writer == [replica : Replicas, roles : SUBSET Roles, num : Epochs]

AnyReplica == CHOOSE p \in Replicas : TRUE
AnyRole    == CHOOSE k \in Roles : TRUE
NoVersions == [k \in Roles |-> 0]

NoRead    == [replica |-> AnyReplica, role |-> AnyRole, cur |-> 0, snap |-> 0,
              on |-> NoReader, val |-> 0, seen |-> [p \in Observed |-> 0]]
NoWrite   == [replica |-> AnyReplica, roles |-> {}, num |-> 0]

Init ==
  /\ version = NoVersions
  /\ epoch = 0 /\ l2 = {}
  /\ l1 = [p \in Replicas |-> {}] /\ sets = [p \in Replicas |-> {}]
  /\ local = [p \in Replicas |-> 0]
  /\ pending = [p \in Replicas |-> [k \in Roles |-> NoReader]]
  /\ rpc = [r \in Readers |-> "idle"] /\ rdr = [r \in Readers |-> NoRead]
  /\ wpc = [w \in Writers |-> "idle"] /\ wtr = [w \in Writers |-> NoWrite]
  /\ at = [n \in Epochs |-> NoVersions]
  /\ acked = [p \in Observed |-> NoVersions]
-----------------------------------------------------------------------------
(* Helpers.                                                                 *)

OfRole(S, k) == {e \in S : e.role = k}

PutBeside(S, e) == S \union {e}
\* cache-manager writes an entry over the one of the same key,
Put(S, e) == (S \ OfRole(S, e.role)) \union {e}

\* and reads the first tier that has one, whatever its epoch.
Lookup(p, k) == IF OfRole(l1[p], k) # {} THEN OfRole(l1[p], k) ELSE OfRole(l2, k)

\* cached.epoch === currentEpoch
Accepted(r, e) == e.tag = rdr[r].cur

\* A replica has one connection to Redis, and Redis answers its commands in the
\* order it performed them; the epoch only grows.
InOrder(p, n) ==
  /\ \A r \in Readers : rpc[r] = "epoch" /\ rdr[r].replica = p => rdr[r].cur >= n
  /\ \A w \in Writers : wpc[w] = "reply" /\ wtr[w].replica = p => wtr[w].num >= n

ReaderTo(r, step) == rpc' = [rpc EXCEPT ![r] = step] /\ UNCHANGED <<wpc, wtr>>

WriterTo(w, step, j) ==
  /\ wpc' = [wpc EXCEPT ![w] = step] /\ wtr' = [wtr EXCEPT ![w] = j]
  /\ UNCHANGED <<rpc, rdr>>

Alone(r) == {r}
\* Everybody who holds the promise of r's fetch.
Holders(r) == {r} \union {q \in Readers : rpc[q] = "joined" /\ rdr[q].on = r}

\* The promise of r settles.
Settle(r, outcome) ==
  /\ rpc' = [q \in Readers |-> IF q \in Holders(r) THEN outcome ELSE rpc[q]]
  /\ rdr' = [q \in Readers |-> IF q \in Holders(r) THEN NoRead ELSE rdr[q]]
  /\ UNCHANGED <<wpc, wtr>>
-----------------------------------------------------------------------------
(* getPermissionsForRole, getGlobalEpoch                                    *)

\* The call, and the GET of rbac:global:epoch that Redis performs for it.
GetPermissionsForRole(r, p, k) ==
  /\ rpc[r] \in {"idle", "failed"}
  /\ ReaderTo(r, "epoch")
  /\ rdr' = [rdr EXCEPT ![r] =
               [NoRead EXCEPT !.replica = p, !.role = k, !.cur = epoch,
                              !.seen = [q \in Observed |-> acked[q][k]]]]
  /\ UNCHANGED <<version, epoch, cacheVars, local, pending, at, acked>>

\* Redis answers, or the GET is rejected and the local epoch has to do.
GetGlobalEpoch(r) ==
  LET p == rdr[r].replica
      useLocal == rdr' = [rdr EXCEPT ![r].cur = local[p]] /\ UNCHANGED local
  IN
  /\ rpc[r] = "epoch"
  /\ \/ /\ InOrder(p, rdr[r].cur)
        /\ IF rdr[r].cur = 0
           THEN useLocal
           ELSE local' = [local EXCEPT ![p] = rdr[r].cur] /\ UNCHANGED rdr
     \/ "redis" \in Faults /\ useLocal
  /\ ReaderTo(r, "cache")
  /\ UNCHANGED <<version, epoch, cacheVars, pending, at, acked>>

CacheHit(r) ==
  /\ rpc[r] = "cache"
  /\ \E e \in Lookup(rdr[r].replica, rdr[r].role) : Accepted(r, e) /\ Settle(r, "idle")
  /\ UNCHANGED <<version, epoch, cacheVars, local, pending, at, acked>>

\* No entry, an entry of another epoch, or the get is rejected.
CacheMiss(r) ==
  /\ rpc[r] = "cache"
  /\ \/ \A e \in Lookup(rdr[r].replica, rdr[r].role) : ~Accepted(r, e)
     \/ "redis" \in Faults
  /\ ReaderTo(r, "missed") /\ UNCHANGED rdr
  /\ UNCHANGED <<version, epoch, cacheVars, local, pending, at, acked>>

PendingOf(r) == pending[rdr[r].replica][rdr[r].role]
SetPending(r, q) == [pending EXCEPT ![rdr[r].replica][rdr[r].role] = q]

\* By the time the miss is handled another call may have begun the fetch.
Join(r) ==
  /\ rpc[r] = "missed" /\ PendingOf(r) # NoReader
  /\ rdr' = [rdr EXCEPT ![r].on = PendingOf(r)]
  /\ ReaderTo(r, "joined")
  /\ UNCHANGED <<version, epoch, cacheVars, local, pending, at, acked>>

Fetch(r) ==
  /\ rpc[r] = "missed" /\ PendingOf(r) = NoReader
  /\ pending' = SetPending(r, r)
  /\ rdr' = [rdr EXCEPT ![r].snap = local[rdr[r].replica]]
  /\ ReaderTo(r, "query")
  /\ UNCHANGED <<version, epoch, cacheVars, local, at, acked>>

\* PostgreSQL performs the query.
FetchPermissionStringsForRole(r) ==
  /\ rpc[r] = "query"
  /\ rdr' = [rdr EXCEPT ![r].val = version[rdr[r].role]]
  /\ ReaderTo(r, "rows")
  /\ UNCHANGED <<version, epoch, cacheVars, local, pending, at, acked>>

NewestEpoch(r) == epoch
\* currentEpoch, read before the query.
EpochOfCall(r) == rdr[r].cur

\* The rows arrive.  They are cached unless the replica has seen the epoch move
\* since the fetch began; the finally clause deletes the key of pendingRequests,
\* whoever put it there.
FetchDone(r) ==
  LET p == rdr[r].replica
      e == [role |-> rdr[r].role, tag |-> EpochOfCall(r), val |-> rdr[r].val]
  IN
  /\ rpc[r] = "rows" /\ Cardinality(sets[p]) < MaxSets
  /\ IF rdr[r].snap = local[p]
     THEN /\ l1' = [l1 EXCEPT ![p] = Put(@, e)]
          /\ sets' = [sets EXCEPT ![p] = @ \union {e}]
     ELSE UNCHANGED <<l1, sets>>
  /\ pending' = SetPending(r, NoReader)
  /\ Settle(r, "idle")
  /\ UNCHANGED <<version, epoch, l2, local, at, acked>>

FetchFails(r) ==
  /\ "select" \in Faults
  /\ rpc[r] \in {"query", "rows"}
  /\ pending' = SetPending(r, NoReader)
  /\ Settle(r, "failed")
  /\ UNCHANGED <<version, epoch, cacheVars, local, at, acked>>

\* A SET that nobody waits for is performed, or is lost.
SetArrives(p, e) ==
  /\ e \in sets[p]
  /\ \/ l2' = Put(l2, e)
     \/ "redis" \in Faults /\ UNCHANGED l2
  /\ sets' = [sets EXCEPT ![p] = @ \ {e}]
  /\ UNCHANGED <<version, epoch, l1, local, pending, callVars, at, acked>>

\* RBAC_CACHE_TTL runs out in one tier.
Expire(e) ==
  /\ "ttl" \in Faults
  /\ \/ /\ e \in l2 /\ l2' = l2 \ {e} /\ UNCHANGED l1
     \/ \E p \in Replicas : /\ e \in l1[p] /\ l1' = [l1 EXCEPT ![p] = @ \ {e}]
                            /\ UNCHANGED l2
  /\ UNCHANGED <<version, epoch, sets, local, pending, callVars, at, acked>>
-----------------------------------------------------------------------------
(* A mutation: invalidateRoleCache, invalidateRoles, invalidateAllRoles after *)
(* the commit of the rows.                                                  *)

\* The permission strings of the roles in S change in one committed transaction.
Touch(S) ==
  /\ \A k \in S : version[k] < MaxEpoch
  /\ version' = [k \in Roles |-> IF k \in S THEN version[k] + 1 ELSE version[k]]

Work(p, S) == [replica |-> p, roles |-> S, num |-> 0]

\* RoleService changes the rows of one role, FeatureService those of any role.
\* A call that changes no row (not found, a conflict, a transaction rolled back)
\* invalidates nothing.
Mutate(w, p, S) ==
  /\ wpc[w] = "idle"
  /\ Touch(S)
  /\ WriterTo(w, "incr", Work(p, S))
  /\ UNCHANGED <<epoch, cacheVars, local, pending, at, acked>>

\* Redis performs the INCR.
IncrementRbacGlobalEpoch(w) ==
  /\ wpc[w] = "incr" /\ epoch < MaxEpoch
  /\ epoch' = epoch + 1
  /\ at' = [at EXCEPT ![epoch'] = version]
  /\ WriterTo(w, "reply", [wtr[w] EXCEPT !.num = epoch'])
  /\ UNCHANGED <<version, cacheVars, local, pending, acked>>

EpochIgnored(w) == local
\* this.invalidationEpoch = next
EpochTaken(w) == [local EXCEPT ![wtr[w].replica] = wtr[w].num]

\* Redis answers; or the INCR, performed or not, is rejected.
BumpGlobalEpoch(w) ==
  /\ \/ /\ wpc[w] = "reply" /\ InOrder(wtr[w].replica, wtr[w].num)
        /\ local' = EpochTaken(w)
        /\ WriterTo(w, "clear", wtr[w])
     \/ /\ "incr" \in Faults /\ wpc[w] \in {"incr", "reply"}
        /\ local[wtr[w].replica] < 2 * MaxEpoch
        /\ local' = [local EXCEPT ![wtr[w].replica] = @ + 1]
        /\ WriterTo(w, "clear", [wtr[w] EXCEPT !.num = 0])
  /\ UNCHANGED <<version, epoch, cacheVars, pending, at, acked>>

PendingKept(w) == pending[wtr[w].replica]
PendingCleared(w) == [k \in Roles |-> IF k \in wtr[w].roles THEN NoReader
                                      ELSE pending[wtr[w].replica][k]]

\* clearRoleCacheKey for every role concerned, and the mutation is answered.
ClearRoleCacheKey(w) ==
  /\ wpc[w] = "clear"
  /\ pending' = [pending EXCEPT ![wtr[w].replica] = PendingCleared(w)]
  /\ acked' = [p \in Observed |-> [k \in Roles |->
                 IF p = wtr[w].replica /\ k \in wtr[w].roles /\ wtr[w].num > acked[p][k]
                 THEN wtr[w].num ELSE acked[p][k]]]
  /\ WriterTo(w, "idle", NoWrite)
  /\ UNCHANGED <<version, epoch, cacheVars, local, at>>

DiesWith(p, r) == rpc[r] \notin {"idle", "failed"} /\ rdr[r].replica = p

\* A replica dies and starts again with nothing in memory.
Restart(p) ==
  /\ "restart" \in Faults
  /\ l1' = [l1 EXCEPT ![p] = {}] /\ sets' = [sets EXCEPT ![p] = {}]
  /\ local' = [local EXCEPT ![p] = 0]
  /\ pending' = [pending EXCEPT ![p] = [k \in Roles |-> NoReader]]
  /\ rpc' = [r \in Readers |-> IF DiesWith(p, r) THEN "failed" ELSE rpc[r]]
  /\ rdr' = [r \in Readers |-> IF DiesWith(p, r) THEN NoRead ELSE rdr[r]]
  /\ wpc' = [w \in Writers |-> IF wtr[w].replica = p THEN "idle" ELSE wpc[w]]
  /\ wtr' = [w \in Writers |-> IF wtr[w].replica = p THEN NoWrite ELSE wtr[w]]
  /\ acked' = [q \in Observed |-> IF q = p THEN NoVersions ELSE acked[q]]
  /\ UNCHANGED <<version, epoch, l2, at>>
-----------------------------------------------------------------------------
ReaderStep(r) ==
  \/ GetGlobalEpoch(r) \/ CacheHit(r) \/ CacheMiss(r) \/ Join(r) \/ Fetch(r)
  \/ FetchPermissionStringsForRole(r) \/ FetchDone(r) \/ FetchFails(r)

Read == \E r \in Readers :
          ReaderStep(r) \/ \E p \in Replicas, k \in Roles : GetPermissionsForRole(r, p, k)

Invalidate(w) == IncrementRbacGlobalEpoch(w) \/ BumpGlobalEpoch(w) \/ ClearRoleCacheKey(w)

CacheStep ==
  \/ \E p \in Replicas : Restart(p) \/ \E e \in sets[p] : SetArrives(p, e)
  \/ \E e \in l2 \union UNION {l1[p] : p \in Replicas} : Expire(e)

Next ==
  \/ Read
  \/ CacheStep
  \/ \E w \in Writers :
       \/ Invalidate(w)
       \/ \E p \in Replicas, S \in {{k} : k \in Roles} \union {Roles} : Mutate(w, p, S)

Spec == Init /\ [][Next]_vars

\* Every answer of Redis and PostgreSQL is handled in the end.
FairSpec == /\ Spec
            /\ \A r \in Readers : WF_vars(ReaderStep(r))
            /\ \A p \in Replicas : WF_vars(\E e \in sets[p] : SetArrives(p, e))
-----------------------------------------------------------------------------
(* Properties.                                                              *)

\* A tier holds at most one entry under a key.
IsTier(S) == S \subseteq Entry /\ \A d, e \in S : d.role = e.role => d = e

StoreTypes ==
  /\ version \in [Roles -> Versions]
  /\ epoch \in Epochs /\ IsTier(l2)
  /\ l1 \in [Replicas -> SUBSET Entry] /\ \A p \in Replicas : IsTier(l1[p])
  /\ sets \in [Replicas -> SUBSET Entry]
  /\ at \in [Epochs -> [Roles -> Versions]] /\ acked \in [Observed -> [Roles -> Epochs]]

CallTypes ==
  /\ local \in [Replicas -> LocalEpochs]
  /\ pending \in [Replicas -> [Roles -> Readers \union {NoReader}]]
  /\ rpc \in [Readers -> {"idle", "failed", "epoch", "cache", "missed", "joined", "query", "rows"}]
  /\ rdr \in [Readers -> Reader]
  /\ wpc \in [Writers -> {"idle", "roles", "delete", "incr", "reply", "clear"}]
  /\ wtr \in [Writers -> Writer]

TypeOK == StoreTypes /\ CallTypes

Cached == l2 \union UNION {l1[p] \union sets[p] : p \in Replicas}

\* The tag of an entry never promises more than the entry holds: permissions
\* tagged with epoch n include every change committed before n was produced,
\* whichever replica wrote them and however late the write arrives.
CacheCoherent == \A e \in Cached : e.tag <= epoch /\ e.val >= at[e.tag][e.role]

\* When no mutation is under way, an entry that a reader of the current epoch
\* accepts holds the permissions that are in the database.
QuiescentFresh ==
  (\A w \in Writers : wpc[w] = "idle") =>
    \A e \in Cached : e.tag = epoch => e.val = version[e.role]

\* The versions a call can return with in the next step: a cached entry, its own
\* rows or those of the fetch it has joined.
Returns(r) ==
  CASE rpc[r] = "cache" ->
         {e.val : e \in {x \in Lookup(rdr[r].replica, rdr[r].role) : Accepted(r, x)}}
    [] rpc[r] = "rows" -> {rdr[r].val}
    [] rpc[r] = "joined" /\ rpc[rdr[r].on] = "rows" -> {rdr[rdr[r].on].val}
    [] OTHER -> {}

\* A permission check includes every change of the role that was committed before
\* the invalidation of a mutation of that role which its own replica had answered
\* when the check began, even if it joins the query of an earlier caller.
FreshOnOwnReplica ==
  \A r \in Readers : rdr[r].replica \in Observed =>
    \A v \in Returns(r) : v >= at[rdr[r].seen[rdr[r].replica]][rdr[r].role]

\* What makes them inductive, as long as no INCR is rejected.  Nobody is ahead of
\* the shared epoch; epochs were produced for growing versions; and rows that
\* have been read are as new as the epoch the call had read before.
EpochsBounded ==
  /\ \A p \in Replicas : local[p] <= epoch
  /\ \A r \in Readers : rdr[r].cur <= epoch
  /\ \A w \in Writers : wtr[w].num <= epoch

EpochsGrow ==
  \A n \in Epochs, k \in Roles :
    /\ at[n][k] <= version[k]
    /\ \A m \in Epochs : m <= n /\ n <= epoch => at[m][k] <= at[n][k]

RowsFresh ==
  \A r \in Readers : rpc[r] = "rows" => rdr[r].val >= at[rdr[r].cur][rdr[r].role]

CoherenceInv == EpochsBounded /\ EpochsGrow /\ RowsFresh /\ CacheCoherent

\* The local epoch of a replica never falls behind what it has answered, nor gets
\* ahead of the replies it waits for.
LocalInv ==
  /\ \A r \in Readers : rpc[r] = "epoch" => local[rdr[r].replica] <= rdr[r].cur
  /\ \A w \in Writers :
       /\ wpc[w] = "reply" => local[wtr[w].replica] <= wtr[w].num
       /\ wpc[w] = "clear" => wtr[w].num <= local[wtr[w].replica]
  /\ \A p \in Observed, k \in Roles : acked[p][k] <= local[p]

SeenInv ==
  \A r \in Readers :
    LET p == rdr[r].replica IN
    rpc[r] \notin {"idle", "failed"} /\ p \in Observed =>
      /\ rdr[r].seen[p] <= acked[p][rdr[r].role]
      /\ rpc[r] # "epoch" => rdr[r].seen[p] <= rdr[r].cur

\* r is fetching role k on replica p, and what it has read includes epoch n.
Fetching(r, p, k, n) ==
  /\ r \in Readers /\ rdr[r].replica = p /\ rdr[r].role = k
  /\ rpc[r] \in {"query", "rows"}
  /\ rpc[r] = "rows" => rdr[r].val >= at[n][k]

\* A fetch can be joined only while it is under way, and only until the replica
\* answers a mutation that the fetch has missed.
PendingInv ==
  \A p \in Replicas, k \in Roles : pending[p][k] # NoReader =>
    Fetching(pending[p][k], p, k, IF p \in Observed THEN acked[p][k] ELSE 0)

JoinedInv ==
  \A r \in Readers :
    LET p == rdr[r].replica IN
    rpc[r] = "joined" =>
      Fetching(rdr[r].on, p, rdr[r].role, IF p \in Observed THEN rdr[r].seen[p] ELSE 0)

CacheInv == TypeOK /\ CoherenceInv /\ LocalInv /\ SeenInv /\ PendingInv /\ JoinedInv

\* Every permission check is answered, although it may wait for the query of
\* another caller whose entry in pendingRequests has been deleted meanwhile.
ReadsAnswered ==
  \A r \in Readers : rpc[r] \notin {"idle", "failed"} ~> rpc[r] \in {"idle", "failed"}
=============================================================================
