# Sessions, permissions, tables and audit trail in TLA+

This directory holds a verification development of the NestJS template in
`src/`: TLA+ modules translated from its TypeScript, TLC configurations that check
small instances, and proofs checked by TLAPS. Paths below are those of the
repository; `PROJECT.json` maps every definition to the lines it stands for.

## 1. The system

Several replicas of one process share a PostgreSQL database and, when
`REDIS_HOST` is set, one Redis. Each process runs JavaScript: a handler is
interrupted only where it awaits, so what interleaves are the stretches between
two awaits, the statements the database performs, the commands Redis performs,
and the moments at which their answers are handled.

| component | state it keeps | operations | what is hard |
|---|---|---|---|
| `AuthService` (`auth/auth.service.ts`) | rows of `sessions`, jti denylist in the cache | login, refresh, logout, logoutAll, changePassword, register, mass revocation | two refreshes of one token; a refresh that races a bulk revocation; row locks held across awaits in no common order; Redis failing halfway |
| `UsersService` (`users/users.service.ts`) | rows of `users`: password, `isActive`, `failedLoginAttempts`, `lockedUntil`; a 30 s copy in the cache | create, recordFailedLogin, resetFailedLogin, updatePassword, setActive, finders | decisions on a row read before `bcrypt.compare`; the cache call that follows a committed write |
| `UserAdminService` | none | setUserActive: setActive, then mass revocation | the two are not one transaction |
| `JwtStrategy`, `JwtAuthGuard` | the copy of the user in the cache | validate, handleRequest | a copy written back after an invalidation; entries of other replicas; denylist entries that must outlive tokens |
| `RbacService` (`modules/rbac/services/rbac.service.ts`) | cache entries in two tiers, `rbac:global:epoch`, and per process `invalidationEpoch` and `pendingRequests` | getPermissionsForRole, invalidateRoleCache, invalidateRoles, invalidateAllRoles | late SETs, a query shared by several callers, epochs of several replicas, fallbacks when Redis rejects, restarts |
| `RoleService`, `PermissionService`, `FeatureService` | rows of `roles`, `permissions`, `features`, `role_permissions` | create, update, remove, assignPermissions | invalidation after the commit; the roles to invalidate are asked for in a separate query; a test and the write it is for are separate statements |
| controllers, `PermissionGuard` | none | routes, canActivate | a route whose decorator is missing |
| `PurgeService` | rows of `sessions`, `audit_logs` | nightly batched deletes | several replicas, the end of the batch loop, rows in the middle of a rotation chain |
| `AuditInterceptor`, `AuditLogService`, `AuditLogProcessor` | the AsyncLocalStorage of a request, a BullMQ queue, rows of `audit_logs` | record, process with retries | nobody waits for a record; retries, stalled workers, lost answers |
| `GracefulShutdownService` | a timer | close the queue and the database | work still in flight; a queue that does not close |
| migrations, entities, seed | the schema | up and down of 14 migrations; the first rows | reverts that do not restore; columns the entities expect |
| health, configuration, logging, DTOs, throttler, wiring | none that changes | | |

Interactions: controllers call services; `AuthService` calls `UsersService` and
both write the sessions and users tables; the admin services commit and then call
`RbacService`; `PermissionGuard` calls `getPermissionsForRole` on every guarded
request; every mutation hands a record to `AuditLogService` without waiting for
it.

What makes each component correct:

- **sessions**: one login never owns two refreshable sessions; a family that was
  revoked stays closed; the two ends of a rotation agree, since they decide whether
  a revoked token is a reuse; a mass revocation covers every session that existed
  when it was asked for; nobody's session is revoked for somebody else; every
  handler answers.
- **lockout**: the number of wrong guesses has a bound, concurrency included.
- **permission cache**: an entry never promises an epoch it is older than; a check
  sees what its own replica has acknowledged; when nothing is being changed no
  accepted entry is stale; every check is answered.
- **access check**: a revoked token is refused everywhere; the copy a request is
  decided on is never older than it can be by the lives of the entries; a replica
  obeys what it has invalidated itself; nobody but the Super Admin reaches a handler
  that asks for a permission.
- **admin services**: a mutation invalidates every role whose strings it changed; names
  stay unique, references resolve and assignments do not mix, although each test is
  stale when its write is done.
- **schema**: migrations apply and revert in any order they can be asked to; the
  tables fit the entities.
- **audit and shutdown**: a record speaks of its own request, is written at least once
  when it has reached the queue, and a second time only for a failure; a replica that is
  told to stop is gone in the end.

The hazards these are aimed at are in `PROJECT.json`, each at its line, with the
properties that cover it or the reason why none does yet.

## 2. Modules

```
SessionFamilies        what rotation promises (abstract)
  ^ implemented by
AuthSessions           sessions, users, denylist, handlers, purge, clock
  +- MCAuthSessions          symmetry for TLC
  +- AuthClaims              documented sentences a behaviour breaks
  +- AuthSessionsProofs      invariant, action properties, refinement, lockout (TLAPS)

RbacCache              getPermissionsForRole and invalidation on several replicas
  +- RbacCacheProofs         invariant, coherence, freshness (TLAPS)
  +- RbacAdmin               role, permission and feature mutations over the cache
       +- MCRbacAdmin        symmetry for TLC
       +- RbacAdminProofs    coherence and freshness of both together (TLAPS)

Routes                 handlers, guards and permissions; what the seed grants
  +- AccessCheck             JwtStrategy, the user's copy, the denylist, the guards, time
       +- AccessCheckProofs       token and cache lifetimes (TLAPS)
       +- MCAccessCheck      symmetry for TLC

Schema                 14 migrations, their reverts, the columns of the entities
  +- SchemaProofs            what no order of runs and reverts takes away (TLAPS)
  +- AdminRows               rows of the admin services, register and the seed
       +- AdminRowsProofs    schema, names, references, assignments (TLAPS, over SchemaProofs)
       +- MCAdminRows        one feature, two permissions, symmetry
            +- AdminClaims   a documented sentence the foreign keys break

AuditTrail             request context, interceptor, queue, workers, shutdown, purge
  +- AuditTrailProofs        what a record says, and how often it is there (TLAPS)
  +- MCAuditTrail            who calls what in the small instance
  +- AuditClaims             a documented sentence the interceptor breaks
```

### AuthSessions

A session is a number in order of creation. It stands for the row of `sessions`,
for the refresh token whose hash is in the row and for the jti of the access token
issued with it; the code never compares the three with anything else.

| model | code |
|---|---|
| `state` active / revoked / absent | `revoked_at` NULL / set / no row |
| `rotatedFrom`, `rotatedTo` | `rotated_from_session_id`, `rotated_to_session_id` |
| `lock` | row locks of a transaction (refresh) or of a running UPDATE |
| `age` 0, 1, 2 | both tokens live; access token expired; refresh token and row expired |
| `deny` | `jti:` keys; their 15 minutes outlive the token, so they are never removed |
| `failedLoginAttempts`, `locked` | the columns, the second compared with the clock |
| `pc`, `job`, `todo` | where a handler is, its local variables, rows its UPDATE has to visit |
| `root`, `cred`, `job.mark` | history for the properties; no action reads them |

One action is the code from one await to the next. What that means for each handler:

- `Login`, then `RecordFailedLogin` or `ResetFailedLogin`, then
  `CreateTokensAndSession`: the user row is read, bcrypt runs, and what follows
  acts on the row as it was read.
- `Refresh` verifies the token; `RefreshLock`, `RefreshReuse` and `RefreshRefused`
  are the outcomes of SELECT ... FOR UPDATE and of the tests under the lock;
  `RefreshUser` reads the user without a lock; `RefreshRotate` inserts, links and
  commits. A denied user or a reuse goes on to the mass revocation **inside** the
  transaction, so it keeps its row lock while the bulk UPDATE waits for others.
- `DenylistFind`, `DenylistSet`, `RevokeRow`, `RevokeCommit` are
  `revokeAllUserSessions`. The denylist writes run in parallel and a failure is
  swallowed, so any subset may have arrived. The UPDATE takes its snapshot, visits
  rows in no order, waits for locked rows and tests the condition again, as
  PostgreSQL does at READ COMMITTED. The step that ends the denylisting also takes
  the snapshot, since nothing is awaited between the two.
- `DenylistOwnJti`, `RevokeSessionByRefreshHash`: logout; logoutAll continues with
  the mass revocation.
- `UpdatePassword`, `SetActive`: the write and the unguarded `cache.del` after it.
- `Age`, `LockExpires`, `PurgeSessions`, `DbError`, `DeadlockVictim`: clock, purge,
  failing statements or a dying process, PostgreSQL's deadlock detection.

Early rejections that change nothing (unknown account, bad signature, inactive user)
are stutters and have no action. `JwtStrategy` also looks at the user row, through a
copy that may be 30 s old: this model lets the request through whatever the row
says, which is more than the code allows; AccessCheck has the copy. Users are never deleted by the program.
`BoundReached` is not in the code: it lets a handler that has reached a bound of
the instance end, so that bounds do not look like deadlocks.

### RbacCache

The permissions of a role are abstracted to a version that grows with every
committed change of its rows. An entry is a role, the epoch it is tagged with and
the version it holds.

| model | code |
|---|---|
| `epoch` | `rbac:global:epoch`; 0 is the missing key |
| `l1[p]`, `l2` | the in-process and the Redis tier of `buildCacheStores` |
| `sets[p]` | SETs on their way, for which nobody waits |
| `local[p]` | `invalidationEpoch` |
| `pending[p][k]` | `pendingRequests`: the fetch other callers join |
| `rpc`, `rdr` | calls of `getPermissionsForRole` |
| `wpc`, `wtr` | mutations between their commit and their answer |
| `at`, `acked`, `rdr.seen` | history for the properties |

A command to Redis and the handling of its answer are two steps, because both an
INCR and a GET can be overtaken by other replicas in between; one connection
answers in order (`InOrder`). The send of a GET is merged with its performance,
and the lookup in L1 and L2 is one step: nothing depends on the moments between.
`cached.epoch === currentEpoch`, the snapshot of `invalidationEpoch`, the write that
is skipped when it moved, the `finally` clause that deletes the key whoever put it
there, and the two fallbacks to the local epoch are all there. The second branch of
`currentEpoch ?? await getGlobalEpoch()` is dead, since `getGlobalEpoch` never
throws. `cachedRoleKeys` is only logged. A deployment without Redis is one replica
whose INCR answers at once, a special case of the model.

### RbacAdmin

Extends the cache with one permission and the roles that hold it. `ChangeRole` is
`assignPermissions` (and the invalidations of role update and removal),
`ChangeFeature` is update and removal of its feature, which invalidates all roles.
`UpdatePermission` commits and then asks for the roles; `RemovePermission` asks for
the roles and then deletes (`SafeDelete`), as `permission.service.ts` does, in
separate statements. An empty list of roles invalidates nothing.

### AccessCheck and Routes

One user, tokens of that user, two tiers of cache on several replicas, and a clock that
ticks; the lives of tokens (15 minutes), denylist entries (as long) and copies (30 s) are
numbers of ticks.

| model | code |
|---|---|
| `row` | `is_active`, `locked_until` compared with the clock, `role_id` |
| `l1[r].copy`, `redis.copy` | `user:<id>` in the two tiers |
| `denied` | `jti:<jti>`, with the ticks it has left |
| `life` | until an access token expires |
| `req[c].step` | the reads of `validate`: denylist, copy, row, `set`, then the tests of the strategy, of `handleRequest` and of `PermissionGuard` |
| `adm` | a write of the row, then `cache.del`, then the denylist of a deactivation |
| `since`, `settled`, `out`, `req.revoked` ... | history for the properties |

A read that finds Redis unreachable is a miss or a rejected call, whichever the client
makes of it; a write then reaches the memory of its own replica only. `Refresh` issues
a new token under the name of an expired one, so that a finite set of tokens suffices.
`CanActivate` asks what the seed has granted: a role's cached set is the subject of
RbacCache. `Routes` is the table of all handlers with `@Public`, `@UseGuards` and the
permission of `RbacEndpoint` or `RequirePermissions`.

### Schema and AdminRows

A schema is a set of columns, one of indexes and unique constraints, and one of foreign
keys with their `ON DELETE`. `Execute` is what PostgreSQL does with one statement;
`Migrations` and `Downs` are sequences of statements. `ExecuteAll` goes through such a
sequence, and what follows a refused statement is not executed; `Migrated` goes through the
migrations. `RunMigrations` executes all that are pending in one transaction,
`RevertMigration` the last one's down. The first state is a database on which any number of
them has been run.

`AdminRows` adds rows. Its actions look in `schema` for the constraint they meet, so a
migration that forgot one would show as a broken row. A call is its statements:
`CreateRole` then `InsertRole`, `UpdateRole` then `SaveRole`, `RemoveRole` then
`DeleteRole`, `AssignPermissions` then `CommitAssignment` (one SERIALIZABLE transaction:
it fails if the rows it deleted were changed by others), `Register` then `CreateUser`.
`SaveRole` has what TypeORM does with an entity that was read earlier: it inserts a row
that has gone, and detaches rows of `role_permissions` it has not read, which
fails. Errors are answers and leave no trace in the model. `SeedRbac` runs while the
service is stopped. Bound: migrations run only while the tables are empty (`Migrate`).

### AuditTrail

| model | code |
|---|---|
| `pc`, `req`, `ctx` | a request, and its store in `RequestContext` |
| `payload`, `call` | what `AuditLogService.log` was given, and where its promise is |
| `job`, `starts`, `fails`, `stalls`, `owner` | the BullMQ job: attempts, stalled count, lock |
| `audit_logs[<<r, n>>]` | the record written by the n-th start of r's job; 0 without Redis |
| `work[p]` | what the worker of a replica does |
| `proc[p]`, `timer[p]` | the shutdown hooks and `forceExitTimer` |
| `purge[p]` | `deleteInBatches` on the rows older than the cutoff |

`Succeed` answers the request and begins the call of `log`, whose outcome nobody
awaits. `Process` may commit and fail all the same (the answer of the INSERT is lost);
`Stall` gives a job away whose worker still runs. BullMQ is modelled from its documented
behaviour with the options `audit-log.service.ts` gives it: three attempts, one stall.
`Enqueue` waits for Redis, because the connection of a BullMQ queue retries for ever.
A process ends by its hooks, by the timer or by a crash, and is started again.

## 3. Runs

With two workers most runs take less than a minute; `auth_purge` and `audit_trail` take the
longest, up to four minutes on a machine that is shared.

| run | question | instance |
|---|---|---|
| `auth_purge` | do the ends of a rotation agree; is the invariant of the proofs an invariant | 2 requests, 3 sessions, login, refresh, logout, purge, tokens expire, database fails |
| `auth_revocation` | can a login have two live sessions; can a closed family reopen; is only the owner's session revoked; does a mass revocation cover what existed | 2 users, 2 requests, 3 sessions, refresh, logout with any token, logoutAll, Redis fails |
| `auth_liveness` | is every call answered; how many wrong guesses | 2 requests, 2 sessions, right and wrong logins, refresh, password change, deactivation; the lockout ends once |
| `rbac_coherence` | does an entry hold what its tag says; does a check see what its replica has answered; is the invariant of the proofs an invariant | 2 replicas, 2 checks, 1 removal, Redis fails, expiry, restarts |
| `rbac_admin` | is an accepted entry fresh when nothing is being changed | 2 replicas, 1 check, 2 mutations at a time, 2 changes |
| `rbac_liveness` | is every check answered | 2 checks, 1 mutation, every fault |
| `access` | is a revoked token refused; how old is what a request is decided on; who reaches which handler | 2 replicas, 1 request and 1 change at a time, 1 token of 2 ticks, copies of 1 tick, a request takes at most 1 tick; deactivation, lockout, loss of the role, logout; Redis fails, restarts |
| `tables` | do migrations apply, revert and fit; does a service that runs have the constraints it relies on; do names, references and grants survive concurrent calls | every release to start from; 2 roles and names, 2 permissions of 1 feature, 1 user, 2 calls at a time |
| `audit_trail` | does a record speak of its request; how often is it written; is it written in the end; does a purge clear; does a stop end | 1 replica, 2 requests, an audited mutation or a detected reuse beside a mutation without a record, up to 3 failures of any kind, with and without Redis, batches of 1, 1 night |
| `claim_*` | see section 5 | minimal |

Why these bounds are enough to be interesting. Every race of the session code is
between two requests on one row; three sessions give a login, its successor and
the successor of that, or two logins and a rotation; a purge needs three to delete
the middle of a chain. With a threshold of 1 a wrong guess beyond the threshold needs one
concurrent login, and a counter that survives a lockout needs the lockout to end. In the
cache, one change already separates old entries from new ones; two changes are needed
for an old SET to overtake a newer one (`rbac_admin`). Two replicas are needed for every
cross-replica race, and the third adds nothing the second does not, since replicas meet
only in Redis. `MaxSets` bounds the SETs of a replica that are in flight at once. The
instance of `rbac_coherence` has one permission and one role: which roles are invalidated
matters only for `pendingRequests`, as the epoch is global.

In `access` the write-back of a stale copy needs a request that reads the row before a
change and stores it after the invalidation, which one request does; that another request
is then decided on it is the same slot of `Requests` used again. A token must live
longer than a copy, since the mutant that gives a denylist entry the life of a copy is
otherwise right: hence 2 ticks and 1. Reactivation and `resetFailedLogin` are in the
module and left out of this instance; they change the row as the others do. In `tables` two
calls give each race between a test and a write. In `audit_trail` three failures suffice to
use up the attempts of a job, or to combine a lost answer, a stall and a crash; the second
request, whose handler is not decorated, is there so that two stores of the request context
are in use. With batches of one record, a job that was written twice needs a purge of two. One replica
restarts, stalls and loses its lock, but its workers and purges follow one another; those of
several replicas overlap in the proofs (section 4). With two replicas, one request, two nights
and two failures TLC agrees (20 seconds without the liveness properties).

Requests, readers, writers, replicas, roles and calls are symmetric in the safety
runs (their identity is only compared with itself); the runs with liveness use no
symmetry. The passing runs fire every action between them.

`CHECK_DEADLOCK FALSE` appears where the system may really stop: in `auth_liveness`, when the
account is locked or inactive and nothing else can be asked for, and in the audit
runs, when every request of the instance has been answered.

**Fairness.** `RequestsAnswered` assumes strong fairness of the handler of each
request. A Node process runs every ready continuation, and PostgreSQL serves the
waiters of a row lock in turn, so a handler that can go on again and again does.
Weak fairness would let a refresh wait for ever for a row that others lock and
release in turn, which the lock queue excludes. No fairness is assumed of clients,
the clock, the purge or failures. `ReadsAnswered` needs weak fairness of the steps of
a check and of the SETs in flight only: every answer of Redis and PostgreSQL, or the
error in its place, is handled in the end. Nothing is assumed of writers: a check
never waits for one. In `audit_trail`,
`AcceptedIsWritten` assumes strong fairness of BullMQ, as a whole, handing out and
requeueing jobs and of the workers, as a whole, finishing them: each job has finitely
many such steps, so progress of all is progress of each, and "strong" because an outage
may interrupt them again and again. It also assumes that outages end and that a process
that has ended is started again, which is what a supervisor is for. `ShutdownEnds` needs no
fairness of requests, of `queue.close()` or of the hooks: `Exit` by the timer is enabled
from the first hook on, and that `process.exit` is reached is its weak fairness.

## 4. Proofs

`AuthSessionsProofs` proves, for any users, any finite set of requests, bounds, operations and faults:

| theorem | statement |
|---|---|
| `AuthInvariant` | `Spec => []AuthInv` |
| `AuthTypeOK`, `AuthFamilySingleActive`, `AuthRotationLinked` | the parts of it that matter to a reader |
| `AuthMassRevocationCovers`, `AuthRevokedForItsOwner` | the two action properties |
| `AuthImplementsFamilies` | `Spec => Families!FamiliesSpec` |
| `AuthGuessesBounded` | `Spec => []GuessesBounded` |

The argument. None of the properties is inductive. Two live sessions of a family
are excluded because the request that inserts a successor holds the lock of the row
it rotates and has seen it active *under that lock*; so `AuthInv` says, for each
request, which locks it may hold at which point (`RequestInv`), that the row it is
about to rotate is locked by it and still active, and that every row below the
counter, and only those, has been used (`RowsBelowCount`: without it a new row could
already be somebody's successor). The last conjunct of `RequestInv` is the
argument for mass revocation: while the UPDATE runs, each active row of the user
that existed when the call arrived has either been locked by it or is still to be
visited; rotations cannot add one, because what they insert is younger than the
mark. `auth_purge` checks `AuthInv` with TLC. The proof has one lemma for each
action, and one step for each part of the invariant the action can disturb.

The refinement maps a family to the sessions that descend from one login and are
active. A login is `Open`, a rotation is `Advance`, revocations, logouts and the purge
are `Close`, everything else stutters; `Advance` needs `FamilySingleActive`, which
comes from the invariant.

`RbacCacheProofs` proves, for any replicas, roles, calls and bounds, of the `Spec` of `RbacCache`:

| theorem | statement | assumption on `Faults` |
|---|---|---|
| `CacheTypeOK` | `Spec => []TypeOK` | none |
| `CacheIsCoherent` | `Spec => []CacheCoherent` | no "incr" |
| `CacheInvariant` | `Spec => []CacheInv` | no "incr" |
| `CacheFreshOnOwnReplica` | `Spec => []FreshOnOwnReplica` | no "incr" |
| `CacheQuiescentFresh` | `Spec => []QuiescentFresh` | no "incr", no "restart" |

The argument, in the order in which the invariants need each other:

- *Coherence* (`CoherenceInv`). Nobody is ahead of the shared epoch, epochs are produced
  for versions that only grow, and rows that have been read are at least as new as the
  epoch the call had read before. The last is why the code tags an entry with the epoch
  it read *before* the query: tagged with the epoch at the time of the write, which is
  the mutant `NewestEpoch`, an entry would promise a change it missed.
- *What a replica owes to its own answers* (`LocalInv`, `SeenInv`, `PendingInv`,
  `JoinedInv`). The local epoch is at least that of every mutation the replica has
  answered and at most that of the replies it still waits for (`InOrder`), so a call
  that falls back to it is not behind. A fetch that can be joined has read, or will
  read, rows as new as the last answered mutation of its role, because
  `clearRoleCacheKey` removes the fetches that began earlier.
- *Rest* (`RestInv`, in the proof module). Nothing cached is newer than the database,
  and a change that the current epoch does not include has a writer that still owes its
  INCR. A replica that dies takes that debt with it, and a rejected INCR cancels it.

`rbac_coherence` checks `CacheInv` with TLC. The assumptions are needed: with two
replicas, two checks, two mutations and only the excluded fault allowed, TLC finds
each of the three properties violated; section 5 says how.

The assumptions are those the modules name: non-empty sets, `NoReq` and `NoReader`
outside the sets they mark the absence of, natural bounds, a positive threshold.

`RbacAdminProofs` carries this over to `AdminSpec`, in which the services do the changes
that the `Spec` of `RbacCache` only has in outline, for any roles, replicas, calls, bounds
and operations:

| theorem | statement | assumption |
|---|---|---|
| `AdminTypeOK` | `AdminSpec => []TypeOK` | none |
| `AdminInvariant`, `AdminCacheCoherent` | `AdminSpec => []CacheInv`, `[]CacheCoherent` | no "incr" in `Faults` |
| `AdminFreshOnOwnReplica` | `AdminSpec => []FreshOnOwnReplica` | no "incr" |
| `AdminQuiescentFresh` | `AdminSpec => []QuiescentFresh` | no "incr", "restart" or "roles", and `NoGrantBeforeDelete` |

The argument. A step of a service is a step of `RbacCache` or a *quiet* one: it moves its
own writer, lets versions grow and touches nothing else (`AdminSteps`), so that the parts
of `CacheInv` need one lemma each for the quiet steps. `RestInv` is not among those
parts, since between `UpdatePermission` and its query nobody owes an INCR for any
particular role. `AdminRest` replaces it: a change that the current epoch does not include
is owed by a writer that knows the role, or by one that is about to ask for the
roles while the role still holds the permission (`DebtsOwed`); a role that loses the
permission in between is owed for by the assignment that took it away. For
`PermissionService.remove` (`RemovalInv`) this works only if the answer of the query is
still complete when the row is deleted. `NoGrantBeforeDelete` says so in terms of the
instance: `Ops` does not contain both "role" and "permRemove". It is sharp: with both,
TLC finds `RemovePermission`, the query for the roles, `ChangeRole` giving the permission to
another role, and the DELETE, after which an accepted entry of that role still has it
(hazard at `permission.service.ts:65`). The faults are as needed: "incr" and "restart" as
above, and a query that fails leaves nobody to invalidate.

`AccessCheckProofs` proves, for any replicas, requests, tokens, lives of entries and
bound on the time a request takes, with every fault:

| theorem | statement | inductive invariant |
|---|---|---|
| `AccessTypes` | `Spec => []TypeOK` | itself |
| `RevokedRefused` | `Spec => []RevokedIsRefused` | `DenyInv` |
| `DecisionsAreRecent` | `Spec => []DecidedOnRecentRow` | `LagInv` |
| `InvalidatorIsFresh` | `Spec => []OwnReplicaIsFresh` | `FreshInv` |
| `SeedDecides` | `Spec => []RolesDecide` | the types |

The argument. `DenyInv`: the entry of a token that was reported as revoked lives at least as
long as the token, since both are counted down by the same ticks and the entry began later
with the full life of a token; so a request that comes afterwards and asks Redis
finds it. `LagInv` adds up lives: when a copy differs from the row, the time since the last
change and what is left of the copy together are at most one life of a copy and the time one
request takes, and a request that will still store a row it has read is behind it by at
most its own age. That sum is what survives a write-back after an invalidation. `FreshInv`
lists what a replica that has invalidated the last change can still meet; it counts as
`settled` only if no request was about to store an older row at that moment, since that row
would come back.

`AuditTrailProofs` proves, for any replicas, requests, batch size, number of stalls and bounds,
with every fault:

| theorem | statement |
|---|---|
| `AuditTypes`, `RecordsAreOfTheirRequest`, `NoOtherDuplicates` | `TypeOK`, `RecordsNameTheirRequest`, `DuplicatesAreRetries` |
| `CompletedLeavesRecord` | `Spec => []CompletedIsWritten` |
| `PurgeIsComplete` | `Spec => PurgeClears` |

The argument. Each start of a job has a slot of its own for a record, and BullMQ starts a job
once more than it has counted failures and stalls (`JobInv`); a worker writes only to
the slot of the start it was given, whether it still has the lock or not, and no two
workers have the same (`WorkInv`). So the records of a request lie in as many slots as there were
starts (`RecordInv`), and a bound on the slots is one on the records. Nothing is proved of a
worker that lost its lock except that it cannot complete the job: that is why a completed job
has left a record (`DoneInv`). For the purge, what the subquery has selected is the smaller of
`BatchSize` and what is left of the cutoff, as long as no other purge runs (`PurgeInv`): a batch
that is not full was all there was.

The lockout (section 10 of `AuthSessionsProofs`). A guess counts twice, when it passes the
lockout test and when it is recorded. While an account is locked no login passes the
test, so the recorded guesses and those that can still be recorded do not grow together
(`GuessInv`); the guess that sets the lock finds at most all requests in between.

`AdminRowsProofs` proves, for any roles, names, permissions, features, users and calls, and for
every order in which migrations are run and reverted before the service starts:

| theorem | statement |
|---|---|
| `RowsSchema`, `RowsInvariant` | `Spec => []SchemaInv`, `Spec => []RowsInv`, the inductive invariants |
| `RowsConstraintsInPlace`, `RowsEntitiesFit` | `Spec => []ConstraintsInPlace`, `Spec => []EntitiesFit` |
| `RowsNamesAreUnique`, `RowsReferencesResolve`, `RowsGrantsAreOneRequest` | `Spec => []...` of the same names |
| `RowsTypeOK` | `Spec => []TypeOK` |

The argument has two halves. *What the services leave to the database*: while the service
runs `roles.name` is unique and deletes cascade to `role_permissions` and clear
`users.role_id`. `SchemaProofs` shows it, and does not follow the schemas one by one. It
says what every database of release n has, however it got there (`Promised`): the columns of the
entities that some migration up to n adds, the name of a role and three foreign keys; that
the tables of later migrations do not exist; and that only the columns a save always gives
are required. Every statement of migration n and of its down is `Mild`: it takes away
nothing that release n - 1 and release n both promise (`MildSpares`). What release n promises
and n - 1 does not is given by one of its statements, and not taken by a later one (`Up`). A
revert has only to leave what release n - 1 promises, which is less, and to remove the tables
that are absent there (`Down`). The migrations create tables only if they do not exist,
which is why the absence of later tables has to be in the invariant: on a table that exists
such a statement gives nothing.

`ExecuteAll` and `Migrated` are recursive functions, and what they go through is a list, so
the proof needs induction. The library's induction theorems take an operator, which the provers cannot
instantiate, but `WFMin`, that a well-founded order has minimal elements, takes a set: from it
follows that a set with m in it and closed under the successor up to n contains m .. n
(`IntervalInduction`), which gives the existence of the recursive functions and what holds all
along them.

*Rows.* All that a call knows from its test is stale when its statement runs, so `RowsInv` says
almost nothing of what calls have read. What it needs is that a call whose transaction
the database has not marked as changed has seen the rows it is about to delete (`Sound`),
that users without a row have no role, and that every statement that deletes takes the
referring rows along in the same step. The last is where it rests on the first half.

The assumptions are those the modules name: non-empty sets, a finite set of requests, values
that mark an absence outside the sets they are absent from, natural bounds, a positive
threshold, positive lives of tokens and copies.

Only model-checked: `RequestsAnswered`, `ReadsAnswered`, `AcceptedIsWritten` and
`ShutdownEnds`, since liveness under fairness is beyond the prover; and of `tables`
`MigrationsApply` and `SchemaOfRelease`. These two say what exactly a schema is, or that no statement
of a long list is refused, which depends on every column, index and key at each of
the 14 releases. The chain has no parameter to generalise over; once a database is at a
release only finitely many schemas can come of it, and TLC goes through all of them. The
theorems above do not rest on either: a migration that is refused changes nothing in the model.

## 5. Where the code and its documentation disagree

Each of these runs ends in a counterexample; the quoted sentences are in
`PROJECT.json`.

- `claim_password`: a refresh that has locked its row and read the user when
  `changePassword` takes the snapshot of its UPDATE inserts a successor nobody
  revokes. The documentation says all active sessions are revoked. A login whose
  password was compared before the change has the same effect.
- `claim_audit_entity`: for the id of the mutated entity the interceptor takes the id of
  the first argument, "args[0]", which in an HTTP context is the request. Its `id` is the
  correlation id, so the record of `DELETE roles/:id`, which returns nothing, carries that.
- `claim_deletes`: the API documentation says that deleting an assigned permission fails;
  the foreign keys cascade, so it succeeds and the roles lose the permission. The same holds of
  features and their permissions.

Met while modelling and not given a run (they need no interleaving, or a sentence of
the documentation promises too little to settle them):

- a rotated refresh token that is presented again is refused without revoking
  (`docs/en/authentication.md:36` reads otherwise, `auth.service.spec.ts:414` expects the code);
- `resetFailedLogin` clears `lockedUntil` unconditionally, so a login that read the user
  before the lock was set ends the lockout (`docs/en/authentication.md:45` has no exception);
- `revokeAllUserSessions` protects the database revocation from a failing Redis, but
  `logoutAll` awaits its own denylist write first and unguarded;
- the roles of a permission are asked for before it is deleted: one that receives it in
  between, or an empty list, is not invalidated (`QuiescentFresh` with "permRemove" and "role"
  in `Ops`);
- a copy of the user can let a deactivated user in for up to `Staleness`
  ticks, where `docs/en/security.md:31` says 401 on any authenticated request;
- `SoftDeletePartialUniqueEmail` drops `users_email_key`, but TypeORM named the
  constraint otherwise; its revert adds a second one; `CorrectiveIndexes.down` does not
  bring back the two partial indexes (`Leftovers` in Schema);
- an unknown permission or role ends in an unmapped 23503, a feature's key in use in an unmapped
  23505: the API documents a 404 and a 409;
- a handler that throws after its commit (a rejected `cache.del` in `setActive`) is
  not audited, where the interceptor says "mutation did not occur";
- features and permissions are changed without `@Auditable`;
- an `X-Correlation-Id` that is not a UUID makes PostgreSQL refuse the record;
- `seedRbac` invalidates no cache, and run beside the service could leave a mixed set of grants;
- a login in flight creates a session for a user deactivated meanwhile;
- `logoutAll` does not denylist the access token of a session rotated less than 15
  minutes ago, whose row is revoked already;
- `pendingRequests` is cleared on the replica that made a change only: elsewhere a
  check can join a query begun before it;
- after a rejected INCR nothing invalidates the entries until `RBAC_CACHE_TTL`; the local
  count that replaces it can even meet a later shared epoch, so `CacheCoherent`,
  `QuiescentFresh` and `FreshOnOwnReplica` exclude the fault "incr";
- the same holds for a replica that dies between commit and INCR ("restart" with
  `QuiescentFresh`) and for an update whose query for the roles fails ("roles").

## 6. Not modelled, and the plan

Not modelled, and why:

- DTO validation, Swagger, logging, configuration parsing, health pings, the
  throttler's key, wiring, pagination: no state, or pure I/O; cryptography of tokens.
- the contents of an audit record beyond actor, correlation id and entity; types and
  lengths of columns; the administrator account of the seed.
- several access checks at once on one replica beyond what one slot of `Requests`, used
  again and again, can do (the state space of two slots is beyond five minutes).
- rows while migrations run: what a revert does to data (granted = false turns into a
  grant when `DropRolePermissionGranted` is reverted).
- `isActive` of roles and features: stored and filtered on in lists, but no decision of the
  code reads it.
- Redis losing its data, and with it the epoch and the denylist.

The plan, in order of importance:

1. **Composition**: AccessCheck over RbacCache, with an abstract permission cache that
   RbacCache is shown to implement.
2. Redis losing its data as a fault of RbacCache and AccessCheck.
