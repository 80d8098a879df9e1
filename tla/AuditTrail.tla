----------------------------- MODULE AuditTrail -----------------------------
(***************************************************************************)
(* How a mutation gets its audit record: the request context, the           *)
(* AuditInterceptor and the calls AuthService makes itself, AuditLogService *)
(* with its BullMQ queue or, without Redis, its direct INSERT, the          *)
(* AuditLogProcessor of every replica, GracefulShutdownService, and the     *)
(* audit half of PurgeService.                                              *)
(*                                                                         *)
(* Nobody waits for AuditLogService.log: the request is answered while the  *)
(* call is under way.  A job is named after the request it speaks of, and   *)
(* the record <<r, n>> is the one written by the n-th start of r's job      *)
(* (n = 0 for a direct INSERT).                                             *)
(***************************************************************************)
EXTENDS Naturals, FiniteSets

CONSTANTS
  Replicas,     \* processes; each has a worker, whose concurrency is 1
  Requests,
  Users,
  Nobody,       \* "no actor"
  Kinds,        \* the handlers that a request of this instance may call
  Deployments,  \* with Redis (TRUE), without (FALSE), or both
  MaxStalls,    \* maxStalledCount of BullMQ, 1 unless configured
  BatchSize,    \* PURGE_BATCH_SIZE
  MaxNights,    \* bound: purges
  MaxFaults,    \* bound: failures of all kinds together, and processes told to stop
  Faults        \* what may go wrong

ASSUME NobodyAssumption     == Nobody \notin Users
ASSUME PopulationAssumption ==
  Replicas # {} /\ Requests # {} /\ IsFiniteSet(Requests) /\ Users # {}
Handlers == {"updateRole", "deleteRole", "updateFeature", "login", "reuse"}

ASSUME KindsAssumption      == Kinds \in [Requests -> SUBSET Handlers]
ASSUME DeploymentAssumption == Deployments \subseteq BOOLEAN
\* validation.schema.ts refuses a PURGE_BATCH_SIZE below 1.
ASSUME BatchAssumption      == BatchSize \in Nat \ {0} /\ MaxStalls \in Nat
ASSUME BoundsAssumption     == MaxNights \in Nat /\ MaxFaults \in Nat
\* "redis": an outage, a command that is rejected, the lock of a job that is not
\* renewed; "db": a statement fails, or commits and its answer is lost; "crash": a
\* replica dies; "stop": it gets a SIGTERM; "header": a client sends a correlation
\* id that is not a UUID.
ASSUME AuditFaultsAssumption ==
  Faults \subseteq {"redis", "db", "crash", "stop", "header"}

DefaultAttempts == 1
\* Of a job: `attempts` in AuditLogService.log.
Attempts == 3
Records  == Requests \X (0 .. Attempts + MaxStalls)

VARIABLES
  \* the requests
  pc,         \* how far the request is
  req,        \* its handler, replica, caller and correlation id
  ctx,        \* its store in the AsyncLocalStorage of RequestContext
  payload,    \* what log was asked to record
  call,       \* how far the call of log is
  \* the queue in Redis
  job, starts, fails, stalls,
  owner,      \* the replica whose lock is on the job
  \* PostgreSQL
  audit_logs, \* each record is "none", "kept" or "purged"
  \* each replica
  proc, timer,  \* lifecycle, and forceExitTimer
  work,         \* the job its worker processes
  purge,        \* runAuditPurge
  \* the environment
  redisUp, queued, nights, faults

reqVars   == <<pc, req, ctx>>
logVars   == <<payload, call>>
queueVars == <<job, starts, fails, stalls, owner>>
procVars  == <<proc, timer>>
envVars   == <<redisUp, queued, nights>>
vars == <<reqVars, logVars, queueVars, audit_logs, procVars, work, purge, envVars, faults>>
-----------------------------------------------------------------------------
Public(k)    == k \in {"login", "reuse"}
Auditable(k) == k \in {"updateRole", "deleteRole"}
\* Handlers that call log themselves and are not @Auditable.
Manual(k)    == k \in {"login", "reuse"}

AnyReplica == CHOOSE p \in Replicas : TRUE
AnyRequest == CHOOSE r \in Requests : TRUE
NoRequest  == [kind |-> "updateRole", at |-> AnyReplica,
               caller |-> CHOOSE u \in Users : TRUE, uuid |-> TRUE]
EmptyStore(r) == [correlation |-> r, user |-> Nobody]
NoPayload(r)  == [actor |-> Nobody, correlation |-> r, entity |-> "none"]
NoWork     == [job |-> AnyRequest, start |-> 0, stage |-> "idle"]
NoPurge    == [step |-> "off", cutoff |-> {}, batch |-> {}, alone |-> TRUE]

InFlight == {"guards", "handler", "committed"}
Alive(p) == proc[p] # "exited"
\* The TypeORM pool of p accepts statements.
Open(p)  == proc[p] \in {"up", "stopping", "closing", "destroying"}
\* PostgreSQL accepts the record: correlation_id is a uuid column.
Storable(r) == req[r].uuid

Init ==
  /\ pc = [r \in Requests |-> "idle"] /\ req = [r \in Requests |-> NoRequest]
  /\ ctx = [r \in Requests |-> EmptyStore(r)]
  /\ payload = [r \in Requests |-> NoPayload(r)]
  /\ call = [r \in Requests |-> "none"]
  /\ job = [r \in Requests |-> "none"]
  /\ starts = [r \in Requests |-> 0] /\ fails = [r \in Requests |-> 0]
  /\ stalls = [r \in Requests |-> 0] /\ owner = [r \in Requests |-> AnyReplica]
  /\ audit_logs = [x \in Records |-> "none"]
  /\ proc = [p \in Replicas |-> "up"] /\ timer = [p \in Replicas |-> FALSE]
  /\ work = [p \in Replicas |-> NoWork] /\ purge = [p \in Replicas |-> NoPurge]
  /\ redisUp = TRUE /\ queued \in Deployments /\ nights = 0 /\ faults = 0

\* Nothing goes wrong in the step, or something does.
Well      == UNCHANGED faults
Fault(f)  == f \in Faults /\ faults < MaxFaults /\ faults' = faults + 1
-----------------------------------------------------------------------------
(* The request.                                                             *)

RequestTo(r, step) ==
  /\ pc' = [pc EXCEPT ![r] = step]
  /\ UNCHANGED <<queueVars, audit_logs, procVars, work, purge, envVars>>

\* CorrelationIdMiddleware: a store of its own for everything the request awaits.
Arrive(r, p, k, u, valid) ==
  /\ pc[r] = "idle" /\ proc[p] = "up"
  /\ IF valid THEN Well ELSE Fault("header")
  /\ req' = [req EXCEPT ![r] = [kind |-> k, at |-> p, caller |-> u, uuid |-> valid]]
  /\ ctx' = [ctx EXCEPT ![r] = EmptyStore(r)]
  /\ RequestTo(r, "guards") /\ UNCHANGED logVars

SharedStore(r) ==
  LET others == {q \in Requests \ {r} : pc[q] \in InFlight} IN
  ctx[IF others = {} THEN r ELSE CHOOSE q \in others : TRUE]
\* asyncLocalStorage.getStore()
Store(r) == ctx[r]

\* JwtAuthGuard lets a @Public handler through, otherwise JwtStrategy.validate
\* enters the user into the store.
Guards(r) ==
  /\ pc[r] = "guards"
  /\ ctx' = IF Public(req[r].kind) THEN ctx ELSE [ctx EXCEPT ![r].user = req[r].caller]
  /\ RequestTo(r, "handler") /\ UNCHANGED <<req, logVars>> /\ Well

Commit(r) ==
  /\ pc[r] = "handler"
  /\ RequestTo(r, "committed") /\ UNCHANGED <<req, ctx, logVars>> /\ Well

\* A guard refuses, or the handler throws: before its mutation, or after it when a
\* later await of it rejects.  The interceptor records nothing.  (A handler that
\* logs by itself awaits nothing between its commit and the call.)
Throw(r) ==
  /\ pc[r] \in {"guards", "handler", "committed"}
  /\ pc[r] = "committed" => ~Manual(req[r].kind)
  /\ RequestTo(r, "refused") /\ UNCHANGED <<req, ctx, logVars>> /\ Well

\* The id in the result, or else the id of the first argument.  The first argument
\* of a handler of the HTTP server is the request, and its id the correlation id.
ResolveEntityId(r) == IF req[r].kind = "updateRole" THEN "target" ELSE "request"

\* An actor that is left undefined is the user of the store, null stays null.
ActorOf(r) ==
  CASE req[r].kind = "login" -> req[r].caller
    [] req[r].kind = "reuse" -> Nobody
    [] OTHER                 -> Store(r).user

BuildPayload(r) ==
  [actor |-> ActorOf(r), correlation |-> Store(r).correlation,
   entity |-> IF Manual(req[r].kind) THEN "target" ELSE ResolveEntityId(r)]

\* The part of AuditLogService.log that runs before its first await.
Log(r) ==
  /\ payload' = [payload EXCEPT ![r] = BuildPayload(r)]
  /\ call' = [call EXCEPT ![r] = IF queued THEN "adding" ELSE "persisting"]

\* The handler returns: the interceptor's tap, then the answer.
Succeed(r) ==
  /\ pc[r] = "committed" /\ ~Manual(req[r].kind)
  /\ IF Auditable(req[r].kind) THEN Log(r) ELSE UNCHANGED logVars
  /\ RequestTo(r, "answered") /\ UNCHANGED <<req, ctx>> /\ Well

\* login_success before the answer; refresh_token_reuse_detected before the 401.
LogFireAndForget(r) ==
  /\ pc[r] = "committed" /\ Manual(req[r].kind)
  /\ Log(r)
  /\ RequestTo(r, IF req[r].kind = "login" THEN "answered" ELSE "refused")
  /\ UNCHANGED <<req, ctx>> /\ Well
-----------------------------------------------------------------------------
(* AuditLogService.log, after its first await.                              *)

CallTo(r, step) ==
  /\ call' = [call EXCEPT ![r] = step]
  /\ UNCHANGED <<reqVars, payload, starts, fails, stalls, owner, procVars, work, purge,
                 envVars>>

AfterAddAlsoPersist == "persisting"
\* `return` after the add
AfterAdd == "done"

\* auditQueue.add: with maxRetriesPerRequest null it waits for Redis to be back.
Enqueue(r) ==
  /\ call[r] = "adding" /\ redisUp /\ proc[req[r].at] \in {"up", "stopping", "closing"}
  /\ job' = [job EXCEPT ![r] = "waiting"]
  /\ CallTo(r, AfterAdd) /\ UNCHANGED audit_logs /\ Well

PersistFromPayload(r) ==
  /\ call[r] = "persisting" /\ Open(req[r].at) /\ Storable(r)
  /\ audit_logs' = [audit_logs EXCEPT ![<<r, 0>>] = "kept"]
  /\ CallTo(r, "done") /\ UNCHANGED job /\ Well

\* The catch of log: an error is logged and nothing else happens.
LogFails(r) ==
  /\ \/ call[r] = "adding" /\ Fault("redis")
     \/ call[r] = "adding" /\ proc[req[r].at] \notin {"up", "stopping"} /\ Well
     \/ call[r] = "persisting" /\ Fault("db")
     \/ call[r] = "persisting" /\ (~Storable(r) \/ ~Open(req[r].at)) /\ Well
  /\ CallTo(r, "lost") /\ UNCHANGED <<job, audit_logs>>
-----------------------------------------------------------------------------
(* AuditLogProcessor, and what BullMQ does around it.                       *)

JobTo(r, step) ==
  /\ job' = [job EXCEPT ![r] = step]
  /\ UNCHANGED <<reqVars, logVars, audit_logs, procVars, purge, envVars>>

\* The worker of p takes a job and its lock.
Take(p, r) ==
  /\ job[r] = "waiting" /\ redisUp /\ queued
  /\ proc[p] \in {"up", "stopping", "closing", "destroying"} /\ work[p].stage = "idle"
  /\ work' = [work EXCEPT ![p] = [job |-> r, start |-> starts[r] + 1, stage |-> "inserting"]]
  /\ starts' = [starts EXCEPT ![r] = @ + 1] /\ owner' = [owner EXCEPT ![r] = p]
  /\ JobTo(r, "active") /\ UNCHANGED <<fails, stalls>> /\ Well

Accepted(p) == Open(p) /\ Storable(work[p].job)

NotAwaited(p) == TRUE
\* await persistFromPayload(job.data)
Resolves(p) == Accepted(p)

\* What becomes of the record, and what the worker learns.
Process(p) ==
  LET written == audit_logs' = [audit_logs EXCEPT ![<<work[p].job, work[p].start>>] = "kept"]
      learns(outcome) == work' = [work EXCEPT ![p].stage = outcome]
  IN
  /\ work[p].stage = "inserting"
  /\ \/ /\ Resolves(p) /\ learns("inserted") /\ Well
        /\ IF Accepted(p) THEN written ELSE UNCHANGED audit_logs
     \/ ~Accepted(p) /\ UNCHANGED audit_logs /\ learns("failed") /\ Well
     \/ /\ Fault("db") /\ learns("failed")
        /\ UNCHANGED audit_logs \/ (Accepted(p) /\ written)
  /\ UNCHANGED <<reqVars, logVars, queueVars, procVars, purge, envVars>>

\* p works on the start of r that has the lock.
Holds(p, r) ==
  /\ job[r] = "active" /\ owner[r] = p
  /\ work[p].stage # "idle" /\ work[p].job = r /\ work[p].start = starts[r]

\* The worker reports; a worker that has lost its lock is not listened to.
Report(p) ==
  LET r == work[p].job IN
  /\ work[p].stage \in {"inserted", "failed"} /\ redisUp
  /\ work' = [work EXCEPT ![p] = NoWork]
  /\ IF ~Holds(p, r) THEN JobTo(r, job[r]) /\ UNCHANGED fails
     ELSE IF work[p].stage = "inserted" THEN JobTo(r, "completed") /\ UNCHANGED fails
     ELSE /\ fails' = [fails EXCEPT ![r] = @ + 1]
          /\ JobTo(r, IF fails'[r] < Attempts THEN "delayed" ELSE "failed")
  /\ UNCHANGED <<starts, stalls, owner>> /\ Well

\* The exponential backoff is over.
Backoff(r) ==
  /\ job[r] = "delayed" /\ redisUp
  /\ JobTo(r, "waiting") /\ UNCHANGED <<starts, fails, stalls, owner, work>> /\ Well

AlwaysRequeued(r) == TRUE
StallsLeft(r) == stalls[r] < MaxStalls

\* The lock of an active job ran out, since its worker died or could not renew it.
Stall(r) ==
  /\ job[r] = "active" /\ redisUp
  /\ IF Holds(owner[r], r) THEN Fault("redis") ELSE Well
  /\ stalls' = [stalls EXCEPT ![r] = @ + 1]
  /\ JobTo(r, IF StallsLeft(r) THEN "waiting" ELSE "failed")
  /\ UNCHANGED <<starts, fails, owner, work>>
-----------------------------------------------------------------------------
(* GracefulShutdownService, and the end of a process.                       *)

ProcTo(p, step) ==
  /\ proc' = [proc EXCEPT ![p] = step]
  /\ UNCHANGED <<queueVars, audit_logs, envVars>>

KeepsRunning == UNCHANGED <<reqVars, logVars, work, purge>>

TimerForgotten(p) == timer
TimerArmed(p) == [timer EXCEPT ![p] = TRUE]

\* SIGTERM reaches beforeApplicationShutdown; the server takes no more requests.
BeforeApplicationShutdown(p) ==
  /\ proc[p] = "up" /\ Fault("stop")
  /\ timer' = TimerArmed(p)
  /\ ProcTo(p, "stopping") /\ KeepsRunning

\* When the last request is answered: onApplicationShutdown, up to queue.close().
OnApplicationShutdown(p) ==
  /\ proc[p] = "stopping" /\ \A r \in Requests : req[r].at = p => pc[r] \notin InFlight
  /\ ProcTo(p, IF queued THEN "closing" ELSE "destroying")
  /\ KeepsRunning /\ UNCHANGED timer /\ Well

\* close() waits for Redis, or rejects and the DataSource is left alone.
QueueClosed(p) ==
  /\ proc[p] = "closing" /\ redisUp
  /\ ProcTo(p, "destroying")
  /\ KeepsRunning /\ UNCHANGED timer /\ Well

\* The finally clause, after dataSource.destroy() or an error.
Finished(p) ==
  /\ \/ proc[p] = "destroying" /\ Well
     \/ proc[p] = "closing" /\ Fault("redis")
  /\ timer' = [timer EXCEPT ![p] = FALSE]
  /\ ProcTo(p, "finished") /\ KeepsRunning

\* What ends with the process: its requests, its calls, its job and its purge.
Exits(p) ==
  /\ proc' = [proc EXCEPT ![p] = "exited"] /\ timer' = [timer EXCEPT ![p] = FALSE]
  /\ pc' = [r \in Requests |->
              IF req[r].at = p /\ pc[r] \in InFlight THEN "dropped" ELSE pc[r]]
  /\ call' = [r \in Requests |->
              IF req[r].at = p /\ call[r] \in {"adding", "persisting"} THEN "lost" ELSE call[r]]
  /\ work' = [work EXCEPT ![p] = NoWork] /\ purge' = [purge EXCEPT ![p] = NoPurge]
  /\ UNCHANGED <<req, ctx, payload, queueVars, audit_logs, envVars>>

\* Nest kills the process when the hooks have returned; the timer calls exit(1).
Exit(p) == /\ proc[p] = "finished" \/ timer[p]
           /\ Exits(p) /\ Well

Crash(p) == Alive(p) /\ Fault("crash") /\ Exits(p)

Start(p) ==
  /\ proc[p] = "exited" /\ ProcTo(p, "up")
  /\ KeepsRunning /\ UNCHANGED timer /\ Well

RedisOutage ==
  /\ queued /\ IF redisUp THEN Fault("redis") ELSE Well
  /\ redisUp' = ~redisUp
  /\ UNCHANGED <<reqVars, logVars, queueVars, audit_logs, procVars, work, purge, queued, nights>>
-----------------------------------------------------------------------------
(* PurgeService.runAuditPurge                                               *)

PurgeTo(p, q) ==
  /\ purge' = [purge EXCEPT ![p] = q]
  /\ UNCHANGED <<reqVars, logVars, queueVars, procVars, work, envVars>>

Kept == {x \in Records : audit_logs[x] = "kept"}
Others(p) == {q \in Replicas \ {p} : purge[q].step # "off"}

\* The same cron expression on every replica; the records of cutoff are those that
\* are past AUDIT_RETENTION_DAYS.
HandleAuditPurgeCron(p) ==
  /\ proc[p] = "up" /\ purge[p].step = "off" /\ nights < MaxNights
  /\ \E old \in SUBSET Kept : purge' = [q \in Replicas |->
       IF q = p THEN [NoPurge EXCEPT !.step = "select", !.cutoff = old, !.alone = Others(p) = {}]
       ELSE [purge[q] EXCEPT !.alone = purge[q].step = "off"]]
  /\ nights' = nights + 1 /\ Well
  /\ UNCHANGED <<reqVars, logVars, queueVars, audit_logs, procVars, work, redisUp, queued>>

\* DELETE ... WHERE id IN (SELECT ... LIMIT :batch): what the subquery sees,
SelectBatch(p) ==
  LET candidates == purge[p].cutoff \intersect Kept IN
  /\ purge[p].step = "select" /\ Open(p)
  /\ \E b \in SUBSET candidates :
       /\ Cardinality(b) = (IF Cardinality(candidates) < BatchSize
                            THEN Cardinality(candidates) ELSE BatchSize)
       /\ PurgeTo(p, [purge[p] EXCEPT !.step = "delete", !.batch = b])
  /\ UNCHANGED audit_logs /\ Well

LastUnlessMore(affected) == affected <= BatchSize
\* affected < this.batchSize
LastBatch(affected) == affected < BatchSize

\* and what is still there once the locks of the rows are held.
DeleteBatch(p) ==
  LET deleted == purge[p].batch \intersect Kept IN
  /\ purge[p].step = "delete" /\ Open(p)
  /\ audit_logs' = [x \in Records |-> IF x \in deleted THEN "purged" ELSE audit_logs[x]]
  /\ PurgeTo(p, [purge[p] EXCEPT
       !.step = IF LastBatch(Cardinality(deleted)) THEN "off" ELSE "select", !.batch = {}])
  /\ Well

\* "Audit purge failed" is logged, and the next night begins anew.
PurgeFails(p) ==
  /\ purge[p].step # "off" /\ IF Open(p) THEN Fault("db") ELSE Well
  /\ PurgeTo(p, NoPurge) /\ UNCHANGED audit_logs
-----------------------------------------------------------------------------
Handle(r) ==
  Alive(req[r].at) /\ (Guards(r) \/ Commit(r) \/ Throw(r) \/ Succeed(r) \/ LogFireAndForget(r))
LogStep(r) == Alive(req[r].at) /\ (Enqueue(r) \/ PersistFromPayload(r) \/ LogFails(r))
PurgeStep(p) == SelectBatch(p) \/ DeleteBatch(p) \/ PurgeFails(p)
ShutdownStep(p) == OnApplicationShutdown(p) \/ QueueClosed(p) \/ Finished(p)

Next ==
  \/ \E r \in Requests :
       \/ Handle(r) \/ LogStep(r) \/ Backoff(r) \/ Stall(r)
       \/ \E p \in Replicas : Take(p, r)
       \/ \E p \in Replicas, k \in Kinds[r], u \in Users, b \in BOOLEAN : Arrive(r, p, k, u, b)
  \/ \E p \in Replicas :
       \/ Process(p) \/ Report(p) \/ HandleAuditPurgeCron(p) \/ PurgeStep(p)
       \/ BeforeApplicationShutdown(p) \/ ShutdownStep(p) \/ Exit(p) \/ Crash(p) \/ Start(p)
  \/ RedisOutage

Spec == Init /\ [][Next]_vars

\* BullMQ goes on with the jobs it holds, an outage of Redis ends, the timer and
\* the hooks of a process end, and a process that has ended is started again.  Each
\* of these steps occurs finitely often for a job or a process, so that it is enough
\* to be fair to all jobs, or all processes, together.
QueueStep ==
  \E r \in Requests : Backoff(r) \/ (Stall(r) /\ Well) \/ \E p \in Replicas : Take(p, r)
WorkerStep == \E p \in Replicas : Process(p) \/ Report(p)

FairSpec ==
  /\ Spec
  /\ SF_vars(QueueStep) /\ SF_vars(WorkerStep)
  /\ WF_vars(RedisOutage /\ ~redisUp)
  /\ WF_vars(\E p \in Replicas : Exit(p)) /\ WF_vars(\E p \in Replicas : Start(p))
-----------------------------------------------------------------------------
(* Properties.                                                              *)

\* The records ever written about r.
RecordsOf(r) == {x \in Records : x[1] = r /\ audit_logs[x] # "none"}

TypeOK ==
  /\ pc \in [Requests -> InFlight \union {"idle", "answered", "refused", "dropped"}]
  /\ req \in [Requests -> [kind : Handlers, at : Replicas, caller : Users,
                           uuid : BOOLEAN]]
  /\ ctx \in [Requests -> [correlation : Requests, user : Users \union {Nobody}]]
  /\ payload \in [Requests -> [actor : Users \union {Nobody}, correlation : Requests,
                               entity : {"none", "target", "request"}]]
  /\ call \in [Requests -> {"none", "adding", "persisting", "done", "lost"}]
  /\ job \in [Requests -> {"none", "waiting", "active", "delayed", "completed", "failed"}]
  /\ starts \in [Requests -> 0 .. Attempts + MaxStalls]
  /\ fails \in [Requests -> 0 .. Attempts] /\ stalls \in [Requests -> 0 .. MaxStalls + 1]
  /\ owner \in [Requests -> Replicas]
  /\ audit_logs \in [Records -> {"none", "kept", "purged"}]
  /\ proc \in [Replicas -> {"up", "stopping", "closing", "destroying", "finished", "exited"}]
  /\ timer \in [Replicas -> BOOLEAN]
  /\ work \in [Replicas -> [job : Requests, start : 0 .. Attempts + MaxStalls,
                            stage : {"idle", "inserting", "inserted", "failed"}]]
  /\ purge \in [Replicas -> [step : {"off", "select", "delete"}, cutoff : SUBSET Records,
                             batch : SUBSET Records, alone : BOOLEAN]]
  /\ redisUp \in BOOLEAN /\ queued \in BOOLEAN
  /\ nights \in 0 .. MaxNights /\ faults \in 0 .. MaxFaults

\* A record carries the correlation id of its own request and the user its token
\* named, although its payload is built while other requests are in flight.
RecordsNameTheirRequest ==
  \A r \in Requests : RecordsOf(r) # {} =>
    /\ payload[r].correlation = r
    /\ Auditable(req[r].kind) => payload[r].actor = req[r].caller

\* A mutation is recorded once, and a second time only for a failure or a stall
\* that BullMQ knows of: an INSERT whose answer was lost, a worker that went on
\* without its lock.
DuplicatesAreRetries ==
  \A r \in Requests : Cardinality(RecordsOf(r)) <= 1 + fails[r] + stalls[r]

\* A job that BullMQ considers done has left a record, whatever happened to the
\* worker between the INSERT and its report.
CompletedIsWritten == \A r \in Requests : job[r] = "completed" => RecordsOf(r) # {}

\* A purge that ran without another beside it and ended without an error has
\* deleted everything that was past the retention when it began.
PurgeClears ==
  [][\A p \in Replicas :
       purge[p].step = "delete" /\ purge'[p].step = "off" /\ purge[p].alone
         /\ purge'[p].cutoff # {} =>
       \A x \in purge[p].cutoff : audit_logs'[x] = "purged"]_vars

\* Once a job is in Redis its record is written, or three INSERTs of it have failed,
\* or it stalled more often than BullMQ allows.
AcceptedIsWritten ==
  \A r \in Requests : job[r] = "waiting" ~>
    \/ RecordsOf(r) # {}
    \/ job[r] = "failed" /\ (fails[r] = 3 \/ stalls[r] > MaxStalls)

\* A replica that was told to stop is gone in the end, even if a request is never
\* answered or auditQueue.close() waits for Redis.
ShutdownEnds == \A p \in Replicas : proc[p] = "stopping" ~> proc[p] = "exited"
=============================================================================
