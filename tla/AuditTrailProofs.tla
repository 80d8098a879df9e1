-------------------------- MODULE AuditTrailProofs --------------------------
(***************************************************************************)
(* The audit trail for any replicas, requests, users, faults and bounds.    *)
(* Every start of a job is a slot of its own for a record, at most one more *)
(* than BullMQ counts failures and stalls; and a purge that runs alone      *)
(* deletes exactly what its subquery selected.                              *)
(***************************************************************************)
EXTENDS AuditTrail, FiniteSetTheorems, TLAPS

USE NobodyAssumption, PopulationAssumption, KindsAssumption, BatchAssumption,
    DeploymentAssumption, BoundsAssumption
-----------------------------------------------------------------------------
(* The inductive invariant.                                                 *)

Slots == 0 .. Attempts + MaxStalls

\* The request and its call of log.
CallInv == \A r \in Requests :
  /\ ctx[r].correlation = r
  /\ pc[r] \in {"handler", "committed"} /\ ~Public(req[r].kind) => ctx[r].user = req[r].caller
  /\ pc[r] \in InFlight \union {"idle"} => call[r] = "none"
  /\ call[r] # "none" =>
       /\ payload[r].correlation = r
       /\ Auditable(req[r].kind) => payload[r].actor = req[r].caller
  /\ call[r] = "adding" => queued
  /\ call[r] = "persisting" => ~queued

\* The job and what BullMQ counts of it.
JobInv == \A r \in Requests :
  /\ job[r] # "none" => call[r] = "done" /\ queued
  /\ job[r] = "none" => starts[r] = 0 /\ fails[r] = 0 /\ stalls[r] = 0
  /\ job[r] \in {"waiting", "delayed", "failed"} => starts[r] = fails[r] + stalls[r]
  /\ job[r] \in {"active", "completed"} => starts[r] = fails[r] + stalls[r] + 1
  /\ job[r] \in {"waiting", "active", "delayed"} => fails[r] < Attempts /\ stalls[r] <= MaxStalls

\* The worker and the slot it writes to.
WorkInv == \A p \in Replicas : work[p].stage # "idle" =>
  /\ job[work[p].job] # "none"
  /\ 1 <= work[p].start /\ work[p].start <= starts[work[p].job]
  /\ work[p].stage = "inserting" => audit_logs[<<work[p].job, work[p].start>>] = "none"
  /\ work[p].stage = "inserted" => audit_logs[<<work[p].job, work[p].start>>] # "none"
  /\ \A q \in Replicas \ {p} : work[q].stage # "idle" =>
       work[q].job # work[p].job \/ work[q].start # work[p].start

\* The records.
RecordInv == \A r \in Requests, n \in Slots : audit_logs[<<r, n>>] # "none" =>
  /\ call[r] = "done"
  /\ queued => 1 <= n /\ n <= starts[r]
  /\ ~queued => n = 0

DoneInv == \A r \in Requests :
  job[r] = "completed" => \E n \in Slots : audit_logs[<<r, n>>] # "none"

Inv == TypeOK /\ CallInv /\ JobInv /\ WorkInv /\ RecordInv

\* The purge.
Smaller(m, n) == IF m < n THEN m ELSE n
PurgeInv == \A p \in Replicas : purge[p].step # "off" =>
  /\ \A x \in purge[p].cutoff : audit_logs[x] # "none"
  /\ \A q \in Replicas \ {p} : purge[q].step # "off" => ~purge[p].alone
  /\ purge[p].step = "delete" /\ purge[p].alone =>
       /\ purge[p].batch \subseteq purge[p].cutoff \intersect Kept
       /\ Cardinality(purge[p].batch)
            = Smaller(Cardinality(purge[p].cutoff \intersect Kept), BatchSize)
-----------------------------------------------------------------------------
(* 1. Types.                                                                *)

LEMMA DefaultTypes ==
  /\ AnyReplica \in Replicas /\ AnyRequest \in Requests
  /\ NoRequest \in [kind : Handlers, at : Replicas, caller : Users, uuid : BOOLEAN]
  /\ NoWork \in [job : Requests, start : Slots, stage : {"idle", "inserting", "inserted", "failed"}]
  /\ NoPurge \in [step : {"off", "select", "delete"}, cutoff : SUBSET Records,
                  batch : SUBSET Records, alone : BOOLEAN]
  /\ NoWork.stage = "idle" /\ NoPurge.step = "off" /\ NoPurge.cutoff = {}
  <1>1. AnyReplica \in Replicas /\ AnyRequest \in Requests /\ (CHOOSE u \in Users : TRUE) \in Users
    BY DEF AnyReplica, AnyRequest
  <1> QED  BY <1>1 DEF NoRequest, NoWork, NoPurge, Handlers, Slots, Attempts

\* TypeOK, by the groups of variables that a step moves or leaves alone.
Purges == [step : {"off", "select", "delete"}, cutoff : SUBSET Records,
           batch : SUBSET Records, alone : BOOLEAN]
Works  == [job : Requests, start : Slots, stage : {"idle", "inserting", "inserted", "failed"}]

PcTypes    == pc \in [Requests -> InFlight \union {"idle", "answered", "refused", "dropped"}]
ReqTypes   == req \in [Requests -> [kind : Handlers, at : Replicas, caller : Users, uuid : BOOLEAN]]
CtxTypes   == ctx \in [Requests -> [correlation : Requests, user : Users \union {Nobody}]]
CallTypes  ==
  /\ payload \in [Requests -> [actor : Users \union {Nobody}, correlation : Requests,
                               entity : {"none", "target", "request"}]]
  /\ call \in [Requests -> {"none", "adding", "persisting", "done", "lost"}]
JobTypes   == job \in [Requests -> {"none", "waiting", "active", "delayed", "completed", "failed"}]
CountTypes ==
  /\ starts \in [Requests -> Slots] /\ fails \in [Requests -> 0 .. Attempts]
  /\ stalls \in [Requests -> 0 .. MaxStalls + 1] /\ owner \in [Requests -> Replicas]
RecordTypes == audit_logs \in [Records -> {"none", "kept", "purged"}]
ProcTypes   ==
  /\ proc \in [Replicas -> {"up", "stopping", "closing", "destroying", "finished", "exited"}]
  /\ timer \in [Replicas -> BOOLEAN]
WorkTypes   == work \in [Replicas -> Works]
PurgeTypes  == purge \in [Replicas -> Purges]
EnvTypes    == redisUp \in BOOLEAN /\ queued \in BOOLEAN /\ nights \in 0 .. MaxNights
FaultTypes  == faults \in 0 .. MaxFaults

LEMMA TypeParts ==
  TypeOK <=> /\ PcTypes /\ ReqTypes /\ CtxTypes /\ CallTypes /\ JobTypes /\ CountTypes
             /\ RecordTypes /\ ProcTypes /\ WorkTypes /\ PurgeTypes /\ EnvTypes /\ FaultTypes
  BY DEF TypeOK, PcTypes, ReqTypes, CtxTypes, CallTypes, JobTypes, CountTypes, RecordTypes,
         ProcTypes, WorkTypes, PurgeTypes, EnvTypes, FaultTypes, Works, Purges, Slots

LEMMA TypePartsNext ==
  ASSUME PcTypes', ReqTypes', CtxTypes', CallTypes', JobTypes', CountTypes', RecordTypes',
         ProcTypes', WorkTypes', PurgeTypes', EnvTypes', FaultTypes'
  PROVE  TypeOK'
  BY DEF TypeOK, PcTypes, ReqTypes, CtxTypes, CallTypes, JobTypes, CountTypes, RecordTypes,
         ProcTypes, WorkTypes, PurgeTypes, EnvTypes, FaultTypes, Works, Purges, Slots

LEMMA Unmoved ==
  ASSUME TypeOK
  PROVE  /\ pc' = pc => PcTypes'
         /\ req' = req => ReqTypes'
         /\ ctx' = ctx => CtxTypes'
         /\ logVars' = logVars => CallTypes'
         /\ job' = job => JobTypes'
         /\ <<starts, fails, stalls, owner>>' = <<starts, fails, stalls, owner>> => CountTypes'
         /\ audit_logs' = audit_logs => RecordTypes'
         /\ procVars' = procVars => ProcTypes'
         /\ work' = work => WorkTypes'
         /\ purge' = purge => PurgeTypes'
         /\ envVars' = envVars => EnvTypes'
         /\ Well => FaultTypes'
         /\ \A f : Fault(f) => FaultTypes'
  <1>1. \A f : Fault(f) => FaultTypes'
    BY DEF Fault, FaultTypes, TypeOK
  <1> QED  BY <1>1, TypeParts
           DEF PcTypes, ReqTypes, CtxTypes, CallTypes, JobTypes, CountTypes, RecordTypes,
               ProcTypes, WorkTypes, PurgeTypes, EnvTypes, FaultTypes, logVars, procVars,
               envVars, Well

LEMMA ArriveTypes ==
  ASSUME TypeOK, NEW r \in Requests, NEW p \in Replicas, NEW k \in Kinds[r], NEW u \in Users,
         NEW b \in BOOLEAN, Arrive(r, p, k, u, b)
  PROVE  TypeOK'
  <1>1. k \in Handlers
    OBVIOUS
  <1>2. PcTypes' /\ ReqTypes' /\ CtxTypes'
    BY <1>1, TypeParts DEF Arrive, RequestTo, PcTypes, ReqTypes, CtxTypes, EmptyStore, InFlight
  <1>3. FaultTypes'
    BY Unmoved DEF Arrive
  <1> QED  BY <1>2, <1>3, Unmoved, TypePartsNext DEF Arrive, RequestTo, queueVars

LEMMA HandleTypes ==
  ASSUME TypeOK, NEW r \in Requests, Handle(r)
  PROVE  TypeOK'
  <1>1. PcTypes'
    BY TypeParts DEF Handle, Guards, Commit, Throw, Succeed, LogFireAndForget, RequestTo, PcTypes,
                     InFlight
  <1>2. CtxTypes'
    BY TypeParts, Unmoved
       DEF Handle, Guards, Commit, Throw, Succeed, LogFireAndForget, CtxTypes, ReqTypes
  <1>3. CallTypes'
    <2>1. CASE Log(r)
      <3>1. /\ BuildPayload(r).actor \in Users \union {Nobody}
            /\ BuildPayload(r).correlation \in Requests
            /\ BuildPayload(r).entity \in {"target", "request"}
        BY TypeParts DEF BuildPayload, ActorOf, Store, ResolveEntityId, CtxTypes, ReqTypes
      <3>2. BuildPayload(r) \in [actor : Users \union {Nobody}, correlation : Requests,
                                 entity : {"none", "target", "request"}]
        BY <3>1 DEF BuildPayload
      <3> QED  BY <2>1, <3>2, TypeParts DEF Log, CallTypes
    <2>2. CASE logVars' = logVars
      BY <2>2, Unmoved
    <2> QED  BY <2>1, <2>2 DEF Handle, Guards, Commit, Throw, Succeed, LogFireAndForget
  <1>4. /\ req' = req /\ queueVars' = queueVars /\ audit_logs' = audit_logs
        /\ procVars' = procVars /\ work' = work /\ purge' = purge /\ envVars' = envVars /\ Well
    BY DEF Handle, Guards, Commit, Throw, Succeed, LogFireAndForget, RequestTo
  <1> QED  BY <1>1, <1>2, <1>3, <1>4, Unmoved, TypePartsNext DEF queueVars

LEMMA LogTypes ==
  ASSUME TypeOK, NEW r \in Requests, LogStep(r)
  PROVE  TypeOK'
  <1>1. CallTypes'
    BY TypeParts DEF LogStep, Enqueue, PersistFromPayload, LogFails, CallTo, CallTypes, AfterAdd
  <1>2. JobTypes'
    BY TypeParts DEF LogStep, Enqueue, PersistFromPayload, LogFails, JobTypes
  <1>3. RecordTypes'
    BY TypeParts DEF LogStep, Enqueue, PersistFromPayload, LogFails, RecordTypes
  <1>4. FaultTypes'
    BY Unmoved DEF LogStep, Enqueue, PersistFromPayload, LogFails
  <1>5. /\ reqVars' = reqVars /\ <<starts, fails, stalls, owner>>' = <<starts, fails, stalls, owner>>
        /\ procVars' = procVars /\ work' = work /\ purge' = purge /\ envVars' = envVars
    BY DEF LogStep, Enqueue, PersistFromPayload, LogFails, CallTo
  <1> QED  BY <1>1, <1>2, <1>3, <1>4, <1>5, Unmoved, TypePartsNext DEF reqVars

LEMMA QueueTypes ==
  ASSUME TypeOK, JobInv, NEW r \in Requests,
         Backoff(r) \/ Stall(r) \/ \E p \in Replicas : Take(p, r)
  PROVE  TypeOK'
  <1>0. /\ starts[r] \in Nat /\ fails[r] \in Nat /\ stalls[r] \in Nat
        /\ job[r] \in {"waiting", "active"} =>
             fails[r] < 3 /\ stalls[r] <= MaxStalls /\ starts[r] <= fails[r] + stalls[r] + 1
        /\ job[r] = "waiting" => starts[r] = fails[r] + stalls[r]
    BY TypeParts DEF JobInv, CountTypes, Attempts, Slots
  <1>1. JobTypes'
    BY TypeParts DEF Backoff, Stall, Take, JobTo, JobTypes
  <1>2. CountTypes'
    <2>1. job[r] = "waiting" => starts[r] + 1 \in Slots
      BY <1>0 DEF Slots, Attempts
    <2>2. job[r] = "active" => stalls[r] + 1 \in 0 .. MaxStalls + 1
      BY <1>0
    <2> QED  BY <2>1, <2>2, TypeParts, Unmoved DEF Backoff, Stall, Take, JobTo, CountTypes
  <1>3. WorkTypes'
    <2>1. job[r] = "waiting" =>
            [job |-> r, start |-> starts[r] + 1, stage |-> "inserting"] \in Works
      BY <1>0 DEF Works, Slots, Attempts
    <2> QED  BY <2>1, TypeParts DEF Backoff, Stall, Take, WorkTypes
  <1>4. FaultTypes'
    BY Unmoved DEF Backoff, Stall, Take
  <1>5. /\ reqVars' = reqVars /\ logVars' = logVars /\ audit_logs' = audit_logs
        /\ procVars' = procVars /\ purge' = purge /\ envVars' = envVars
    BY DEF Backoff, Stall, Take, JobTo
  <1> QED  BY <1>1, <1>2, <1>3, <1>4, <1>5, Unmoved, TypePartsNext DEF reqVars

LEMMA ProcessTypes ==
  ASSUME TypeOK, NEW p \in Replicas, Process(p)
  PROVE  TypeOK'
  <1>1. WorkTypes'
    BY TypeParts DEF Process, WorkTypes, Works
  <1>2. RecordTypes'
    BY TypeParts DEF Process, RecordTypes
  <1>3. FaultTypes'
    BY Unmoved DEF Process
  <1> QED  BY <1>1, <1>2, <1>3, Unmoved, TypePartsNext DEF Process, reqVars, queueVars

LEMMA ReportTypes ==
  ASSUME TypeOK, JobInv, NEW p \in Replicas, Report(p)
  PROVE  TypeOK'
  <1>0. work[p].job \in Requests
    BY TypeParts DEF WorkTypes, Works
  <1>1. WorkTypes'
    BY DefaultTypes, TypeParts DEF Report, WorkTypes, Works
  <1>2. JobTypes'
    BY <1>0, TypeParts DEF Report, JobTo, JobTypes
  <1>3. CountTypes'
    <2>1. job[work[p].job] = "active" => fails[work[p].job] + 1 \in 0 .. Attempts
      BY <1>0, TypeParts DEF JobInv, CountTypes, Attempts
    <2> QED  BY <1>0, <2>1, TypeParts DEF Report, Holds, CountTypes
  <1>4. /\ reqVars' = reqVars /\ logVars' = logVars /\ audit_logs' = audit_logs
        /\ procVars' = procVars /\ purge' = purge /\ envVars' = envVars /\ Well
    BY DEF Report, JobTo
  <1> QED  BY <1>1, <1>2, <1>3, <1>4, Unmoved, TypePartsNext DEF reqVars

LEMMA ExitsTypes ==
  ASSUME TypeOK, NEW p \in Replicas, Exits(p), Well \/ \E f : Fault(f)
  PROVE  TypeOK'
  <1>1. ProcTypes'
    BY TypeParts DEF Exits, ProcTypes
  <1>2. PcTypes'
    BY TypeParts DEF Exits, PcTypes
  <1>3. CallTypes'
    BY TypeParts DEF Exits, CallTypes
  <1>4. WorkTypes' /\ PurgeTypes'
    BY DefaultTypes, TypeParts DEF Exits, WorkTypes, PurgeTypes, Works, Purges
  <1> QED  BY <1>1, <1>2, <1>3, <1>4, Unmoved, TypePartsNext DEF Exits, queueVars

LEMMA ShutdownTypes ==
  ASSUME TypeOK, NEW p \in Replicas,
         BeforeApplicationShutdown(p) \/ ShutdownStep(p) \/ Start(p)
  PROVE  TypeOK'
  <1>1. ProcTypes'
    <2>1. CASE BeforeApplicationShutdown(p)
      BY <2>1, TypeParts DEF BeforeApplicationShutdown, ProcTo, TimerArmed, ProcTypes
    <2>2. CASE OnApplicationShutdown(p) \/ QueueClosed(p) \/ Start(p)
      BY <2>2, TypeParts DEF OnApplicationShutdown, QueueClosed, Start, ProcTo, ProcTypes
    <2>3. CASE Finished(p)
      BY <2>3, TypeParts DEF Finished, ProcTo, ProcTypes
    <2> QED  BY <2>1, <2>2, <2>3 DEF ShutdownStep
  <1>2. FaultTypes'
    BY Unmoved DEF BeforeApplicationShutdown, ShutdownStep, OnApplicationShutdown, QueueClosed,
                   Finished, Start
  <1>3. /\ reqVars' = reqVars /\ logVars' = logVars /\ queueVars' = queueVars
        /\ audit_logs' = audit_logs /\ work' = work /\ purge' = purge /\ envVars' = envVars
    BY DEF BeforeApplicationShutdown, ShutdownStep, OnApplicationShutdown, QueueClosed,
           Finished, Start, ProcTo, KeepsRunning
  <1> QED  BY <1>1, <1>2, <1>3, Unmoved, TypePartsNext DEF reqVars, queueVars

LEMMA CronTypes ==
  ASSUME TypeOK, NEW p \in Replicas, HandleAuditPurgeCron(p)
  PROVE  TypeOK'
  <1>1. PICK old \in SUBSET Kept : purge' = [q \in Replicas |->
          IF q = p THEN [NoPurge EXCEPT !.step = "select", !.cutoff = old, !.alone = Others(p) = {}]
          ELSE [purge[q] EXCEPT !.alone = purge[q].step = "off"]]
    BY DEF HandleAuditPurgeCron
  <1>2. ASSUME NEW x \in Purges, NEW b \in BOOLEAN
        PROVE  [x EXCEPT !.alone = b] \in Purges
    BY DEF Purges
  <1>3. \A q \in Replicas : [purge[q] EXCEPT !.alone = purge[q].step = "off"] \in Purges
    BY <1>2, TypeParts DEF PurgeTypes
  <1>4. [NoPurge EXCEPT !.step = "select", !.cutoff = old, !.alone = Others(p) = {}] \in Purges
    BY DefaultTypes DEF Purges, Kept
  <1>5. PurgeTypes'
    BY <1>1, <1>3, <1>4 DEF PurgeTypes
  <1>6. EnvTypes'
    <2>1. redisUp' = redisUp /\ queued' = queued /\ nights' = nights + 1 /\ nights < MaxNights
      BY DEF HandleAuditPurgeCron
    <2>2. redisUp \in BOOLEAN /\ queued \in BOOLEAN /\ nights \in 0 .. MaxNights
      BY TypeParts DEF EnvTypes
    <2>3. nights' \in 0 .. MaxNights
      BY <2>1, <2>2
    <2> QED  BY <2>1, <2>2, <2>3 DEF EnvTypes
  <1> QED  BY <1>5, <1>6, Unmoved, TypePartsNext DEF HandleAuditPurgeCron, reqVars, queueVars

LEMMA PurgeStepTypes ==
  ASSUME TypeOK, NEW p \in Replicas, PurgeStep(p)
  PROVE  TypeOK'
  <1>0. purge[p] \in Purges /\ Kept \subseteq Records
    BY TypeParts DEF PurgeTypes, Kept
  <1>1. PurgeTypes'
    <2>1. CASE SelectBatch(p)
      <3>1. PICK b \in SUBSET Records : PurgeTo(p, [purge[p] EXCEPT !.step = "delete", !.batch = b])
        BY <1>0, <2>1 DEF SelectBatch
      <3>2. [purge[p] EXCEPT !.step = "delete", !.batch = b] \in Purges
        BY <1>0 DEF Purges
      <3> QED  BY <3>1, <3>2, TypeParts DEF PurgeTo, PurgeTypes
    <2>2. CASE DeleteBatch(p)
      <3>1. \A s \in {"off", "select"} : [purge[p] EXCEPT !.step = s, !.batch = {}] \in Purges
        BY <1>0 DEF Purges
      <3> QED  BY <2>2, <3>1, TypeParts DEF DeleteBatch, PurgeTo, PurgeTypes
    <2>3. CASE PurgeFails(p)
      BY <2>3, DefaultTypes, TypeParts DEF PurgeFails, PurgeTo, PurgeTypes, Purges
    <2> QED  BY <2>1, <2>2, <2>3 DEF PurgeStep
  <1>2. RecordTypes'
    BY TypeParts, Unmoved DEF PurgeStep, SelectBatch, DeleteBatch, PurgeFails, RecordTypes
  <1>3. FaultTypes'
    BY Unmoved DEF PurgeStep, SelectBatch, DeleteBatch, PurgeFails
  <1>4. /\ reqVars' = reqVars /\ logVars' = logVars /\ queueVars' = queueVars
        /\ procVars' = procVars /\ work' = work /\ envVars' = envVars
    BY DEF PurgeStep, SelectBatch, DeleteBatch, PurgeFails, PurgeTo
  <1> QED  BY <1>1, <1>2, <1>3, <1>4, Unmoved, TypePartsNext DEF reqVars, queueVars

LEMMA OutageTypes ==
  ASSUME TypeOK, RedisOutage
  PROVE  TypeOK'
  <1>1. EnvTypes'
    BY TypeParts DEF RedisOutage, EnvTypes
  <1>2. FaultTypes'
    BY Unmoved DEF RedisOutage
  <1> QED  BY <1>1, <1>2, Unmoved, TypePartsNext DEF RedisOutage, reqVars, queueVars

LEMMA InitTypes == Init => TypeOK
  BY DefaultTypes DEF Init, TypeOK, EmptyStore, NoPayload, Slots, Attempts

\* What a step may be.
LEMMA Steps ==
  ASSUME Next
  PROVE  \/ \E r \in Requests : Handle(r)
         \/ \E r \in Requests, p \in Replicas : \E k \in Kinds[r], u \in Users, b \in BOOLEAN :
              Arrive(r, p, k, u, b)
         \/ \E r \in Requests : LogStep(r)
         \/ \E r \in Requests : Backoff(r) \/ Stall(r) \/ \E p \in Replicas : Take(p, r)
         \/ \E p \in Replicas : Process(p)
         \/ \E p \in Replicas : Report(p)
         \/ \E p \in Replicas : HandleAuditPurgeCron(p)
         \/ \E p \in Replicas : PurgeStep(p)
         \/ \E p \in Replicas : BeforeApplicationShutdown(p) \/ ShutdownStep(p) \/ Start(p)
         \/ (\E p \in Replicas : Exits(p)) /\ (Well \/ \E f : Fault(f))
         \/ RedisOutage
  BY DEF Next, Exit, Crash

LEMMA TypeStep == TypeOK /\ JobInv /\ [Next]_vars => TypeOK'
  <1> SUFFICES ASSUME TypeOK, JobInv, [Next]_vars  PROVE TypeOK'
    OBVIOUS
  <1>1. CASE Next
    BY <1>1, Steps, HandleTypes, ArriveTypes, LogTypes, QueueTypes, ProcessTypes, ReportTypes,
       CronTypes, PurgeStepTypes, ShutdownTypes, ExitsTypes, OutageTypes
  <1>2. CASE UNCHANGED vars
    BY <1>2, Unmoved, TypePartsNext DEF vars, reqVars, queueVars, Well
  <1> QED  BY <1>1, <1>2
-----------------------------------------------------------------------------
(* 2. The request and its call of log.                                      *)

LEMMA CallKept ==
  ASSUME CallInv, reqVars' = reqVars, logVars' = logVars, queued' = queued
  PROVE  CallInv'
  BY DEF CallInv, reqVars, logVars

LEMMA CallArrive ==
  ASSUME TypeOK, CallInv, NEW r \in Requests, NEW p \in Replicas, NEW k \in Kinds[r],
         NEW u \in Users, NEW b \in BOOLEAN, Arrive(r, p, k, u, b)
  PROVE  CallInv'
  <1>1. /\ pc[r] = "idle" /\ pc' = [pc EXCEPT ![r] = "guards"]
        /\ ctx' = [ctx EXCEPT ![r] = EmptyStore(r)]
        /\ \A q \in Requests \ {r} : req'[q] = req[q]
        /\ payload' = payload /\ call' = call /\ queued' = queued
        /\ pc \in [Requests -> InFlight \union {"idle", "answered", "refused", "dropped"}]
        /\ ctx \in [Requests -> [correlation : Requests, user : Users \union {Nobody}]]
    BY TypeParts DEF Arrive, RequestTo, logVars, envVars, ReqTypes, PcTypes, CtxTypes
  <1> QED  BY <1>1 DEF CallInv, EmptyStore, InFlight

LEMMA CallHandle ==
  ASSUME TypeOK, CallInv, NEW r \in Requests, Handle(r)
  PROVE  CallInv'
  <1>0. /\ pc \in [Requests -> InFlight \union {"idle", "answered", "refused", "dropped"}]
        /\ ctx \in [Requests -> [correlation : Requests, user : Users \union {Nobody}]]
        /\ payload \in [Requests -> [actor : Users \union {Nobody}, correlation : Requests,
                                     entity : {"none", "target", "request"}]]
        /\ call \in [Requests -> {"none", "adding", "persisting", "done", "lost"}]
    BY TypeParts DEF PcTypes, CtxTypes, CallTypes
  <1>1. req' = req /\ queued' = queued
    BY DEF Handle, Guards, Commit, Throw, Succeed, LogFireAndForget, RequestTo, envVars
  <1>2. CASE Guards(r)
    <2>1. /\ pc' = [pc EXCEPT ![r] = "handler"] /\ pc[r] = "guards" /\ logVars' = logVars
          /\ ctx' = IF Public(req[r].kind) THEN ctx ELSE [ctx EXCEPT ![r].user = req[r].caller]
      BY <1>2 DEF Guards, RequestTo
    <2> QED  BY <1>0, <1>1, <2>1 DEF CallInv, InFlight, logVars
  <1>3. CASE Commit(r) \/ Throw(r)
    <2>1. /\ ctx' = ctx /\ logVars' = logVars
          /\ \/ pc' = [pc EXCEPT ![r] = "committed"] /\ pc[r] = "handler"
             \/ pc' = [pc EXCEPT ![r] = "refused"]
      BY <1>3 DEF Commit, Throw, RequestTo
    <2> QED  BY <1>0, <1>1, <2>1 DEF CallInv, InFlight, logVars
  <1>4. CASE Succeed(r) \/ LogFireAndForget(r)
    <2>1. /\ ctx' = ctx /\ pc[r] = "committed"
          /\ pc' = [pc EXCEPT ![r] = "answered"] \/ pc' = [pc EXCEPT ![r] = "refused"]
      BY <1>4 DEF Succeed, LogFireAndForget, RequestTo
    <2>2. CASE logVars' = logVars
      BY <1>0, <1>1, <2>1, <2>2 DEF CallInv, InFlight, logVars
    <2>3. CASE Log(r)
      <3>1. BuildPayload(r).correlation = r
        BY DEF BuildPayload, Store, CallInv
      <3>2. Auditable(req[r].kind) => BuildPayload(r).actor = req[r].caller
        <4>1. Auditable(req[r].kind) => ~Public(req[r].kind)
          BY DEF Auditable, Public
        <4>2. Auditable(req[r].kind) => BuildPayload(r).actor = ctx[r].user
          BY DEF Auditable, BuildPayload, ActorOf, Store
        <4> QED  BY <2>1, <4>1, <4>2 DEF CallInv
      <3>3. /\ payload' = [payload EXCEPT ![r] = BuildPayload(r)]
            /\ call' = [call EXCEPT ![r] = IF queued THEN "adding" ELSE "persisting"]
        BY <2>3 DEF Log
      <3> QED  BY <1>0, <1>1, <2>1, <3>1, <3>2, <3>3 DEF CallInv, InFlight
    <2> QED  BY <1>4, <2>2, <2>3 DEF Succeed, LogFireAndForget
  <1> QED  BY <1>2, <1>3, <1>4 DEF Handle

LEMMA CallLog ==
  ASSUME TypeOK, CallInv, NEW r \in Requests, LogStep(r)
  PROVE  CallInv'
  <1>1. /\ reqVars' = reqVars /\ payload' = payload /\ queued' = queued
        /\ call[r] \in {"adding", "persisting"}
        /\ call' = [call EXCEPT ![r] = "done"] \/ call' = [call EXCEPT ![r] = "lost"]
    BY TypeParts DEF LogStep, Enqueue, PersistFromPayload, LogFails, CallTo, AfterAdd, envVars,
                     CallTypes
  <1>2. call \in [Requests -> {"none", "adding", "persisting", "done", "lost"}]
    BY TypeParts DEF CallTypes
  <1> QED  BY <1>1, <1>2 DEF CallInv, reqVars

LEMMA CallExits ==
  ASSUME TypeOK, CallInv, NEW p \in Replicas, Exits(p)
  PROVE  CallInv'
  <1>1. /\ req' = req /\ ctx' = ctx /\ payload' = payload /\ queued' = queued
        /\ \A r \in Requests : pc'[r] \in {pc[r], "dropped"}
        /\ \A r \in Requests : call'[r] = call[r] \/ (call'[r] = "lost" /\ call[r] # "none")
    BY DEF Exits, envVars
  <1> QED  BY <1>1 DEF CallInv, InFlight

LEMMA CallStep == TypeOK /\ CallInv /\ [Next]_vars => CallInv'
  <1> SUFFICES ASSUME TypeOK, CallInv, [Next]_vars  PROVE CallInv'
    OBVIOUS
  <1> USE DEF envVars
  <1>1. ASSUME NEW r \in Requests, Backoff(r) \/ Stall(r) \/ \E p \in Replicas : Take(p, r)
        PROVE  CallInv'
    BY <1>1, CallKept DEF Backoff, Stall, Take, JobTo
  <1>2. ASSUME NEW p \in Replicas, Process(p) \/ Report(p)
        PROVE  CallInv'
    BY <1>2, CallKept DEF Process, Report, JobTo
  <1>3. ASSUME NEW p \in Replicas, HandleAuditPurgeCron(p) \/ PurgeStep(p)
        PROVE  CallInv'
    BY <1>3, CallKept
       DEF HandleAuditPurgeCron, PurgeStep, SelectBatch, DeleteBatch, PurgeFails, PurgeTo
  <1>4. ASSUME NEW p \in Replicas, BeforeApplicationShutdown(p) \/ ShutdownStep(p) \/ Start(p)
        PROVE  CallInv'
    BY <1>4, CallKept
       DEF BeforeApplicationShutdown, ShutdownStep, OnApplicationShutdown, QueueClosed, Finished,
           Start, ProcTo, KeepsRunning
  <1>5. CASE RedisOutage
    BY <1>5, CallKept DEF RedisOutage
  <1>6. CASE UNCHANGED vars
    BY <1>6, CallKept DEF vars
  <1> QED  BY <1>1, <1>2, <1>3, <1>4, <1>5, <1>6, CallArrive, CallHandle, CallLog, CallExits, Steps
-----------------------------------------------------------------------------
(* 3. The job and its counts.                                               *)

LEMMA JobKept ==
  ASSUME JobInv, queueVars' = queueVars, queued' = queued,
         \A r \in Requests : call'[r] = call[r] \/ call[r] # "done"
  PROVE  JobInv'
  BY DEF JobInv, queueVars

LEMMA JobLog ==
  ASSUME TypeOK, CallInv, JobInv, NEW r \in Requests, LogStep(r)
  PROVE  JobInv'
  <1>0. /\ call \in [Requests -> {"none", "adding", "persisting", "done", "lost"}]
        /\ job \in [Requests -> {"none", "waiting", "active", "delayed", "completed", "failed"}]
    BY TypeParts DEF CallTypes, JobTypes
  <1>1. CASE Enqueue(r)
    <2>1. /\ call[r] = "adding" /\ job' = [job EXCEPT ![r] = "waiting"]
          /\ call' = [call EXCEPT ![r] = "done"] /\ queued' = queued
          /\ starts' = starts /\ fails' = fails /\ stalls' = stalls
      BY <1>1 DEF Enqueue, CallTo, AfterAdd, envVars
    <2>2. queued /\ job[r] = "none"
      BY <2>1 DEF CallInv, JobInv
    <2>3. starts[r] = 0 /\ fails[r] = 0 /\ stalls[r] = 0
      BY <2>2 DEF JobInv
    <2> QED  BY <1>0, <2>1, <2>2, <2>3 DEF JobInv, Attempts
  <1>2. CASE PersistFromPayload(r) \/ LogFails(r)
    BY <1>0, <1>2, JobKept DEF PersistFromPayload, LogFails, CallTo, queueVars, envVars
  <1> QED  BY <1>1, <1>2 DEF LogStep

LEMMA JobQueue ==
  ASSUME TypeOK, JobInv, NEW r \in Requests,
         Backoff(r) \/ Stall(r) \/ \E p \in Replicas : Take(p, r)
  PROVE  JobInv'
  <1>0. /\ job \in [Requests -> {"none", "waiting", "active", "delayed", "completed", "failed"}]
        /\ starts \in [Requests -> Slots] /\ fails \in [Requests -> 0 .. Attempts]
        /\ stalls \in [Requests -> 0 .. MaxStalls + 1]
    BY TypeParts DEF JobTypes, CountTypes
  <1>1. call' = call /\ queued' = queued /\ fails' = fails
    BY DEF Backoff, Stall, Take, JobTo, logVars, envVars
  <1>2. CASE \E p \in Replicas : Take(p, r)
    <2>1. /\ job[r] = "waiting" /\ job' = [job EXCEPT ![r] = "active"] /\ stalls' = stalls
          /\ starts' = [starts EXCEPT ![r] = @ + 1]
      BY <1>2 DEF Take, JobTo
    <2> QED  BY <1>0, <1>1, <2>1 DEF JobInv, Slots
  <1>3. CASE Backoff(r)
    <2>1. /\ job[r] = "delayed" /\ job' = [job EXCEPT ![r] = "waiting"]
          /\ stalls' = stalls /\ starts' = starts
      BY <1>3 DEF Backoff, JobTo
    <2> QED  BY <1>0, <1>1, <2>1 DEF JobInv
  <1>4. CASE Stall(r)
    <2>1. /\ job[r] = "active" /\ starts' = starts /\ stalls' = [stalls EXCEPT ![r] = @ + 1]
          /\ job' = [job EXCEPT ![r] = IF stalls[r] < MaxStalls THEN "waiting" ELSE "failed"]
      BY <1>4 DEF Stall, JobTo, StallsLeft
    <2>2. starts[r] = fails[r] + stalls[r] + 1 /\ fails[r] < Attempts
      BY <2>1 DEF JobInv
    <2>3. stalls[r] \in Nat /\ fails[r] \in Nat
      BY <1>0
    <2>4. \A q \in Requests \ {r} : job'[q] = job[q] /\ stalls'[q] = stalls[q]
      BY <1>0, <2>1
    <2>5. /\ stalls'[r] = stalls[r] + 1
          /\ \/ job'[r] = "waiting" /\ stalls'[r] <= MaxStalls
             \/ job'[r] = "failed"
      BY <1>0, <2>1, <2>3
    <2> QED  BY <1>1, <2>1, <2>2, <2>3, <2>4, <2>5 DEF JobInv
  <1> QED  BY <1>2, <1>3, <1>4

LEMMA JobReport ==
  ASSUME TypeOK, JobInv, NEW p \in Replicas, Report(p)
  PROVE  JobInv'
  <1> DEFINE r == work[p].job
  <1>0. /\ job \in [Requests -> {"none", "waiting", "active", "delayed", "completed", "failed"}]
        /\ fails \in [Requests -> 0 .. Attempts] /\ r \in Requests
        /\ starts[r] \in Nat /\ stalls[r] \in Nat
    BY TypeParts DEF JobTypes, CountTypes, WorkTypes, Works, Slots
  <1>1. call' = call /\ queued' = queued /\ starts' = starts /\ stalls' = stalls
    BY DEF Report, JobTo, logVars, envVars
  <1>2. CASE ~Holds(p, r)
    <2>1. job' = [job EXCEPT ![r] = job[r]] /\ fails' = fails
      BY <1>2 DEF Report, JobTo
    <2>2. job' = job
      BY <1>0, <2>1
    <2> QED  BY <1>1, <2>1, <2>2 DEF JobInv
  <1>3. CASE Holds(p, r) /\ work[p].stage = "inserted"
    <2>1. job[r] = "active" /\ job' = [job EXCEPT ![r] = "completed"] /\ fails' = fails
      BY <1>3 DEF Report, JobTo, Holds
    <2> QED  BY <1>0, <1>1, <2>1 DEF JobInv
  <1>4. CASE Holds(p, r) /\ work[p].stage # "inserted"
    <2>1. /\ job[r] = "active" /\ fails' = [fails EXCEPT ![r] = @ + 1]
          /\ job' = [job EXCEPT ![r] = IF fails'[r] < Attempts THEN "delayed" ELSE "failed"]
      <3>1. job[r] = "active"
        BY <1>4 DEF Holds
      <3>2. /\ fails' = [fails EXCEPT ![r] = @ + 1]
            /\ JobTo(r, IF fails'[r] < Attempts THEN "delayed" ELSE "failed")
        BY <1>4 DEF Report
      <3> QED  BY <3>1, <3>2 DEF JobTo
    <2>2. /\ starts[r] = fails[r] + stalls[r] + 1 /\ stalls[r] <= MaxStalls
          /\ call[r] = "done" /\ queued
      BY <1>0, <2>1 DEF JobInv
    <2>3. /\ fails'[r] = fails[r] + 1 /\ fails[r] \in Nat
          /\ \/ job'[r] = "delayed" /\ fails'[r] < Attempts
             \/ job'[r] = "failed"
          /\ \A q \in Requests \ {r} : job'[q] = job[q] /\ fails'[q] = fails[q]
      BY <1>0, <2>1
    <2> HIDE DEF r
    <2> QED  BY <1>0, <1>1, <2>2, <2>3 DEF JobInv
  <1> QED  BY <1>2, <1>3, <1>4

LEMMA JobStep == TypeOK /\ CallInv /\ JobInv /\ [Next]_vars => JobInv'
  <1> SUFFICES ASSUME TypeOK, CallInv, JobInv, [Next]_vars  PROVE JobInv'
    OBVIOUS
  <1> USE DEF envVars, logVars
  <1>1. ASSUME NEW r \in Requests, Handle(r)
        PROVE  JobInv'
    <2>1. queueVars' = queueVars /\ queued' = queued
      BY <1>1 DEF Handle, Guards, Commit, Throw, Succeed, LogFireAndForget, RequestTo
    <2>2. call' = call \/ (call[r] = "none" /\ \A q \in Requests \ {r} : call'[q] = call[q])
      <3>1. pc[r] = "committed" => call[r] = "none"
        BY DEF CallInv, InFlight
      <3> QED  BY <1>1, <3>1, TypeParts
               DEF Handle, Guards, Commit, Throw, Succeed, LogFireAndForget, Log, CallTypes
    <2> QED  BY <2>1, <2>2, JobKept
  <1>2. ASSUME NEW r \in Requests, NEW p \in Replicas, NEW k \in Kinds[r], NEW u \in Users,
               NEW b \in BOOLEAN, Arrive(r, p, k, u, b)
        PROVE  JobInv'
    BY <1>2, JobKept DEF Arrive, RequestTo
  <1>3. ASSUME NEW p \in Replicas, Process(p)
        PROVE  JobInv'
    BY <1>3, JobKept DEF Process
  <1>4. ASSUME NEW p \in Replicas, HandleAuditPurgeCron(p) \/ PurgeStep(p)
        PROVE  JobInv'
    BY <1>4, JobKept
       DEF HandleAuditPurgeCron, PurgeStep, SelectBatch, DeleteBatch, PurgeFails, PurgeTo
  <1>5. ASSUME NEW p \in Replicas, BeforeApplicationShutdown(p) \/ ShutdownStep(p) \/ Start(p)
        PROVE  JobInv'
    BY <1>5, JobKept
       DEF BeforeApplicationShutdown, ShutdownStep, OnApplicationShutdown, QueueClosed, Finished,
           Start, ProcTo, KeepsRunning
  <1>6. ASSUME NEW p \in Replicas, Exits(p)
        PROVE  JobInv'
    BY <1>6, JobKept DEF Exits
  <1>7. CASE RedisOutage
    BY <1>7, JobKept DEF RedisOutage
  <1>8. CASE UNCHANGED vars
    BY <1>8, JobKept DEF vars
  <1> QED  BY <1>1, <1>2, <1>3, <1>4, <1>5, <1>6, <1>7, <1>8, JobLog, JobQueue, JobReport, Steps
-----------------------------------------------------------------------------
(* 4. The worker and the records.                                           *)

LEMMA SlotsAndRecords ==
  /\ Records = Requests \X Slots
  /\ \A r \in Requests, n \in Slots : <<r, n>> \in Records
  /\ 0 \in Slots
  BY DEF Records, Slots, Attempts

\* A step that writes and deletes no record, takes no job and moves no worker but to rest.
LEMMA RecordsKept ==
  ASSUME Inv, queued' = queued, starts' = starts,
         \A x \in Records : audit_logs'[x] = "none" <=> audit_logs[x] = "none",
         \A r \in Requests : call[r] = "done" => call'[r] = "done",
         \A r \in Requests : job[r] # "none" => job'[r] # "none",
         \A p \in Replicas : work'[p] = work[p] \/ work'[p] = NoWork
  PROVE  WorkInv' /\ RecordInv'
  <1>0. \A p \in Replicas : work[p].job \in Requests /\ work[p].start \in Slots
    BY TypeParts DEF Inv, WorkTypes, Works
  <1>1. RecordInv'
    BY SlotsAndRecords DEF Inv, RecordInv
  <1>2. WorkInv'
    <2>1. ASSUME NEW p \in Replicas, work'[p].stage # "idle"
          PROVE  work'[p] = work[p]
      BY <2>1 DEF NoWork
    <2> QED  BY <1>0, <2>1, SlotsAndRecords DEF Inv, WorkInv
  <1> QED  BY <1>1, <1>2

LEMMA RecordsTake ==
  ASSUME Inv, NEW p \in Replicas, NEW r \in Requests, Take(p, r)
  PROVE  WorkInv' /\ RecordInv'
  <1>0. /\ starts \in [Requests -> Slots] /\ work \in [Replicas -> Works]
        /\ job \in [Requests -> {"none", "waiting", "active", "delayed", "completed", "failed"}]
    BY TypeParts DEF Inv, CountTypes, WorkTypes, JobTypes
  <1>1. /\ job[r] = "waiting" /\ job' = [job EXCEPT ![r] = "active"] /\ queued /\ queued' = queued
        /\ starts' = [starts EXCEPT ![r] = @ + 1] /\ audit_logs' = audit_logs /\ call' = call
        /\ work' = [work EXCEPT ![p] = [job |-> r, start |-> starts[r] + 1, stage |-> "inserting"]]
    BY DEF Take, JobTo, logVars, envVars
  <1>2. RecordInv'
    BY <1>0, <1>1 DEF Inv, RecordInv, Slots
  <1>3. starts[r] + 1 \in Slots /\ audit_logs[<<r, starts[r] + 1>>] = "none"
    <2>1. starts[r] + 1 \in Slots
      <3>1. TypeOK'
        BY QueueTypes DEF Inv
      <3>2. starts'[r] \in Slots
        BY <3>1 DEF TypeOK, Slots
      <3> QED  BY <1>0, <1>1, <3>2
    <2>2. ~(starts[r] + 1 <= starts[r])
      BY <1>0 DEF Slots
    <2> QED  BY <1>1, <2>1, <2>2 DEF Inv, RecordInv
  <1>4. /\ work'[p].job = r /\ work'[p].start = starts[r] + 1 /\ work'[p].stage = "inserting"
        /\ \A q \in Replicas \ {p} : work'[q] = work[q]
        /\ starts'[r] = starts[r] + 1 /\ starts[r] \in Nat /\ job'[r] = "active"
        /\ \A q \in Requests \ {r} : starts'[q] = starts[q] /\ job'[q] = job[q]
    BY <1>0, <1>1 DEF Slots
  <1>5. ASSUME NEW q \in Replicas \ {p}, work[q].stage # "idle"
        PROVE  /\ job'[work[q].job] # "none"
               /\ 1 <= work[q].start /\ work[q].start <= starts'[work[q].job]
               /\ work[q].job = r => work[q].start # starts[r] + 1
    <2>1. work[q].job \in Requests /\ work[q].start \in Nat /\ starts[work[q].job] \in Nat
      BY <1>0 DEF Works, Slots
    <2>2. /\ job[work[q].job] # "none"
          /\ 1 <= work[q].start /\ work[q].start <= starts[work[q].job]
      BY <1>5 DEF Inv, WorkInv
    <2> QED  BY <1>4, <2>1, <2>2
  <1>6. ASSUME NEW q \in Replicas, work'[q].stage # "idle"
        PROVE  /\ job'[work'[q].job] # "none"
               /\ 1 <= work'[q].start /\ work'[q].start <= starts'[work'[q].job]
               /\ work'[q].stage = "inserting" => audit_logs[<<work'[q].job, work'[q].start>>] = "none"
               /\ work'[q].stage = "inserted" => audit_logs[<<work'[q].job, work'[q].start>>] # "none"
    <2>1. CASE q = p
      BY <1>3, <1>4, <2>1
    <2>2. CASE q # p
      <3>1. work'[q] = work[q] /\ work[q].stage # "idle"
        BY <1>4, <1>6, <2>2
      <3>2. /\ work[q].stage = "inserting" => audit_logs[<<work[q].job, work[q].start>>] = "none"
            /\ work[q].stage = "inserted" => audit_logs[<<work[q].job, work[q].start>>] # "none"
        BY <3>1 DEF Inv, WorkInv
      <3> QED  BY <1>5, <2>2, <3>1, <3>2
    <2> QED  BY <2>1, <2>2
  <1>7. ASSUME NEW q \in Replicas, NEW o \in Replicas \ {q},
               work'[q].stage # "idle", work'[o].stage # "idle"
        PROVE  work'[o].job # work'[q].job \/ work'[o].start # work'[q].start
    <2>1. CASE q # p /\ o # p
      <3>1. work'[q] = work[q] /\ work'[o] = work[o]
        BY <1>4, <2>1
      <3> QED  BY <1>7, <3>1 DEF Inv, WorkInv
    <2>2. CASE q = p \/ o = p
      BY <1>4, <1>5, <1>7, <2>2
    <2> QED  BY <2>1, <2>2
  <1>8. WorkInv'
    BY <1>1, <1>6, <1>7 DEF WorkInv
  <1> QED  BY <1>2, <1>8

LEMMA RecordsProcess ==
  ASSUME Inv, NEW p \in Replicas, Process(p)
  PROVE  WorkInv' /\ RecordInv'
  <1> DEFINE r == work[p].job  n == work[p].start
  <1>0. /\ work \in [Replicas -> Works] /\ r \in Requests /\ n \in Slots
        /\ audit_logs \in [Records -> {"none", "kept", "purged"}]
        /\ \A q \in Replicas : work[q].job \in Requests /\ work[q].start \in Slots
    BY TypeParts DEF Inv, WorkTypes, Works, RecordTypes
  <1>1. /\ work[p].stage = "inserting" /\ starts' = starts /\ call' = call /\ job' = job
        /\ queued' = queued
        /\ \/ audit_logs' = audit_logs
           \/ audit_logs' = [audit_logs EXCEPT ![<<r, n>>] = "kept"]
        /\ \E s \in {"inserted", "failed"} : work' = [work EXCEPT ![p].stage = s]
    BY DEF Process, logVars, queueVars, envVars
  <1>2. work'[p].stage = "inserted" => audit_logs'[<<r, n>>] # "none"
    <2>1. \/ audit_logs' = [audit_logs EXCEPT ![<<r, n>>] = "kept"]
          \/ work' = [work EXCEPT ![p].stage = "failed"]
      BY DEF Process, Resolves
    <2> QED  BY <1>0, <2>1, SlotsAndRecords DEF Works
  <1>3. /\ work'[p].job = r /\ work'[p].start = n /\ work'[p].stage \in {"inserted", "failed"}
        /\ \A q \in Replicas \ {p} : work'[q] = work[q]
    BY <1>0, <1>1 DEF Works
  <1>4. /\ job[r] # "none" /\ 1 <= n /\ n <= starts[r]
        /\ call[r] = "done" /\ queued
    BY <1>0, <1>1 DEF Inv, WorkInv, JobInv
  <1>5. \A m \in Slots, q \in Requests :
          audit_logs'[<<q, m>>] = audit_logs[<<q, m>>] \/ (q = r /\ m = n)
    BY <1>0, <1>1, SlotsAndRecords
  <1> HIDE DEF r, n
  <1>6. RecordInv'
    BY <1>0, <1>1, <1>4, <1>5 DEF Inv, RecordInv
  <1>7. WorkInv'
    <2>1. ASSUME NEW q \in Replicas \ {p}, work[q].stage # "idle"
          PROVE  /\ work[q].job # r \/ work[q].start # n
                 /\ audit_logs'[<<work[q].job, work[q].start>>]
                      = audit_logs[<<work[q].job, work[q].start>>]
      <3>1. work[q].job # r \/ work[q].start # n
        BY <1>1, <2>1 DEF Inv, WorkInv, r, n
      <3> QED  BY <1>0, <1>5, <3>1
    <2>2. ASSUME NEW q \in Replicas \ {p}, work[q].stage # "idle"
          PROVE  /\ job[work[q].job] # "none"
                 /\ 1 <= work[q].start /\ work[q].start <= starts[work[q].job]
                 /\ work[q].stage = "inserting" =>
                      audit_logs'[<<work[q].job, work[q].start>>] = "none"
                 /\ work[q].stage = "inserted" =>
                      audit_logs'[<<work[q].job, work[q].start>>] # "none"
                 /\ \A o \in Replicas \ {q} : work[o].stage # "idle" =>
                      work[o].job # work[q].job \/ work[o].start # work[q].start
      BY <2>1, <2>2 DEF Inv, WorkInv
    <2>3. work'[p].stage # "inserting"
      BY <1>3
    <2>4. ASSUME NEW q \in Replicas \ {p}
          PROVE  /\ work'[q] = work[q] /\ job' = job /\ starts' = starts
                 /\ work'[p].job = r /\ work'[p].start = n
      BY <1>1, <1>3
    <2>5. ASSUME NEW q \in Replicas \ {p}, work'[q].stage # "idle"
          PROVE  \A o \in Replicas \ {q} : work'[o].stage # "idle" =>
                   work'[o].job # work'[q].job \/ work'[o].start # work'[q].start
      <3>1. work'[q] = work[q] /\ work[q].stage # "idle"
        BY <2>4, <2>5
      <3>2. work'[p].job # work'[q].job \/ work'[p].start # work'[q].start
        BY <2>1, <2>4, <3>1
      <3>3. ASSUME NEW o \in Replicas \ {p, q}, work'[o].stage # "idle"
            PROVE  work'[o].job # work'[q].job \/ work'[o].start # work'[q].start
        <4>1. work'[o] = work[o]
          BY <2>4
        <4> QED  BY <2>2, <3>1, <3>3, <4>1
      <3> QED  BY <3>2, <3>3
    <2>6. \A o \in Replicas \ {p} : work'[o].stage # "idle" =>
            work'[o].job # work'[p].job \/ work'[o].start # work'[p].start
      BY <2>1, <2>4
    <2>7. ASSUME NEW q \in Replicas \ {p}, work'[q].stage # "idle"
          PROVE  /\ job'[work'[q].job] # "none"
                 /\ 1 <= work'[q].start /\ work'[q].start <= starts'[work'[q].job]
                 /\ work'[q].stage = "inserting" =>
                      audit_logs'[<<work'[q].job, work'[q].start>>] = "none"
                 /\ work'[q].stage = "inserted" =>
                      audit_logs'[<<work'[q].job, work'[q].start>>] # "none"
      BY <2>2, <2>4, <2>7
    <2>8. /\ job'[work'[p].job] # "none"
          /\ 1 <= work'[p].start /\ work'[p].start <= starts'[work'[p].job]
          /\ work'[p].stage = "inserted" =>
               audit_logs'[<<work'[p].job, work'[p].start>>] # "none"
      BY <1>1, <1>2, <1>3, <1>4
    <2> QED  BY <2>3, <2>5, <2>6, <2>7, <2>8 DEF WorkInv
  <1> QED  BY <1>6, <1>7

LEMMA RecordsLog ==
  ASSUME Inv, NEW r \in Requests, LogStep(r)
  PROVE  WorkInv' /\ RecordInv'
  <1>0. /\ call \in [Requests -> {"none", "adding", "persisting", "done", "lost"}]
        /\ audit_logs \in [Records -> {"none", "kept", "purged"}]
        /\ \A q \in Replicas : work[q].job \in Requests /\ work[q].start \in Slots
    BY TypeParts DEF Inv, WorkTypes, Works, RecordTypes, CallTypes
  <1>1. /\ call[r] \in {"adding", "persisting"} /\ starts' = starts /\ work' = work
        /\ queued' = queued
    BY DEF LogStep, Enqueue, PersistFromPayload, LogFails, CallTo, envVars
  <1>2. CASE PersistFromPayload(r)
    <2>1. /\ call[r] = "persisting" /\ call' = [call EXCEPT ![r] = "done"] /\ job' = job
          /\ audit_logs' = [audit_logs EXCEPT ![<<r, 0>>] = "kept"]
      BY <1>2 DEF PersistFromPayload, CallTo
    <2>2. ~queued /\ job[r] = "none"
      BY <2>1 DEF Inv, CallInv, JobInv
    <2>3. RecordInv'
      <3>1. \A m \in Slots, q \in Requests :
              audit_logs'[<<q, m>>] = audit_logs[<<q, m>>] \/ (q = r /\ m = 0)
        BY <1>0, <2>1, SlotsAndRecords
      <3> QED  BY <1>0, <1>1, <2>1, <2>2, <3>1 DEF Inv, RecordInv
    <2>4. \A p \in Replicas : work[p].stage = "idle"
      <3>1. \A q \in Requests : job[q] = "none"
        BY <2>2 DEF Inv, JobInv
      <3>2. ASSUME NEW p \in Replicas, work[p].stage # "idle"
            PROVE  job[work[p].job] # "none"
        BY <3>2 DEF Inv, WorkInv
      <3> QED  BY <1>0, <3>1, <3>2
    <2>5. WorkInv'
      BY <1>1, <2>4 DEF WorkInv
    <2> QED  BY <2>3, <2>5
  <1>3. CASE Enqueue(r) \/ LogFails(r)
    <2>1. /\ audit_logs' = audit_logs
          /\ \A q \in Requests : call[q] = "done" => call'[q] = "done"
      BY <1>0, <1>1, <1>3 DEF Enqueue, LogFails, CallTo
    <2>2. \A q \in Requests : job[q] # "none" => job'[q] # "none"
      BY <1>3, TypeParts DEF Enqueue, LogFails, Inv, JobTypes
    <2> QED  BY <1>1, <2>1, <2>2, RecordsKept
  <1> QED  BY <1>2, <1>3 DEF LogStep

LEMMA RecordsReport ==
  ASSUME Inv, NEW p \in Replicas, Report(p)
  PROVE  WorkInv' /\ RecordInv'
  <1>1. /\ starts' = starts /\ call' = call /\ queued' = queued /\ audit_logs' = audit_logs
        /\ work' = [work EXCEPT ![p] = NoWork]
    BY DEF Report, JobTo, logVars, envVars
  <1>2. \A q \in Requests : job[q] # "none" => job'[q] # "none"
    <2>1. \E s : job' = [job EXCEPT ![work[p].job] = s] /\ (s # "none" \/ s = job[work[p].job])
      BY DEF Report, JobTo
    <2> QED  BY <2>1, TypeParts DEF Inv, JobTypes
  <1>3. \A q \in Replicas : work'[q] = work[q] \/ work'[q] = NoWork
    BY <1>1, TypeParts DEF Inv, WorkTypes
  <1> QED  BY <1>1, <1>2, <1>3, RecordsKept

LEMMA RecordsStep == Inv /\ [Next]_vars => WorkInv' /\ RecordInv'
  <1> SUFFICES ASSUME Inv, [Next]_vars  PROVE WorkInv' /\ RecordInv'
    OBVIOUS
  <1> USE DEF envVars, logVars, queueVars
  <1>1. ASSUME NEW r \in Requests, Handle(r)
        PROVE  WorkInv' /\ RecordInv'
    <2>1. /\ queueVars' = queueVars /\ queued' = queued /\ audit_logs' = audit_logs /\ work' = work
      BY <1>1 DEF Handle, Guards, Commit, Throw, Succeed, LogFireAndForget, RequestTo
    <2>2. \A q \in Requests : call[q] = "done" => call'[q] = "done"
      <3>1. pc[r] = "committed" => call[r] = "none"
        BY DEF Inv, CallInv, InFlight
      <3> QED  BY <1>1, <3>1, TypeParts
               DEF Inv, Handle, Guards, Commit, Throw, Succeed, LogFireAndForget, Log, CallTypes
    <2> QED  BY <2>1, <2>2, RecordsKept
  <1>2. ASSUME NEW r \in Requests, NEW p \in Replicas, NEW k \in Kinds[r], NEW u \in Users,
               NEW b \in BOOLEAN, Arrive(r, p, k, u, b)
        PROVE  WorkInv' /\ RecordInv'
    BY <1>2, RecordsKept DEF Arrive, RequestTo
  <1>3. ASSUME NEW r \in Requests, Backoff(r) \/ Stall(r)
        PROVE  WorkInv' /\ RecordInv'
    <2>1. \A q \in Requests : job[q] # "none" => job'[q] # "none"
      BY <1>3, TypeParts DEF Inv, Backoff, Stall, JobTo, JobTypes
    <2> QED  BY <1>3, <2>1, RecordsKept DEF Backoff, Stall, JobTo
  <1>4. ASSUME NEW p \in Replicas, HandleAuditPurgeCron(p) \/ PurgeStep(p)
        PROVE  WorkInv' /\ RecordInv'
    <2>1. \A x \in Records : audit_logs'[x] = "none" <=> audit_logs[x] = "none"
      BY <1>4 DEF HandleAuditPurgeCron, PurgeStep, SelectBatch, DeleteBatch, PurgeFails, Kept
    <2>2. queueVars' = queueVars /\ queued' = queued /\ call' = call /\ work' = work
      BY <1>4
         DEF HandleAuditPurgeCron, PurgeStep, SelectBatch, DeleteBatch, PurgeFails, PurgeTo
    <2> QED  BY <2>1, <2>2, RecordsKept
  <1>5. ASSUME NEW p \in Replicas, BeforeApplicationShutdown(p) \/ ShutdownStep(p) \/ Start(p)
        PROVE  WorkInv' /\ RecordInv'
    BY <1>5, RecordsKept
       DEF BeforeApplicationShutdown, ShutdownStep, OnApplicationShutdown, QueueClosed, Finished,
           Start, ProcTo, KeepsRunning
  <1>6. ASSUME NEW p \in Replicas, Exits(p)
        PROVE  WorkInv' /\ RecordInv'
    <2>1. \A q \in Replicas : work'[q] = work[q] \/ work'[q] = NoWork
      BY <1>6, TypeParts DEF Exits, Inv, WorkTypes
    <2>2. \A r \in Requests : call[r] = "done" => call'[r] = "done"
      BY <1>6 DEF Exits
    <2> QED  BY <1>6, <2>1, <2>2, RecordsKept DEF Exits
  <1>7. CASE RedisOutage
    BY <1>7, RecordsKept DEF RedisOutage
  <1>8. CASE UNCHANGED vars
    BY <1>8, RecordsKept DEF vars
  <1> QED  BY <1>1, <1>2, <1>3, <1>4, <1>5, <1>6, <1>7, <1>8, RecordsTake, RecordsProcess, RecordsLog,
              RecordsReport, Steps
-----------------------------------------------------------------------------
(* 5. What the records show.                                                *)

LEMMA InitInv == Init => Inv
  <1> SUFFICES ASSUME Init  PROVE CallInv /\ JobInv /\ WorkInv /\ RecordInv
    BY InitTypes DEF Inv
  <1>1. CallInv
    BY DEF Init, CallInv, EmptyStore
  <1>2. JobInv
    BY DEF Init, JobInv
  <1>3. WorkInv /\ RecordInv
    BY SlotsAndRecords, DefaultTypes DEF Init, WorkInv, RecordInv
  <1> QED  BY <1>1, <1>2, <1>3

LEMMA InvStep == Inv /\ [Next]_vars => Inv'
  BY TypeStep, CallStep, JobStep, RecordsStep DEF Inv

\* Every variable of AuditTrail keeps its type: no job is started more often than its
\* attempts and its stalls allow.
THEOREM AuditTypes == Spec => []TypeOK
  <1>1. Inv => TypeOK
    BY DEF Inv
  <1> QED  BY <1>1, InitInv, InvStep, PTL DEF Spec

LEMMA RecordOf ==
  ASSUME NEW r \in Requests, NEW x \in RecordsOf(r)
  PROVE  x = <<r, x[2]>> /\ x[2] \in Slots /\ audit_logs[<<r, x[2]>>] # "none"
  BY SlotsAndRecords DEF RecordsOf

\* A record carries the correlation id of its own request and, of a handler behind
\* JwtAuthGuard, the user its token named: no interleaving of requests lets the
\* AsyncLocalStorage of one reach the payload of another.
THEOREM RecordsAreOfTheirRequest == Spec => []RecordsNameTheirRequest
  <1>1. Inv => RecordsNameTheirRequest
    <2> SUFFICES ASSUME Inv, NEW r \in Requests, RecordsOf(r) # {}
                 PROVE  /\ payload[r].correlation = r
                        /\ Auditable(req[r].kind) => payload[r].actor = req[r].caller
      BY DEF RecordsNameTheirRequest
    <2>1. call[r] = "done"
      BY RecordOf DEF Inv, RecordInv
    <2> QED  BY <2>1 DEF Inv, CallInv
  <1> QED  BY <1>1, InitInv, InvStep, PTL DEF Spec

\* As many slots as failures and stalls, and one.
LEMMA SlotsCounted ==
  ASSUME Inv, NEW r \in Requests
  PROVE  /\ IsFiniteSet(RecordsOf(r))
         /\ Cardinality(RecordsOf(r)) <= 1 + fails[r] + stalls[r]
  <1>0. /\ fails[r] \in Nat /\ stalls[r] \in Nat /\ starts[r] \in Nat
        /\ job[r] \in {"none", "waiting", "active", "delayed", "completed", "failed"}
    BY TypeParts DEF Inv, CountTypes, JobTypes, Slots
  <1> DEFINE last == IF queued THEN starts[r] ELSE 1
             number(x) == IF queued THEN x[2] ELSE 1
             f == [x \in RecordsOf(r) |-> number(x)]
  <1>1. last \in Nat /\ last <= 1 + fails[r] + stalls[r]
    BY <1>0 DEF Inv, JobInv
  <1>2. f \in Injection(RecordsOf(r), 1 .. last)
    <2>1. ASSUME NEW x \in RecordsOf(r)  PROVE number(x) \in 1 .. last
      <3>1. x[2] \in Slots /\ audit_logs[<<r, x[2]>>] # "none"
        BY RecordOf
      <3> QED  BY <1>0, <3>1 DEF Inv, RecordInv, Slots
    <2>2. ASSUME NEW x \in RecordsOf(r), NEW y \in RecordsOf(r), number(x) = number(y)
          PROVE  x = y
      <3>1. x = <<r, x[2]>> /\ y = <<r, y[2]>>
        BY RecordOf
      <3>2. x[2] = y[2]
        BY <2>2, RecordOf DEF Inv, RecordInv
      <3> QED  BY <3>1, <3>2
    <2> HIDE DEF number, last
    <2> QED  BY <2>1, <2>2 DEF Injection, IsInjective
  <1> HIDE DEF f, last
  <1>3. IsFiniteSet(1 .. last) /\ Cardinality(1 .. last) = last
    BY <1>1, FS_Interval
  <1>4. /\ IsFiniteSet(RecordsOf(r))
        /\ Cardinality(RecordsOf(r)) <= Cardinality(1 .. last)
    BY <1>2, <1>3, FS_Injection
  <1>5. Cardinality(RecordsOf(r)) \in Nat
    BY <1>4, FS_CardinalityType
  <1> QED  BY <1>0, <1>1, <1>3, <1>4, <1>5

\* A mutation is recorded at most once more than BullMQ counts failures and stalls of
\* its job, however many replicas work on the queue, lose their locks or die.
THEOREM NoOtherDuplicates == Spec => []DuplicatesAreRetries
  <1>1. Inv => DuplicatesAreRetries
    BY SlotsCounted DEF DuplicatesAreRetries
  <1> QED  BY <1>1, InitInv, InvStep, PTL DEF Spec

\* Only a worker that has inserted the record completes its job.
LEMMA DoneStep == Inv /\ DoneInv /\ [Next]_vars => DoneInv'
  <1> SUFFICES ASSUME Inv, DoneInv, [Next]_vars, NEW r \in Requests, job'[r] = "completed"
               PROVE  \E n \in Slots : audit_logs'[<<r, n>>] # "none"
    BY DEF DoneInv
  <1>0. /\ job \in [Requests -> {"none", "waiting", "active", "delayed", "completed", "failed"}]
        /\ \A p \in Replicas : work[p].job \in Requests /\ work[p].start \in Slots
        /\ audit_logs \in [Records -> {"none", "kept", "purged"}]
    BY TypeParts DEF Inv, JobTypes, WorkTypes, Works, RecordTypes
  <1>1. \A x \in Records : audit_logs[x] # "none" => audit_logs'[x] # "none"
    <2> SUFFICES ASSUME Next  PROVE \A x \in Records : audit_logs[x] # "none" => audit_logs'[x] # "none"
      BY DEF vars
    <2>1. ASSUME NEW p \in Replicas, PurgeStep(p)
          PROVE  \A x \in Records : audit_logs[x] # "none" => audit_logs'[x] # "none"
      BY <2>1 DEF PurgeStep, SelectBatch, DeleteBatch, PurgeFails
    <2>2. ASSUME NEW q \in Requests, LogStep(q)
          PROVE  \A x \in Records : audit_logs[x] # "none" => audit_logs'[x] # "none"
      BY <1>0, <2>2 DEF LogStep, Enqueue, PersistFromPayload, LogFails
    <2>3. ASSUME NEW p \in Replicas, Process(p)
          PROVE  \A x \in Records : audit_logs[x] # "none" => audit_logs'[x] # "none"
      BY <1>0, <2>3 DEF Process
    <2>4. (\E q \in Requests : Handle(q)) => audit_logs' = audit_logs
      BY DEF Handle, Guards, Commit, Throw, Succeed, LogFireAndForget, RequestTo
    <2>5. (\E p \in Replicas : BeforeApplicationShutdown(p) \/ ShutdownStep(p) \/ Start(p))
            => audit_logs' = audit_logs
      BY DEF BeforeApplicationShutdown, ShutdownStep, OnApplicationShutdown, QueueClosed,
             Finished, Start, ProcTo
    <2> QED  BY <2>1, <2>2, <2>3, <2>4, <2>5, Steps
             DEF Arrive, RequestTo, Backoff, Stall, Take, Report, JobTo, HandleAuditPurgeCron,
                 Exits, RedisOutage
  <1>2. CASE job[r] = "completed"
    BY <1>1, <1>2, SlotsAndRecords DEF DoneInv
  <1>3. CASE job[r] # "completed"
    <2>1. PICK p \in Replicas : Report(p) /\ Holds(p, r) /\ work[p].stage = "inserted"
      <3>1. ASSUME NEW q \in Requests, LogStep(q)  PROVE FALSE
        BY <1>0, <1>3, <3>1 DEF LogStep, Enqueue, PersistFromPayload, LogFails
      <3>2. ASSUME NEW q \in Requests, Backoff(q) \/ Stall(q) \/ \E p \in Replicas : Take(p, q)
            PROVE  FALSE
        BY <1>0, <1>3, <3>2 DEF Backoff, Stall, Take, JobTo
      <3>3. ASSUME NEW p \in Replicas, Report(p)
            PROVE  Holds(p, r) /\ work[p].stage = "inserted"
        <4>1. CASE Holds(p, work[p].job) /\ work[p].stage = "inserted"
          <5>1. job' = [job EXCEPT ![work[p].job] = "completed"]
            BY <3>3, <4>1 DEF Report, JobTo
          <5> QED  BY <1>0, <1>3, <4>1, <5>1
        <4>2. CASE ~(Holds(p, work[p].job) /\ work[p].stage = "inserted")
          <5>1. \E s : /\ job' = [job EXCEPT ![work[p].job] = s]
                       /\ s \in {job[work[p].job], "delayed", "failed"}
            BY <3>3, <4>2 DEF Report, JobTo
          <5> QED  BY <1>0, <1>3, <5>1
        <4> QED  BY <4>1, <4>2
      <3>4. (\E q \in Requests : Handle(q)) => job' = job
        BY DEF Handle, Guards, Commit, Throw, Succeed, LogFireAndForget, RequestTo, queueVars
      <3>5. (\E q \in Replicas : PurgeStep(q)) => job' = job
        BY DEF PurgeStep, SelectBatch, DeleteBatch, PurgeFails, PurgeTo, queueVars
      <3>6. (\E q \in Replicas : BeforeApplicationShutdown(q) \/ ShutdownStep(q) \/ Start(q))
              => job' = job
        BY DEF BeforeApplicationShutdown, ShutdownStep, OnApplicationShutdown, QueueClosed,
               Finished, Start, ProcTo, queueVars
      <3>7. job' # job /\ Next
        BY <1>3 DEF vars, queueVars
      <3> QED  BY <3>1, <3>2, <3>3, <3>4, <3>5, <3>6, <3>7, Steps
               DEF Arrive, RequestTo, Process, HandleAuditPurgeCron, Exits, RedisOutage, queueVars
    <2>2. /\ work[p].job = r /\ work[p].start \in Slots /\ audit_logs' = audit_logs
          /\ audit_logs[<<work[p].job, work[p].start>>] # "none"
      BY <1>0, <2>1 DEF Holds, Report, JobTo, Inv, WorkInv
    <2> QED  BY <2>2
  <1> QED  BY <1>2, <1>3

\* A job that BullMQ considers done has left a record, since a worker reports success
\* only of the INSERT it has awaited and is heard only while it holds the lock.
THEOREM CompletedLeavesRecord == Spec => []CompletedIsWritten
  <1>1. Init => DoneInv
    BY DEF Init, DoneInv
  <1>2. DoneInv => CompletedIsWritten
    <2> SUFFICES ASSUME DoneInv, NEW r \in Requests, job[r] = "completed"
                 PROVE  RecordsOf(r) # {}
      BY DEF CompletedIsWritten
    <2>1. PICK n \in Slots : audit_logs[<<r, n>>] # "none"
      BY DEF DoneInv
    <2>2. <<r, n>> \in RecordsOf(r)
      BY <2>1, SlotsAndRecords DEF RecordsOf
    <2> QED  BY <2>2
  <1> QED  BY <1>1, <1>2, InitInv, InvStep, DoneStep, PTL DEF Spec
-----------------------------------------------------------------------------
(* 6. The purge.                                                            *)

LEMMA FiniteRecords == IsFiniteSet(Records)
  <1>1. IsFiniteSet(Slots)
    BY FS_Interval DEF Slots, Attempts
  <1> QED  BY <1>1, FS_Product, SlotsAndRecords

\* Only records that were not there yet may appear while a purge is under way.
LEMMA PurgeKept ==
  ASSUME TypeOK, PurgeInv, purge' = purge,
         \A x \in Records : audit_logs'[x] = audit_logs[x] \/ audit_logs[x] = "none"
  PROVE  PurgeInv'
  <1>0. \A p \in Replicas : purge[p].cutoff \subseteq Records
    BY TypeParts DEF PurgeTypes, Purges
  <1>1. ASSUME NEW p \in Replicas, purge[p].step # "off"
        PROVE  /\ \A x \in purge[p].cutoff : audit_logs'[x] = audit_logs[x]
               /\ purge[p].cutoff \intersect Kept' = purge[p].cutoff \intersect Kept
    <2>1. \A x \in purge[p].cutoff : audit_logs'[x] = audit_logs[x]
      BY <1>0, <1>1 DEF PurgeInv
    <2> QED  BY <2>1 DEF Kept
  <1>2. ASSUME NEW p \in Replicas, purge[p].step # "off"
        PROVE  \A x \in purge[p].cutoff : audit_logs'[x] # "none"
    BY <1>1, <1>2 DEF PurgeInv
  <1> QED  BY <1>1, <1>2 DEF PurgeInv

\* A purge that ends leaves the others as they are.
LEMMA PurgeEnds ==
  ASSUME TypeOK, PurgeInv, NEW p \in Replicas, purge' = [purge EXCEPT ![p] = NoPurge],
         audit_logs' = audit_logs
  PROVE  PurgeInv'
  <1>1. /\ purge'[p].step = "off" /\ Kept' = Kept
        /\ \A q \in Replicas \ {p} : purge'[q] = purge[q]
    BY TypeParts, DefaultTypes DEF PurgeTypes, Kept
  <1> QED  BY <1>1 DEF PurgeInv

LEMMA PurgeBegins ==
  ASSUME TypeOK, PurgeInv, NEW p \in Replicas, HandleAuditPurgeCron(p)
  PROVE  PurgeInv'
  <1>1. PICK old \in SUBSET Kept : purge' = [q \in Replicas |->
          IF q = p THEN [NoPurge EXCEPT !.step = "select", !.cutoff = old, !.alone = Others(p) = {}]
          ELSE [purge[q] EXCEPT !.alone = purge[q].step = "off"]]
    BY DEF HandleAuditPurgeCron
  <1>2. audit_logs' = audit_logs
    BY DEF HandleAuditPurgeCron
  <1>3. /\ purge'[p].step = "select" /\ purge'[p].cutoff = old
        /\ purge'[p].alone = (Others(p) = {})
    BY <1>1 DEF NoPurge
  <1>4. ASSUME NEW q \in Replicas \ {p}
        PROVE  /\ purge'[q].step = purge[q].step /\ purge'[q].cutoff = purge[q].cutoff
               /\ purge[q].step # "off" => ~purge'[q].alone
    <2>1. purge[q] \in Purges
      BY TypeParts DEF PurgeTypes
    <2>2. purge'[q] = [purge[q] EXCEPT !.alone = (purge[q].step = "off")]
      BY <1>1
    <2> QED  BY <2>1, <2>2 DEF Purges
  <1>5. (\E q \in Replicas \ {p} : purge[q].step # "off") => ~purge'[p].alone
    BY <1>3 DEF Others
  <1>6. \A x \in old : audit_logs[x] # "none"
    BY DEF Kept
  <1>7. ASSUME NEW q \in Replicas \ {p}, purge'[q].step # "off"
        PROVE  /\ \A x \in purge'[q].cutoff : audit_logs'[x] # "none"
               /\ ~purge'[q].alone /\ ~purge'[p].alone
    BY <1>2, <1>4, <1>5, <1>7 DEF PurgeInv
  <1>8. \A x \in purge'[p].cutoff : audit_logs'[x] # "none"
    BY <1>2, <1>3, <1>6
  <1> QED  BY <1>3, <1>7, <1>8 DEF PurgeInv

LEMMA PurgeSelects ==
  ASSUME TypeOK, PurgeInv, NEW p \in Replicas, SelectBatch(p)
  PROVE  PurgeInv'
  <1> DEFINE candidates == purge[p].cutoff \intersect Kept
  <1>1. PICK b \in SUBSET candidates :
          /\ Cardinality(b) = Smaller(Cardinality(candidates), BatchSize)
          /\ purge' = [purge EXCEPT ![p] = [purge[p] EXCEPT !.step = "delete", !.batch = b]]
    BY DEF SelectBatch, PurgeTo, Smaller
  <1>2. purge[p].step = "select" /\ audit_logs' = audit_logs /\ Kept' = Kept
    BY DEF SelectBatch, Kept
  <1>3. /\ purge'[p].step = "delete" /\ purge'[p].batch = b /\ purge'[p].cutoff = purge[p].cutoff
        /\ purge'[p].alone = purge[p].alone
        /\ \A q \in Replicas \ {p} : purge'[q] = purge[q]
    BY <1>1, TypeParts DEF PurgeTypes, Purges
  <1>4. ASSUME NEW q \in Replicas, purge'[q].step # "off"
        PROVE  /\ \A x \in purge'[q].cutoff : audit_logs'[x] # "none"
               /\ \A o \in Replicas \ {q} : purge'[o].step # "off" => ~purge'[q].alone
    <2>1. \A o \in Replicas : /\ purge'[o].cutoff = purge[o].cutoff
                              /\ purge'[o].alone = purge[o].alone
                              /\ purge'[o].step # "off" => purge[o].step # "off"
      BY <1>2, <1>3
    <2> QED  BY <1>2, <1>4, <2>1 DEF PurgeInv
  <1>5. /\ purge'[p].batch \subseteq purge'[p].cutoff \intersect Kept'
        /\ Cardinality(purge'[p].batch)
             = Smaller(Cardinality(purge'[p].cutoff \intersect Kept'), BatchSize)
    BY <1>1, <1>2, <1>3
  <1>6. ASSUME NEW q \in Replicas \ {p}, purge'[q].step = "delete", purge'[q].alone
        PROVE  /\ purge'[q].batch \subseteq purge'[q].cutoff \intersect Kept'
               /\ Cardinality(purge'[q].batch)
                    = Smaller(Cardinality(purge'[q].cutoff \intersect Kept'), BatchSize)
    BY <1>2, <1>3, <1>6 DEF PurgeInv
  <1> QED  BY <1>4, <1>5, <1>6 DEF PurgeInv

LEMMA PurgeDeletes ==
  ASSUME TypeOK, PurgeInv, NEW p \in Replicas, DeleteBatch(p)
  PROVE  PurgeInv'
  <1>1. /\ purge[p].step = "delete"
        /\ \E s \in {"off", "select"} :
             purge' = [purge EXCEPT ![p] = [purge[p] EXCEPT !.step = s, !.batch = {}]]
    BY DEF DeleteBatch, PurgeTo
  <1>2. /\ purge'[p].step # "delete" /\ purge'[p].cutoff = purge[p].cutoff
        /\ purge'[p].alone = purge[p].alone
        /\ \A q \in Replicas \ {p} : purge'[q] = purge[q]
    BY <1>1, TypeParts DEF PurgeTypes, Purges
  <1>3. \A x \in Records : audit_logs[x] # "none" => audit_logs'[x] # "none"
    BY DEF DeleteBatch
  <1>4. \A q \in Replicas : purge[q].cutoff \subseteq Records
    BY TypeParts DEF PurgeTypes, Purges
  <1>5. \A q \in Replicas \ {p} : purge[q].step # "off" => ~purge[q].alone
    BY <1>1 DEF PurgeInv
  <1> QED  BY <1>1, <1>2, <1>3, <1>4, <1>5 DEF PurgeInv

LEMMA InitPurge == Init => PurgeInv
  BY DefaultTypes DEF Init, PurgeInv

LEMMA PurgeInvStep == Inv /\ PurgeInv /\ [Next]_vars => PurgeInv'
  <1> SUFFICES ASSUME Inv, TypeOK, PurgeInv, [Next]_vars  PROVE PurgeInv'
    BY DEF Inv
  <1>1. ASSUME NEW r \in Requests, LogStep(r)
        PROVE  PurgeInv'
    <2>1. CASE PersistFromPayload(r)
      <3>1. ~queued /\ call[r] # "done"
        BY <2>1 DEF PersistFromPayload, Inv, CallInv
      <3>2. audit_logs[<<r, 0>>] = "none"
        BY <3>1, SlotsAndRecords DEF Inv, RecordInv
      <3>3. \A x \in Records : audit_logs'[x] = audit_logs[x] \/ audit_logs[x] = "none"
        BY <2>1, <3>2, TypeParts DEF PersistFromPayload, RecordTypes
      <3>4. purge' = purge
        BY <2>1 DEF PersistFromPayload, CallTo
      <3> QED  BY <3>3, <3>4, PurgeKept
    <2>2. CASE Enqueue(r) \/ LogFails(r)
      BY <2>2, PurgeKept DEF Enqueue, LogFails, CallTo
    <2> QED  BY <1>1, <2>1, <2>2 DEF LogStep
  <1>2. ASSUME NEW p \in Replicas, Process(p)
        PROVE  PurgeInv'
    <2>1. audit_logs[<<work[p].job, work[p].start>>] = "none"
      BY <1>2 DEF Process, Inv, WorkInv
    <2>2. \A x \in Records : audit_logs'[x] = audit_logs[x] \/ audit_logs[x] = "none"
      BY <1>2, <2>1, TypeParts DEF Process, RecordTypes
    <2> QED  BY <1>2, <2>2, PurgeKept DEF Process
  <1>3. ASSUME NEW p \in Replicas, PurgeStep(p)
        PROVE  PurgeInv'
    BY <1>3, PurgeSelects, PurgeDeletes, PurgeEnds DEF PurgeStep, PurgeFails, PurgeTo
  <1>4. ASSUME NEW p \in Replicas, Exits(p)
        PROVE  PurgeInv'
    BY <1>4, PurgeEnds DEF Exits
  <1>5. ASSUME NEW r \in Requests, Handle(r)
        PROVE  PurgeInv'
    <2>1. purge' = purge /\ audit_logs' = audit_logs
      BY <1>5 DEF Handle, Guards, Commit, Throw, Succeed, LogFireAndForget, RequestTo
    <2> QED  BY <2>1, PurgeKept
  <1>6. ASSUME NEW p \in Replicas, BeforeApplicationShutdown(p) \/ ShutdownStep(p) \/ Start(p)
        PROVE  PurgeInv'
    <2>1. purge' = purge /\ audit_logs' = audit_logs
      BY <1>6 DEF BeforeApplicationShutdown, ShutdownStep, OnApplicationShutdown, QueueClosed,
                  Finished, Start, ProcTo, KeepsRunning
    <2> QED  BY <2>1, PurgeKept
  <1>7. ASSUME NEW r \in Requests, Backoff(r) \/ Stall(r) \/ \E p \in Replicas : Take(p, r)
        PROVE  PurgeInv'
    BY <1>7, PurgeKept DEF Backoff, Stall, Take, JobTo
  <1>8. ASSUME NEW p \in Replicas, Report(p)
        PROVE  PurgeInv'
    BY <1>8, PurgeKept DEF Report, JobTo
  <1>9. ASSUME NEW r \in Requests, NEW p \in Replicas, NEW k \in Kinds[r], NEW u \in Users,
               NEW b \in BOOLEAN, Arrive(r, p, k, u, b)
        PROVE  PurgeInv'
    BY <1>9, PurgeKept DEF Arrive, RequestTo
  <1>10. CASE RedisOutage
    BY <1>10, PurgeKept DEF RedisOutage
  <1>11. CASE UNCHANGED vars
    BY <1>11, PurgeKept DEF vars
  <1> QED  BY <1>1, <1>2, <1>3, <1>4, <1>5, <1>6, <1>7, <1>8, <1>9, <1>10, <1>11, PurgeBegins, Steps

\* A batch that is not full is all that was left of the cutoff.
LEMMA LastBatchClears ==
  ASSUME TypeOK, PurgeInv, NEW p \in Replicas, DeleteBatch(p), purge[p].alone,
         purge'[p].step = "off"
  PROVE  \A x \in purge[p].cutoff : audit_logs'[x] = "purged"
  <1> DEFINE candidates == purge[p].cutoff \intersect Kept
             deleted == purge[p].batch \intersect Kept
  <1>0. /\ purge[p].cutoff \subseteq Records /\ Kept \subseteq Records
        /\ audit_logs \in [Records -> {"none", "kept", "purged"}]
    BY TypeParts DEF PurgeTypes, Purges, Kept, RecordTypes
  <1>1. /\ purge[p].batch \subseteq candidates
        /\ Cardinality(purge[p].batch) = Smaller(Cardinality(candidates), BatchSize)
        /\ \A x \in purge[p].cutoff : audit_logs[x] # "none"
    BY DEF DeleteBatch, PurgeInv
  <1>2. deleted = purge[p].batch
    BY <1>1
  <1>3. Cardinality(deleted) < BatchSize
    <2>1. purge'[p].step = IF Cardinality(deleted) < BatchSize THEN "off" ELSE "select"
      BY TypeParts DEF DeleteBatch, PurgeTo, LastBatch, PurgeTypes, Purges
    <2> QED  BY <2>1
  <1>4. IsFiniteSet(candidates) /\ Cardinality(candidates) \in Nat
    BY <1>0, FiniteRecords, FS_Subset, FS_CardinalityType
  <1>5. Cardinality(deleted) = Cardinality(candidates)
    <2>1. Cardinality(deleted) = Smaller(Cardinality(candidates), BatchSize)
      BY <1>1, <1>2
    <2> HIDE DEF deleted, candidates
    <2> QED  BY <1>3, <1>4, <2>1 DEF Smaller
  <1>6. deleted = candidates
    BY <1>1, <1>2, <1>4, <1>5, FS_Subset
  <1>7. \A x \in Records : audit_logs'[x] = IF x \in deleted THEN "purged" ELSE audit_logs[x]
    BY DEF DeleteBatch
  <1> QED  BY <1>0, <1>1, <1>6, <1>7 DEF Kept

\* A purge that ran without another beside it, and ended without an error, has deleted
\* everything that was past the retention when it began, whatever was written meanwhile
\* and whatever the size of a batch: the loop of runAuditPurge does not stop too early.
THEOREM PurgeIsComplete == Spec => PurgeClears
  <1>1. ASSUME Inv, PurgeInv, [Next]_vars, NEW p \in Replicas,
               purge[p].step = "delete", purge'[p].step = "off", purge[p].alone,
               purge'[p].cutoff # {}
        PROVE  \A x \in purge[p].cutoff : audit_logs'[x] = "purged"
    <2>0. TypeOK /\ purge'[p] # purge[p] /\ purge'[p] # NoPurge
      BY <1>1, DefaultTypes DEF Inv
    <2>1. DeleteBatch(p)
      <3>1. ASSUME NEW q \in Replicas, PurgeStep(q)
            PROVE  DeleteBatch(p)
        <4>1. q = p
          BY <2>0, <3>1, TypeParts
             DEF PurgeStep, SelectBatch, DeleteBatch, PurgeFails, PurgeTo, PurgeTypes
        <4>2. ~PurgeFails(p)
          BY <2>0, TypeParts DEF PurgeFails, PurgeTo, PurgeTypes
        <4>3. ~SelectBatch(p)
          BY <1>1 DEF SelectBatch
        <4> QED  BY <3>1, <4>1, <4>2, <4>3 DEF PurgeStep
      <3>2. ASSUME NEW q \in Replicas, Exits(q)
            PROVE  FALSE
        BY <2>0, <3>2, TypeParts DEF Exits, PurgeTypes
      <3>3. ASSUME NEW q \in Replicas, HandleAuditPurgeCron(q)
            PROVE  FALSE
        <4>1. q # p
          BY <1>1, <3>3 DEF HandleAuditPurgeCron
        <4>2. purge'[p].step = purge[p].step
          <5>1. purge'[p] = [purge[p] EXCEPT !.alone = (purge[p].step = "off")]
            BY <3>3, <4>1 DEF HandleAuditPurgeCron
          <5>2. purge[p] \in Purges
            BY <2>0, TypeParts DEF PurgeTypes
          <5> QED  BY <5>1, <5>2 DEF Purges
        <4> QED  BY <1>1, <4>2
      <3>4. ~ \E r \in Requests : Handle(r)
        BY <2>0 DEF Handle, Guards, Commit, Throw, Succeed, LogFireAndForget, RequestTo
      <3>5. ~ \E r \in Requests : LogStep(r)
        BY <2>0 DEF LogStep, Enqueue, PersistFromPayload, LogFails, CallTo
      <3>6. ~ \E q \in Replicas : BeforeApplicationShutdown(q) \/ ShutdownStep(q) \/ Start(q)
        BY <2>0 DEF BeforeApplicationShutdown, ShutdownStep, OnApplicationShutdown, QueueClosed,
                    Finished, Start, ProcTo, KeepsRunning
      <3>7. Next
        BY <1>1, <2>0 DEF vars
      <3> QED  BY <2>0, <3>1, <3>2, <3>3, <3>4, <3>5, <3>6, <3>7, Steps
               DEF Arrive, RequestTo, Backoff, Stall, Take, Report, Process, JobTo, RedisOutage
    <2> QED  BY <1>1, <2>0, <2>1, LastBatchClears
  <1>2. Inv /\ PurgeInv /\ [Next]_vars =>
          [\A p \in Replicas :
             purge[p].step = "delete" /\ purge'[p].step = "off" /\ purge[p].alone
               /\ purge'[p].cutoff # {} =>
             \A x \in purge[p].cutoff : audit_logs'[x] = "purged"]_vars
    BY <1>1
  <1> QED  BY <1>2, InitInv, InvStep, InitPurge, PurgeInvStep, PTL DEF Spec, PurgeClears
=============================================================================
