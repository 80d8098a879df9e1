---------------------------- MODULE AuthSessions ----------------------------
(***************************************************************************)
(* Sessions, refresh-token rotation, mass revocation and account lockout:   *)
(* AuthService, the parts of UsersService and UserAdminService it drives,   *)
(* and the session half of PurgeService.                                    *)
(*                                                                         *)
(* A session is a number given out in order of creation.  The number stands *)
(* for the row of the sessions table, for the refresh token whose hash the  *)
(* row holds and for the jti of the access token issued with it.            *)
(*                                                                         *)
(* A request is one call of a handler.  Between two awaits a handler runs   *)
(* alone, so every action is the code from one await to the next; a         *)
(* statement outside a transaction commits at once, and a transaction keeps *)
(* the rows it locked until it commits.                                     *)
(***************************************************************************)
EXTENDS Naturals, FiniteSets

CONSTANTS
  Users,             \* accounts
  Requests,          \* handler calls that may be in progress at the same time
  NoReq,             \* "no request": the owner of a row nobody has locked
  MaxSessions,       \* bound: rows ever created
  MaxPassword,       \* bound: password changes of one account
  MaxAge,            \* bound: 0 tokens never expire, 1 access tokens do, 2 all do
  MaxLockExpiries,   \* bound: times a lockout runs out
  LockoutThreshold,  \* LOCKOUT_THRESHOLD
  ClientOps,         \* the operations the environment performs in this instance
  Faults             \* what may fail: "cache" (Redis), "db" (PostgreSQL)

Operations == {"login", "wrongLogin", "refresh", "logout", "logoutAll",
               "changePassword", "deactivate", "activate", "purge"}

ASSUME RequestsAssumption == NoReq \notin Requests
ASSUME FinitelyMany     == IsFiniteSet(Requests)
ASSUME UsersAssumption    == Users # {}
ASSUME BoundsAssumption   == /\ MaxSessions \in Nat
                             /\ MaxPassword \in Nat
                             /\ MaxLockExpiries \in Nat
                             /\ MaxAge \in 0..2
ASSUME ThresholdAssumption == LockoutThreshold \in Nat \ {0}
ASSUME OpsAssumption      == ClientOps \subseteq Operations
ASSUME FaultsAssumption   == Faults \subseteq {"cache", "db"}

Sessions  == 1 .. MaxSessions
NoSession == 0
Ref       == Sessions \union {NoSession}

VARIABLES
  \* the sessions table
  state,        \* "absent", "active" (revoked_at IS NULL) or "revoked"
  owner,        \* user_id, also the sub of the two tokens
  rotatedFrom,  \* rotated_from_session_id
  rotatedTo,    \* rotated_to_session_id
  lock,         \* which request's transaction or statement has the row locked
  age,          \* 0: both tokens live, 1: access token expired, 2: both and the row
  count,        \* rows created so far
  \* the users table
  isActive,
  password,             \* version of the password hash
  failedLoginAttempts,
  locked,               \* lockedUntil lies in the future
  expiries,             \* lockouts that have run out
  \* Redis
  deny,         \* sessions whose access jti is on the denylist
  \* the handlers
  pc, job,
  todo,         \* rows the running bulk UPDATE, or the denylisting, has still to visit
  \* history, read by no action
  root,         \* the session of the login a session descends from: its family
  cred          \* the password version that login was checked against

rowVars  == <<state, owner, rotatedFrom, rotatedTo, count, root, cred>>
userVars == <<isActive, password, failedLoginAttempts, locked>>
vars     == <<rowVars, lock, age, userVars, expiries, deny, pc, job, todo>>
-----------------------------------------------------------------------------
Resting == {"idle", "failed"}
Steps   == {"compare", "create", "lookup", "user", "rotate", "find", "deny",
            "rows", "denyOne", "revokeOne", "setPassword", "setActive"}
Kinds   == {"none", "login", "refresh", "reuse", "denied", "logout", "logoutAll",
            "changePassword", "deactivate", "activate"}

Job == [op : Kinds, user : Users, sid : Ref, tok : Ref, ok : BOOLEAN,
        pw : 0 .. MaxPassword, mark : Ref]

AnyUser == CHOOSE u \in Users : TRUE

NoJob == [op |-> "none", user |-> AnyUser, sid |-> NoSession, tok |-> NoSession,
          ok |-> FALSE, pw |-> 0, mark |-> 0]

\* A call made for user u with the tokens of session s; mark remembers which
\* sessions existed when the call arrived.
Call(op, u, s) == [op |-> op, user |-> u, sid |-> s, tok |-> NoSession,
                   ok |-> FALSE, pw |-> 0, mark |-> count]

Init ==
  /\ state = [s \in Sessions |-> "absent"]
  /\ owner = [s \in Sessions |-> AnyUser]
  /\ rotatedFrom = [s \in Sessions |-> NoSession]
  /\ rotatedTo = [s \in Sessions |-> NoSession]
  /\ lock = [s \in Sessions |-> NoReq]
  /\ age = [s \in Sessions |-> 0]
  /\ count = 0
  /\ isActive = [u \in Users |-> TRUE]
  /\ password = [u \in Users |-> 0]
  /\ failedLoginAttempts = [u \in Users |-> 0]
  /\ locked = [u \in Users |-> FALSE]
  /\ expiries = 0
  /\ deny = {}
  /\ pc = [r \in Requests |-> "idle"]
  /\ job = [r \in Requests |-> NoJob]
  /\ todo = [r \in Requests |-> {}]
  /\ root = [s \in Sessions |-> NoSession]
  /\ cred = [s \in Sessions |-> 0]
-----------------------------------------------------------------------------
(* Control flow shared by the handlers.                                     *)

Begin(r, step, j) ==
  /\ pc[r] \in Resting
  /\ pc' = [pc EXCEPT ![r] = step]
  /\ job' = [job EXCEPT ![r] = j]
  /\ UNCHANGED todo

Continue(r, step) ==
  /\ pc' = [pc EXCEPT ![r] = step]
  /\ UNCHANGED <<job, todo>>

\* The handler returns or throws what it means to ("idle"), or an error it
\* did not expect reaches the client ("failed").
Answer(r, outcome) ==
  /\ pc' = [pc EXCEPT ![r] = outcome]
  /\ job' = [job EXCEPT ![r] = NoJob]
  /\ todo' = [todo EXCEPT ![r] = {}]

\* An unguarded cache call: its rejection leaves the handler there and then.
CacheCallThen(r, step) ==
  \/ Continue(r, step)
  \/ "cache" \in Faults /\ Answer(r, "failed")

CacheCallThenAnswer(r) ==
  \/ Answer(r, "idle")
  \/ "cache" \in Faults /\ Answer(r, "failed")

KeepLocks(r) == lock
\* Commit or rollback gives up every row lock of the request.
Unlock(r) == [s \in Sessions |-> IF lock[s] = r THEN NoReq ELSE lock[s]]

NoRowLocks(r, s) == TRUE
RowFree(r, s) == lock[s] \in {NoReq, r}

ReadOnly(r, s) == lock
Locked(r, s) == [lock EXCEPT ![s] = r]

ActiveOfAnybody(u) == {s \in Sessions : state[s] = "active"}
\* WHERE user_id = :userId AND revoked_at IS NULL
ActiveOf(u) == {s \in Sessions : state[s] = "active" /\ owner[s] = u}

\* JwtStrategy.validate: the access token has not expired and its jti is not on
\* the denylist.  Its test of the user row reads a copy cached for up to 30 s,
\* so it may let the request through whatever the row says.
Authenticates(s) == s \in 1 .. count /\ age[s] = 0 /\ s \notin deny

ForgetSuccessor(t, parent) == rotatedTo
\* SET rotated_to_session_id of the rotated row.
Successor(t, parent) == [s \in Sessions |-> IF s = parent THEN t ELSE rotatedTo[s]]

\* INSERT INTO sessions, and for a rotation the UPDATE of the rotated row that
\* commits with it.
Insert(t, u, parent, pw) ==
  /\ state' = [s \in Sessions |-> IF s = t THEN "active"
                                  ELSE IF s = parent THEN "revoked" ELSE state[s]]
  /\ owner' = [owner EXCEPT ![t] = u]
  /\ rotatedFrom' = [rotatedFrom EXCEPT ![t] = parent]
  /\ rotatedTo' = Successor(t, parent)
  /\ root' = [root EXCEPT ![t] = IF parent = NoSession THEN t ELSE root[parent]]
  /\ cred' = [cred EXCEPT ![t] = pw]
  /\ count' = t
-----------------------------------------------------------------------------
(* login                                                                    *)

LoginAllowed(u) == isActive[u] /\ ~locked[u]

\* findOneWithPassword and the two early rejections.  ok: whether the password
\* offered matches the hash that was read.
Login(r, u, ok) ==
  /\ (IF ok THEN "login" ELSE "wrongLogin") \in ClientOps
  /\ LoginAllowed(u)
  /\ Begin(r, "compare", [Call("login", u, NoSession) EXCEPT !.ok = ok, !.pw = password[u]])
  /\ UNCHANGED <<rowVars, lock, age, userVars, expiries, deny>>

LockLater(u) == failedLoginAttempts[u] + 1 > LockoutThreshold /\ ~locked[u]
ShouldLock(u) == failedLoginAttempts[u] + 1 >= LockoutThreshold /\ ~locked[u]

\* bcrypt says no: recordFailedLogin, one transaction on the user row.
RecordFailedLogin(r) ==
  LET u == job[r].user IN
  /\ pc[r] = "compare" /\ ~job[r].ok
  /\ failedLoginAttempts' = [failedLoginAttempts EXCEPT ![u] = @ + 1]
  /\ locked' = [locked EXCEPT ![u] = @ \/ ShouldLock(u)]
  /\ CacheCallThenAnswer(r)
  /\ UNCHANGED <<rowVars, lock, age, isActive, password, expiries, deny>>

\* bcrypt says yes: resetFailedLogin.
ResetFailedLogin(r) ==
  LET u == job[r].user IN
  /\ pc[r] = "compare" /\ job[r].ok
  /\ failedLoginAttempts' = [failedLoginAttempts EXCEPT ![u] = 0]
  /\ locked' = [locked EXCEPT ![u] = FALSE]
  /\ CacheCallThen(r, "create")
  /\ UNCHANGED <<rowVars, lock, age, isActive, password, expiries, deny>>

CreateTokensAndSession(r) ==
  /\ pc[r] = "create"
  /\ count < MaxSessions
  /\ Insert(count + 1, job[r].user, NoSession, job[r].pw)
  /\ Answer(r, "idle")
  /\ UNCHANGED <<lock, age, userVars, expiries, deny>>
-----------------------------------------------------------------------------
(* refresh: a transaction that starts by locking the row of the token.      *)

Refresh(r, s) ==
  /\ "refresh" \in ClientOps
  /\ s \in 1 .. count /\ age[s] < 2
  /\ Begin(r, "lookup", Call("refresh", owner[s], s))
  /\ UNCHANGED <<rowVars, lock, age, userVars, expiries, deny>>

\* SELECT ... FOR UPDATE has returned; what the locked row says.
LookupDone(r) == pc[r] = "lookup" /\ RowFree(r, job[r].sid)

Refused(s) == \/ state[s] = "absent"
              \/ state[s] = "revoked" /\ rotatedTo[s] # NoSession
              \/ state[s] = "active" /\ age[s] = 2

RefreshRefused(r) ==
  /\ LookupDone(r)
  /\ Refused(job[r].sid)
  /\ Answer(r, "idle")
  /\ UNCHANGED <<rowVars, lock, age, userVars, expiries, deny>>

RefreshReuse(r) ==
  /\ LookupDone(r)
  /\ state[job[r].sid] = "revoked" /\ rotatedTo[job[r].sid] = NoSession
  /\ lock' = Locked(r, job[r].sid)
  /\ pc' = [pc EXCEPT ![r] = "find"]
  /\ job' = [job EXCEPT ![r].op = "reuse"]
  /\ UNCHANGED <<rowVars, age, userVars, expiries, deny, todo>>

RefreshLock(r) ==
  /\ LookupDone(r)
  /\ state[job[r].sid] = "active" /\ age[job[r].sid] < 2
  /\ lock' = Locked(r, job[r].sid)
  /\ Continue(r, "user")
  /\ UNCHANGED <<rowVars, age, userVars, expiries, deny>>

\* The user row is read without a lock.
RefreshUser(r) ==
  /\ pc[r] = "user"
  /\ \/ LoginAllowed(job[r].user) /\ Continue(r, "rotate")
     \/ /\ ~LoginAllowed(job[r].user)
        /\ pc' = [pc EXCEPT ![r] = "find"]
        /\ job' = [job EXCEPT ![r].op = "denied"]
        /\ UNCHANGED todo
  /\ UNCHANGED <<rowVars, lock, age, userVars, expiries, deny>>

RefreshRotate(r) ==
  /\ pc[r] = "rotate"
  /\ count < MaxSessions
  /\ Insert(count + 1, job[r].user, job[r].sid, cred[job[r].sid])
  /\ lock' = Unlock(r)
  /\ Answer(r, "idle")
  /\ UNCHANGED <<age, userVars, expiries, deny>>
-----------------------------------------------------------------------------
(* revokeAllUserSessions: denylist what is active, then one bulk UPDATE.    *)

DenylistFind(r) ==
  /\ pc[r] = "find"
  /\ todo' = [todo EXCEPT ![r] = ActiveOf(job[r].user)]
  /\ pc' = [pc EXCEPT ![r] = "deny"]
  /\ UNCHANGED <<rowVars, lock, age, userVars, expiries, deny, job>>

OnlyDenylisted(u, D) == D
\* The rows the UPDATE finds; D is what has reached the denylist.
UpdateSnapshot(u, D) == ActiveOf(u)

\* The sets run in parallel and a failure is swallowed: any of them may be
\* missing then.  The UPDATE takes its snapshot next.
DenylistSet(r) ==
  /\ pc[r] = "deny"
  /\ \E D \in SUBSET todo[r] :
       /\ D = todo[r] \/ "cache" \in Faults
       /\ deny' = deny \union D
       /\ todo' = [todo EXCEPT ![r] = UpdateSnapshot(job[r].user, D)]
  /\ pc' = [pc EXCEPT ![r] = "rows"]
  /\ UNCHANGED <<rowVars, lock, age, userVars, expiries, job>>

\* The UPDATE visits the rows of its snapshot in no particular order, waits for
\* a row another transaction has locked, and tests the condition again.
RevokeRow(r, s) ==
  /\ pc[r] = "rows" /\ s \in todo[r]
  /\ RowFree(r, s)
  /\ lock' = IF state[s] = "active" THEN Locked(r, s) ELSE lock
  /\ todo' = [todo EXCEPT ![r] = @ \ {s}]
  /\ UNCHANGED <<rowVars, age, userVars, expiries, deny, pc, job>>

RevokeCommit(r) ==
  /\ pc[r] = "rows" /\ todo[r] = {}
  /\ state' = [s \in Sessions |-> IF state[s] = "active" /\ lock[s] = r
                                  THEN "revoked" ELSE state[s]]
  /\ lock' = Unlock(r)
  /\ Answer(r, "idle")
  /\ UNCHANGED <<owner, rotatedFrom, rotatedTo, count, root, cred, age, userVars,
                 expiries, deny>>
-----------------------------------------------------------------------------
(* logout, logoutAll                                                        *)

\* The refresh token in the body is optional and can be anybody's.
Logout(r, s, t) ==
  /\ "logout" \in ClientOps
  /\ Authenticates(s) /\ t \in 0 .. count
  /\ Begin(r, "denyOne", [Call("logout", owner[s], s) EXCEPT !.tok = t])
  /\ UNCHANGED <<rowVars, lock, age, userVars, expiries, deny>>

LogoutAll(r, s) ==
  /\ "logoutAll" \in ClientOps
  /\ Authenticates(s)
  /\ Begin(r, "denyOne", Call("logoutAll", owner[s], s))
  /\ UNCHANGED <<rowVars, lock, age, userVars, expiries, deny>>

RefreshTokensJti(r) == job[r].tok
CallersJti(r) == job[r].sid

DenylistOwnJti(r) ==
  /\ pc[r] = "denyOne"
  /\ \/ /\ deny' = deny \union {CallersJti(r)}
        /\ CASE job[r].op = "logoutAll"    -> Continue(r, "find")
             [] job[r].tok # NoSession     -> Continue(r, "revokeOne")
             [] OTHER                      -> Answer(r, "idle")
     \/ "cache" \in Faults /\ Answer(r, "failed") /\ UNCHANGED deny
  /\ UNCHANGED <<rowVars, lock, age, userVars, expiries>>

\* WHERE user_id = ... AND refresh_token_hash = ... AND revoked_at IS NULL
RevokeSessionByRefreshHash(r) ==
  LET t == job[r].tok
      hit == t \in ActiveOf(job[r].user)
  IN
  /\ pc[r] = "revokeOne"
  /\ hit => RowFree(r, t)
  /\ state' = IF hit THEN [state EXCEPT ![t] = "revoked"] ELSE state
  /\ Answer(r, "idle")
  /\ UNCHANGED <<owner, rotatedFrom, rotatedTo, count, root, cred, lock, age,
                 userVars, expiries, deny>>
-----------------------------------------------------------------------------
(* changePassword, setUserActive                                            *)

\* The current password has been read and matches.
ChangePassword(r, s) ==
  /\ "changePassword" \in ClientOps
  /\ Authenticates(s)
  /\ Begin(r, "setPassword", Call("changePassword", owner[s], s))
  /\ UNCHANGED <<rowVars, lock, age, userVars, expiries, deny>>

UpdatePassword(r) ==
  /\ pc[r] = "setPassword"
  /\ password[job[r].user] < MaxPassword
  /\ password' = [password EXCEPT ![job[r].user] = @ + 1]
  /\ CacheCallThen(r, "find")
  /\ UNCHANGED <<rowVars, lock, age, isActive, failedLoginAttempts, locked, expiries, deny>>

SetUserActive(r, u, b) ==
  LET op == IF b THEN "activate" ELSE "deactivate" IN
  /\ op \in ClientOps
  /\ Begin(r, "setActive", [Call(op, u, NoSession) EXCEPT !.ok = b])
  /\ UNCHANGED <<rowVars, lock, age, userVars, expiries, deny>>

SetActive(r) ==
  /\ pc[r] = "setActive"
  /\ isActive' = [isActive EXCEPT ![job[r].user] = job[r].ok]
  /\ IF job[r].ok THEN CacheCallThenAnswer(r) ELSE CacheCallThen(r, "find")
  /\ UNCHANGED <<rowVars, lock, age, password, failedLoginAttempts, locked, expiries, deny>>
-----------------------------------------------------------------------------
(* The database and the clock.                                              *)

\* A statement fails or the process dies: the transaction rolls back.  What
\* reached Redis stays there.
DbError(r) ==
  /\ "db" \in Faults
  /\ pc[r] \notin Resting
  /\ lock' = Unlock(r)
  /\ Answer(r, "failed")
  /\ UNCHANGED <<rowVars, age, userVars, expiries, deny>>

\* Not in the code: the handler has reached a bound of the model.
BoundReached(r) ==
  /\ \/ pc[r] \in {"create", "rotate"} /\ count = MaxSessions
     \/ pc[r] = "setPassword" /\ password[job[r].user] = MaxPassword
  /\ lock' = Unlock(r)
  /\ Answer(r, "failed")
  /\ UNCHANGED <<rowVars, age, userVars, expiries, deny>>

\* An UPDATE whose every remaining row is locked by somebody else waits for them.
Waiting(r)  == pc[r] = "rows" /\ todo[r] # {} /\ \A s \in todo[r] : ~RowFree(r, s)
Blockers(r) == {lock[s] : s \in todo[r]}

\* PostgreSQL aborts one member of a cycle of transactions that wait for each other.
DeadlockVictim(r) ==
  /\ \E C \in SUBSET Requests :
       /\ r \in C
       /\ \A q \in C : Waiting(q) /\ Blockers(q) \subseteq C
       /\ \A q \in C : \E p \in C : q \in Blockers(p)
  /\ lock' = Unlock(r)
  /\ Answer(r, "failed")
  /\ UNCHANGED <<rowVars, age, userVars, expiries, deny>>

\* Time passes: the tokens of a session expire no later than those of a later one.
Age(s) ==
  /\ s \in 1 .. count /\ age[s] < MaxAge
  /\ \A older \in 1 .. (s - 1) : age[older] > age[s]
  /\ age' = [age EXCEPT ![s] = @ + 1]
  /\ UNCHANGED <<rowVars, lock, userVars, expiries, deny, pc, job, todo>>

LockExpires(u) ==
  /\ locked[u] /\ expiries < MaxLockExpiries
  /\ locked' = [locked EXCEPT ![u] = FALSE]
  /\ expiries' = expiries + 1
  /\ UNCHANGED <<rowVars, lock, age, isActive, password, failedLoginAttempts, deny,
                 pc, job, todo>>

DanglingParents(D) == [s \in Sessions |-> IF s \in D THEN NoSession ELSE rotatedFrom[s]]
ParentsSetNull(D) == [s \in Sessions |-> IF s \in D \/ rotatedFrom[s] \in D
                                         THEN NoSession ELSE rotatedFrom[s]]

\* runSessionPurge: one DELETE of at most a batch of expired rows; the foreign
\* key of rotated_from_session_id is ON DELETE SET NULL.
PurgeSessions(D) ==
  /\ "purge" \in ClientOps
  /\ D # {} /\ \A s \in D : state[s] # "absent" /\ age[s] = 2 /\ lock[s] = NoReq
  /\ state' = [s \in Sessions |-> IF s \in D THEN "absent" ELSE state[s]]
  /\ rotatedFrom' = ParentsSetNull(D)
  /\ rotatedTo' = [s \in Sessions |-> IF s \in D THEN NoSession ELSE rotatedTo[s]]
  /\ UNCHANGED <<owner, count, root, cred, lock, age, userVars, expiries, deny, pc,
                 job, todo>>
-----------------------------------------------------------------------------
ClientStep(r) ==
  \/ \E u \in Users, b \in BOOLEAN : Login(r, u, b) \/ SetUserActive(r, u, b)
  \/ \E s \in Sessions : Refresh(r, s) \/ LogoutAll(r, s) \/ ChangePassword(r, s)
  \/ \E s \in Sessions, t \in Ref : Logout(r, s, t)

HandlerStep(r) ==
  \/ RecordFailedLogin(r) \/ ResetFailedLogin(r) \/ CreateTokensAndSession(r)
  \/ RefreshRefused(r) \/ RefreshReuse(r) \/ RefreshLock(r)
  \/ RefreshUser(r) \/ RefreshRotate(r)
  \/ DenylistFind(r) \/ DenylistSet(r) \/ RevokeCommit(r)
  \/ \E s \in Sessions : RevokeRow(r, s)
  \/ DenylistOwnJti(r) \/ RevokeSessionByRefreshHash(r)
  \/ UpdatePassword(r) \/ SetActive(r)
  \/ DeadlockVictim(r) \/ BoundReached(r)

EnvironmentStep ==
  \/ \E s \in Sessions : Age(s)
  \/ \E u \in Users : LockExpires(u)
  \/ \E D \in SUBSET Sessions : PurgeSessions(D)
  \/ \E r \in Requests : DbError(r)

Next == EnvironmentStep \/ \E r \in Requests : ClientStep(r) \/ HandlerStep(r)

Spec == Init /\ [][Next]_vars

\* A handler that can run does, and PostgreSQL serves the waiters of a row lock
\* in turn, so one that is free again and again is granted.
FairSpec == Spec /\ \A r \in Requests : SF_vars(HandlerStep(r))
-----------------------------------------------------------------------------
(* Properties.                                                              *)

RowTypes ==
  /\ state \in [Sessions -> {"absent", "active", "revoked"}]
  /\ owner \in [Sessions -> Users]
  /\ rotatedFrom \in [Sessions -> Ref] /\ rotatedTo \in [Sessions -> Ref]
  /\ root \in [Sessions -> Ref] /\ cred \in [Sessions -> 0 .. MaxPassword]
  /\ count \in Ref
  /\ lock \in [Sessions -> Requests \union {NoReq}]
  /\ age \in [Sessions -> 0 .. 2]
  /\ deny \subseteq Sessions

UserTypes ==
  /\ isActive \in [Users -> BOOLEAN] /\ locked \in [Users -> BOOLEAN]
  /\ password \in [Users -> 0 .. MaxPassword]
  /\ failedLoginAttempts \in [Users -> Nat]
  /\ expiries \in 0 .. MaxLockExpiries

RequestTypes ==
  /\ pc \in [Requests -> Resting \union Steps]
  /\ job \in [Requests -> Job]
  /\ todo \in [Requests -> SUBSET Sessions]

TypeOK == RowTypes /\ UserTypes /\ RequestTypes

\* Two requests that present the same refresh token, or a refresh that races a
\* revocation, never leave one login with two sessions that can be refreshed:
\* the FOR UPDATE of refresh and the re-check of revoked_at under it.
FamilySingleActive ==
  \A s, t \in Sessions :
    (state[s] = "active" /\ state[t] = "active" /\ root[s] = root[t]) => s = t

\* The two ends of a rotation agree: the row a session was rotated from points
\* back at it and is revoked, so a reuse of that row is told apart from a reuse
\* of a row that was revoked outright.
RotationLinked ==
  \A t \in Sessions : rotatedFrom[t] # NoSession =>
    /\ rotatedTo[rotatedFrom[t]] = t
    /\ state[rotatedFrom[t]] = "revoked"
    /\ root[rotatedFrom[t]] = root[t]
    /\ owner[rotatedFrom[t]] = owner[t]

\* What makes the invariants inductive, for one request.  It holds row locks only
\* while its transaction runs, and only of its user's rows; when it is going to
\* rotate a row it holds the lock of it and the row is still active.  Its bulk
\* UPDATE has locked, or has still to visit, every active row of the user that
\* existed when the call arrived.
RequestInv(r) ==
  /\ pc[r] \in {"denyOne", "lookup", "user", "rotate"} =>
       job[r].sid \in 1 .. count /\ owner[job[r].sid] = job[r].user
  /\ pc[r] \in {"user", "rotate"} =>
       lock[job[r].sid] = r /\ state[job[r].sid] = "active"
  /\ \A s \in Sessions : lock[s] = r =>
       /\ pc[r] \in {"user", "rotate", "find", "deny", "rows"}
       /\ s <= count /\ owner[s] = job[r].user
  /\ job[r].mark <= count
  /\ pc[r] \notin {"deny", "rows"} => todo[r] = {}
  /\ \A s \in todo[r] : s <= count /\ owner[s] = job[r].user
  /\ pc[r] = "rows" =>
       \A s \in ActiveOf(job[r].user) : s <= job[r].mark => s \in todo[r] \/ lock[s] = r

\* An active row has no successor; the next id has not been used anywhere.
RowsBelowCount ==
  \A s \in Sessions :
    /\ state[s] # "absent" => s <= count /\ root[s] # NoSession
    /\ state[s] = "active" => rotatedTo[s] = NoSession
    /\ rotatedFrom[s] # NoSession \/ rotatedTo[s] # NoSession => s <= count
    /\ root[s] <= count /\ rotatedTo[s] <= count /\ rotatedFrom[s] <= count

RowInv == RowsBelowCount /\ FamilySingleActive /\ RotationLinked

AuthInv == TypeOK /\ RowInv /\ \A r \in Requests : RequestInv(r)

\* Every step is a step of the abstract families or leaves them alone: a login
\* opens one, a rotation advances one, and no interleaving reopens a family that
\* a revocation, a logout or the purge closed.
LiveOf(f) == {s \in Sessions : state[s] = "active" /\ root[s] = f}

Families == INSTANCE SessionFamilies WITH
              issued <- 1 .. count, live <- [f \in Sessions |-> LiveOf(f)]

ImplementsFamilies == Families!FamiliesSpec

\* When revokeAllUserSessions has committed, no session of the user that existed
\* when the call arrived is active, although rows come and go between its
\* snapshot and its row locks, and whatever Redis did.
MassRevocationCovers ==
  [][\A r \in Requests : pc[r] = "rows" /\ pc'[r] = "idle" =>
       \A s \in 1 .. job[r].mark : owner[s] = job[r].user => state'[s] # "active"]_vars

\* A session is revoked only by a request made for its owner: logout takes any
\* refresh token from the body, and must not revoke somebody else's session.
RevokedForItsOwner ==
  [][\A s \in Sessions : state[s] = "active" /\ state'[s] = "revoked" =>
       \E r \in Requests : pc[r] # pc'[r] /\ owner[s] = job[r].user]_vars

\* The wrong guesses an account can receive: the threshold, plus one for every
\* login that had passed the lockout test before the account was locked, once for
\* every time a lockout ran out (the counter is not reset when it does).
GuessesBounded ==
  \A u \in Users : failedLoginAttempts[u] <=
    LockoutThreshold - 1 + Cardinality(Requests) * (expiries + 1)

\* Every call is answered: row locks are held across awaits and taken in no
\* common order, and a request may wait for a row again and again.
RequestsAnswered == \A r \in Requests : pc[r] \notin Resting ~> pc[r] \in Resting
=============================================================================
