------------------------- MODULE AuthSessionsProofs -------------------------
(***************************************************************************)
(* AuthInv is an inductive invariant of AuthSessions, for any number of     *)
(* users, requests and sessions; from it follow the invariants the runs     *)
(* check, MassRevocationCovers, RevokedForItsOwner and the refinement of    *)
(* SessionFamilies.                                                         *)
(*                                                                         *)
(* A step of one request is shown to keep RowInv (section 2), its own       *)
(* RequestInv (section 3), and the RequestInv of every other request, which *)
(* depends on little: Frame says on what.                                   *)
(***************************************************************************)
EXTENDS AuthSessions, FiniteSetTheorems, TLAPS

USE RequestsAssumption, UsersAssumption, BoundsAssumption
USE DEF Sessions, Ref, NoSession
-----------------------------------------------------------------------------
(* 1. Types.                                                                *)

LEMMA AnyUserType == AnyUser \in Users
  BY DEF AnyUser

LEMMA NoJobType == NoJob \in Job /\ NoJob.mark = 0
  BY AnyUserType DEF NoJob, Job, Kinds

LEMMA CallType ==
  ASSUME NEW op \in Kinds, NEW u \in Users, NEW s \in Ref, count \in Ref
  PROVE  Call(op, u, s) \in Job
  BY DEF Call, Job, Kinds

LEMMA BeginTypes ==
  ASSUME RequestTypes, NEW r \in Requests, NEW step \in Steps, NEW j \in Job,
         Begin(r, step, j)
  PROVE  RequestTypes'
  BY DEF RequestTypes, Begin, Steps

LEMMA ContinueTypes ==
  ASSUME RequestTypes, NEW r \in Requests, NEW step \in Steps, Continue(r, step)
  PROVE  RequestTypes'
  BY DEF RequestTypes, Continue

LEMMA AnswerTypes ==
  ASSUME RequestTypes, NEW r \in Requests, NEW outcome \in Resting, Answer(r, outcome)
  PROVE  RequestTypes'
  BY NoJobType DEF RequestTypes, Answer

LEMMA RedirectTypes ==
  ASSUME RequestTypes, NEW r \in Requests, NEW step \in Steps, NEW op \in Kinds,
         pc' = [pc EXCEPT ![r] = step], job' = [job EXCEPT ![r].op = op], UNCHANGED todo
  PROVE  RequestTypes'
  <1>1. job'[r] \in Job
    BY DEF RequestTypes, Job
  <1> QED  BY <1>1 DEF RequestTypes

LEMMA InsertTypes ==
  ASSUME RowTypes, count < MaxSessions, NEW u \in Users, NEW parent \in Ref,
         NEW pw \in 0 .. MaxPassword, Insert(count + 1, u, parent, pw)
  PROVE  /\ state' \in [Sessions -> {"absent", "active", "revoked"}]
         /\ owner' \in [Sessions -> Users]
         /\ rotatedFrom' \in [Sessions -> Ref] /\ rotatedTo' \in [Sessions -> Ref]
         /\ root' \in [Sessions -> Ref] /\ cred' \in [Sessions -> 0 .. MaxPassword]
         /\ count' \in Ref
  <1>1. count + 1 \in Ref
    BY DEF RowTypes
  <1>2. root' \in [Sessions -> Ref]
    BY <1>1 DEF RowTypes, Insert
  <1>3. rotatedTo' \in [Sessions -> Ref]
    BY <1>1 DEF RowTypes, Insert, Successor
  <1>4. rotatedFrom' \in [Sessions -> Ref]
    BY <1>1 DEF RowTypes, Insert
  <1>5. state' \in [Sessions -> {"absent", "active", "revoked"}]
    BY <1>1 DEF RowTypes, Insert
  <1>6. owner' \in [Sessions -> Users] /\ cred' \in [Sessions -> 0 .. MaxPassword]
    BY <1>1 DEF RowTypes, Insert
  <1> QED  BY <1>1, <1>2, <1>3, <1>4, <1>5, <1>6 DEF Insert

LEMMA UnlockTypes ==
  ASSUME RowTypes, NEW r \in Requests
  PROVE  Unlock(r) \in [Sessions -> Requests \union {NoReq}]
  BY DEF RowTypes, Unlock
-----------------------------------------------------------------------------
(* 2. Rows.                                                                 *)

LEMMA RowsKept ==
  ASSUME RowInv, UNCHANGED rowVars
  PROVE  RowInv'
  BY DEF RowInv, RowsBelowCount, FamilySingleActive, RotationLinked, rowVars

LEMMA RowsRevoked ==
  ASSUME TypeOK, TypeOK', RowInv,
         UNCHANGED <<owner, rotatedFrom, rotatedTo, count, root, cred>>,
         \A s \in Sessions : state'[s] # state[s] => state[s] = "active" /\ state'[s] = "revoked"
  PROVE  RowInv'
  <1>1. RowsBelowCount'
    BY DEF RowInv, RowsBelowCount, TypeOK, RowTypes
  <1>2. FamilySingleActive'
    BY DEF RowInv, FamilySingleActive, TypeOK, RowTypes
  <1>3. RotationLinked'
    BY DEF RowInv, RotationLinked, TypeOK, RowTypes
  <1> QED  BY <1>1, <1>2, <1>3 DEF RowInv

\* A login starts a family; a rotation replaces the only active session of one.
LEMMA RowsInserted ==
  ASSUME TypeOK, TypeOK', RowInv, count < MaxSessions,
         NEW u \in Users, NEW parent \in Ref, NEW pw \in 0 .. MaxPassword,
         Insert(count + 1, u, parent, pw),
         parent # NoSession =>
           parent \in 1 .. count /\ state[parent] = "active" /\ owner[parent] = u
  PROVE  RowInv'
  <1> DEFINE t == count + 1
  <1>1. t \in Sessions /\ t # parent /\ count' = t
    BY DEF TypeOK, RowTypes, Insert
  <1>2. \A s \in Sessions : s # t /\ s # parent =>
          /\ state'[s] = state[s] /\ rotatedFrom'[s] = rotatedFrom[s]
          /\ rotatedTo'[s] = rotatedTo[s] /\ root'[s] = root[s] /\ owner'[s] = owner[s]
    BY <1>1 DEF Insert, Successor, TypeOK, RowTypes
  <1>3. /\ state'[t] = "active" /\ rotatedFrom'[t] = parent /\ rotatedTo'[t] = rotatedTo[t]
        /\ owner'[t] = u /\ root'[t] = IF parent = NoSession THEN t ELSE root[parent]
    BY <1>1 DEF Insert, Successor, TypeOK, RowTypes
  <1>4. parent # NoSession =>
          /\ parent \in Sessions /\ state'[parent] = "revoked" /\ rotatedTo'[parent] = t
          /\ rotatedFrom'[parent] = rotatedFrom[parent] /\ root'[parent] = root[parent]
          /\ owner'[parent] = owner[parent]
    BY <1>1 DEF Insert, Successor, TypeOK, RowTypes
  <1>5. /\ rotatedTo[t] = NoSession
        /\ \A s \in Sessions : root[s] # t /\ rotatedTo[s] # t /\ rotatedFrom[s] # t
        /\ \A s \in Sessions : state[s] = "active" => s # t
    <2>1. ~(t <= count)
      BY DEF TypeOK, RowTypes
    <2> QED  BY <1>1, <2>1 DEF RowInv, RowsBelowCount, TypeOK, RowTypes
  <1>6. parent # NoSession => rotatedTo[parent] = NoSession
                              /\ \A s \in Sessions : rotatedFrom[s] # parent
    BY DEF RowInv, RowsBelowCount, RotationLinked, TypeOK, RowTypes
  <1>7. RowsBelowCount'
    <2> SUFFICES ASSUME NEW s \in Sessions
                 PROVE  /\ state'[s] # "absent" => s <= count' /\ root'[s] # NoSession
                        /\ state'[s] = "active" => rotatedTo'[s] = NoSession
                        /\ rotatedFrom'[s] # NoSession \/ rotatedTo'[s] # NoSession => s <= count'
                        /\ root'[s] <= count' /\ rotatedTo'[s] <= count' /\ rotatedFrom'[s] <= count'
      BY DEF RowsBelowCount
    <2>2. ASSUME NEW n \in Ref, n <= count
          PROVE  n <= count'
      BY <1>1, <2>2 DEF TypeOK, RowTypes
    <2>1. CASE s = t
      <3>1. s <= count' /\ root'[s] # NoSession /\ rotatedTo'[s] = NoSession
        BY <1>1, <1>3, <1>4, <1>5, <2>1 DEF RowInv, RowsBelowCount, TypeOK, RowTypes
      <3>2. root'[s] <= count' /\ rotatedTo'[s] <= count' /\ rotatedFrom'[s] <= count'
        <4>1. /\ root'[t] \in {t, root[parent]} /\ (parent = NoSession => root'[t] = t)
              /\ rotatedTo'[t] = NoSession /\ rotatedFrom'[t] = parent
          BY <1>3, <1>5
        <4>2. parent <= count /\ (parent # NoSession => root[parent] <= count)
          BY DEF RowInv, RowsBelowCount, TypeOK, RowTypes
        <4>3. parent \in Ref /\ (parent # NoSession => root[parent] \in Ref)
          BY DEF TypeOK, RowTypes
        <4>4. count' = t /\ NoSession <= t
          BY <1>1 DEF TypeOK, RowTypes
        <4> QED  BY <2>1, <2>2, <4>1, <4>2, <4>3, <4>4
      <3> QED  BY <3>1, <3>2
    <2>3. /\ state[s] # "absent" => s <= count' /\ root[s] # NoSession
          /\ rotatedFrom[s] # NoSession \/ rotatedTo[s] # NoSession => s <= count'
          /\ root[s] <= count' /\ rotatedTo[s] <= count' /\ rotatedFrom[s] <= count'
      BY <2>2 DEF RowInv, RowsBelowCount, TypeOK, RowTypes
    <2>4. CASE s = parent
      BY <1>1, <1>4, <2>3, <2>4
    <2>5. CASE s # t /\ s # parent
      BY <1>2, <2>3, <2>5 DEF RowInv, RowsBelowCount
    <2> QED  BY <2>1, <2>4, <2>5
  <1>8. FamilySingleActive'
    <2> SUFFICES ASSUME NEW a \in Sessions, NEW b \in Sessions, a # b,
                        state'[a] = "active", state'[b] = "active", root'[a] = root'[b]
                 PROVE  FALSE
      BY DEF FamilySingleActive
    <2>1. a # parent /\ b # parent
      BY <1>4
    <2>2. CASE a # t /\ b # t
      BY <1>2, <2>1, <2>2 DEF RowInv, FamilySingleActive
    <2>3. ASSUME NEW s \in Sessions, s # t, s # parent, state'[s] = "active",
                 root'[s] = root'[t]
          PROVE  FALSE
      BY <1>2, <1>3, <1>4, <1>5, <2>3 DEF RowInv, FamilySingleActive
    <2> QED  BY <1>1, <2>1, <2>2, <2>3
  <1>9. RotationLinked'
    <2> SUFFICES ASSUME NEW s \in Sessions, rotatedFrom'[s] # NoSession
                 PROVE  /\ rotatedTo'[rotatedFrom'[s]] = s
                        /\ state'[rotatedFrom'[s]] = "revoked"
                        /\ root'[rotatedFrom'[s]] = root'[s]
                        /\ owner'[rotatedFrom'[s]] = owner'[s]
      BY DEF RotationLinked
    <2>1. CASE s = t
      BY <1>1, <1>3, <1>4, <2>1
    <2>2. CASE s # t
      <3> DEFINE f == rotatedFrom[s]
      <3>1. rotatedFrom'[s] = f /\ f \in Sessions /\ f # t
        BY <1>2, <1>4, <1>5, <2>2 DEF TypeOK, RowTypes
      <3>2. f # parent
        BY <1>6, <3>1
      <3>3. rotatedTo[f] = s /\ state[f] = "revoked" /\ root[f] = root[s] /\ owner[f] = owner[s]
        BY <3>1 DEF RowInv, RotationLinked
      <3>4. root'[s] = root[s] /\ owner'[s] = owner[s]
        BY <1>2, <1>4, <2>2
      <3> QED  BY <1>2, <3>1, <3>2, <3>3, <3>4
    <2> QED  BY <2>1, <2>2
  <1> QED  BY <1>7, <1>8, <1>9 DEF RowInv

\* The purge sets the links of the surviving rows to the deleted ones to NULL.
LEMMA RowsPurged ==
  ASSUME TypeOK, TypeOK', RowInv, NEW D \in SUBSET Sessions, PurgeSessions(D)
  PROVE  RowInv'
  <1>1. RowsBelowCount'
    BY DEF RowInv, RowsBelowCount, PurgeSessions, ParentsSetNull, TypeOK, RowTypes
  <1>2. FamilySingleActive'
    BY DEF RowInv, FamilySingleActive, PurgeSessions, TypeOK, RowTypes
  <1>3. RotationLinked'
    BY DEF RowInv, RotationLinked, PurgeSessions, ParentsSetNull, TypeOK, RowTypes
  <1> QED  BY <1>1, <1>2, <1>3 DEF RowInv
-----------------------------------------------------------------------------
(* 3. Requests.                                                             *)

\* What RequestInv(q) reads, and how far a step may change it.
Frame(q) ==
  /\ pc'[q] = pc[q] /\ job'[q] = job[q] /\ todo'[q] = todo[q]
  /\ count <= count'
  /\ \A s \in 1 .. count : owner'[s] = owner[s] /\ (state'[s] = "active" => state[s] = "active")
  /\ \A s \in Sessions : lock'[s] = q <=> lock[s] = q
  /\ \A s \in Sessions : lock[s] = q /\ state[s] = "active" => state'[s] = "active"

LEMMA FrameInv ==
  ASSUME TypeOK, TypeOK', NEW q \in Requests, RequestInv(q), Frame(q)
  PROVE  RequestInv(q)'
  <1>1. /\ pc[q] \in {"denyOne", "lookup", "user", "rotate"} =>
             job[q].sid \in 1 .. count' /\ owner'[job[q].sid] = job[q].user
        /\ pc[q] \in {"user", "rotate"} =>
             lock'[job[q].sid] = q /\ state'[job[q].sid] = "active"
    BY DEF RequestInv, Frame, TypeOK, RowTypes
  <1>2. \A s \in Sessions : lock'[s] = q =>
          /\ pc[q] \in {"user", "rotate", "find", "deny", "rows"}
          /\ s <= count' /\ owner'[s] = job[q].user
    BY DEF RequestInv, Frame, TypeOK, RowTypes
  <1>3. job[q].mark \in Nat /\ job[q].mark <= count'
    BY DEF RequestInv, Frame, TypeOK, RowTypes, RequestTypes, Job
  <1>4. \A s \in todo[q] : s <= count' /\ owner'[s] = job[q].user
    BY DEF RequestInv, Frame, TypeOK, RowTypes, RequestTypes
  <1>5. pc[q] \notin {"deny", "rows"} => todo[q] = {}
    BY DEF RequestInv
  <1>6. pc[q] = "rows" =>
          \A s \in ActiveOf(job[q].user)' : s <= job[q].mark => s \in todo[q] \/ lock'[s] = q
    <2> SUFFICES ASSUME pc[q] = "rows", NEW s \in Sessions, state'[s] = "active",
                        owner'[s] = job[q].user, s <= job[q].mark
                 PROVE  s \in todo[q] \/ lock'[s] = q
      BY DEF ActiveOf, Frame
    <2>1. s \in 1 .. count
      <3>1. job[q].mark <= count /\ count \in Nat
        BY DEF RequestInv, TypeOK, RowTypes
      <3> QED  BY <1>3, <3>1
    <2>2. s \in ActiveOf(job[q].user)
      BY <2>1 DEF Frame, ActiveOf
    <2> QED  BY <2>2 DEF RequestInv, Frame
  <1> QED  BY <1>1, <1>2, <1>3, <1>4, <1>5, <1>6 DEF RequestInv, Frame, ActiveOf

OnlyMoves(r) == \A q \in Requests \ {r} :
                  pc'[q] = pc[q] /\ job'[q] = job[q] /\ todo'[q] = todo[q]

LEMMA ControlMoves ==
  ASSUME RequestTypes, NEW r \in Requests, NEW step, NEW j,
         Begin(r, step, j) \/ Continue(r, step) \/ Answer(r, step)
  PROVE  OnlyMoves(r)
  <1>1. CASE Begin(r, step, j)
    BY <1>1 DEF RequestTypes, OnlyMoves, Begin
  <1>2. CASE Continue(r, step)
    BY <1>2 DEF RequestTypes, OnlyMoves, Continue
  <1>3. CASE Answer(r, step)
    BY <1>3 DEF RequestTypes, OnlyMoves, Answer
  <1> QED  BY <1>1, <1>2, <1>3

\* A request that has been answered is bound by nothing, once its locks are gone.
LEMMA AnswerInv ==
  ASSUME TypeOK, TypeOK', NEW r \in Requests, NEW outcome \in Resting, Answer(r, outcome),
         \A s \in Sessions : lock'[s] # r
  PROVE  RequestInv(r)'
  <1>1. pc'[r] \in Resting /\ job'[r] = NoJob /\ todo'[r] = {}
    BY DEF TypeOK, RequestTypes, Answer
  <1>2. job'[r].mark <= count'
    BY <1>1, NoJobType DEF TypeOK, RowTypes
  <1> QED  BY <1>1, <1>2 DEF RequestInv, Resting

\* A request outside its transaction holds no lock.
LEMMA NoLocksOutside ==
  ASSUME NEW r \in Requests, RequestInv(r),
         pc[r] \notin {"user", "rotate", "find", "deny", "rows"}
  PROVE  \A s \in Sessions : lock[s] # r
  BY DEF RequestInv

LEMMA StepInv ==
  ASSUME AuthInv, TypeOK', RowInv', NEW r \in Requests, RequestInv(r)',
         \A q \in Requests \ {r} : Frame(q)
  PROVE  AuthInv'
  <1>1. \A q \in Requests : RequestInv(q)'
    BY FrameInv DEF AuthInv
  <1> QED  BY <1>1 DEF AuthInv

\* A step that writes no row and moves no lock.
LEMMA QuietInv ==
  ASSUME AuthInv, TypeOK', UNCHANGED rowVars, UNCHANGED lock,
         NEW r \in Requests, OnlyMoves(r), RequestInv(r)'
  PROVE  AuthInv'
  <1>1. RowInv'
    BY RowsKept DEF AuthInv
  <1>2. \A q \in Requests \ {r} : Frame(q)
    BY DEF OnlyMoves, Frame, rowVars, AuthInv, TypeOK, RowTypes
  <1> QED  BY <1>1, <1>2, StepInv
-----------------------------------------------------------------------------
(* 4. The operations the clients call.                                      *)

LEMMA BeginInv ==
  ASSUME AuthInv, NEW r \in Requests,
         NEW step \in {"compare", "lookup", "denyOne", "setPassword", "setActive"},
         NEW j \in Job, j.mark = count,
         step \in {"lookup", "denyOne"} => j.sid \in 1 .. count /\ owner[j.sid] = j.user,
         Begin(r, step, j),
         UNCHANGED <<rowVars, lock, age, userVars, expiries, deny>>
  PROVE  AuthInv'
  <1>1. TypeOK'
    <2>1. RequestTypes'
      BY BeginTypes DEF AuthInv, TypeOK, Steps
    <2>2. RowTypes' /\ UserTypes'
      BY DEF AuthInv, TypeOK, RowTypes, UserTypes, rowVars, userVars
    <2> QED  BY <2>1, <2>2 DEF TypeOK
  <1>2. OnlyMoves(r)
    BY ControlMoves DEF AuthInv, TypeOK
  <1>3. pc'[r] = step /\ job'[r] = j /\ todo'[r] = todo[r] /\ pc[r] \in Resting
    BY DEF Begin, AuthInv, TypeOK, RequestTypes
  <1>4. \A s \in Sessions : lock'[s] # r
    BY <1>3, NoLocksOutside DEF AuthInv, Resting
  <1>5. todo[r] = {}
    BY <1>3 DEF AuthInv, RequestInv, Resting
  <1>6. RequestInv(r)'
    BY <1>3, <1>4, <1>5 DEF RequestInv, rowVars, AuthInv, TypeOK, RowTypes
  <1> QED  BY <1>1, <1>2, <1>6, QuietInv

LEMMA LoginInv ==
  ASSUME AuthInv, NEW r \in Requests, NEW u \in Users, NEW ok \in BOOLEAN, Login(r, u, ok)
  PROVE  AuthInv'
  <1> DEFINE j == [Call("login", u, NoSession) EXCEPT !.ok = ok, !.pw = password[u]]
  <1>1. j \in Job /\ j.mark = count
    BY DEF Call, Job, Kinds, AuthInv, TypeOK, RowTypes, UserTypes
  <1>2. Begin(r, "compare", j)
    BY DEF Login
  <1> QED  BY <1>1, <1>2, BeginInv DEF Login

LEMMA RefreshInv ==
  ASSUME AuthInv, NEW r \in Requests, NEW s \in Sessions, Refresh(r, s)
  PROVE  AuthInv'
  <1> DEFINE j == Call("refresh", owner[s], s)
  <1>1. j \in Job /\ j.mark = count /\ j.sid = s /\ j.user = owner[s]
    BY DEF Call, Job, Kinds, AuthInv, TypeOK, RowTypes
  <1> QED  BY <1>1, BeginInv DEF Refresh

LEMMA LogoutInv ==
  ASSUME AuthInv, NEW r \in Requests, NEW s \in Sessions, NEW t \in Ref, Logout(r, s, t)
  PROVE  AuthInv'
  <1> DEFINE j == [Call("logout", owner[s], s) EXCEPT !.tok = t]
  <1>1. j \in Job /\ j.mark = count
    <2>1. owner[s] \in Users /\ count \in Ref
      BY DEF AuthInv, TypeOK, RowTypes
    <2>2. ASSUME NEW c \in Job
          PROVE  [c EXCEPT !.tok = t] \in Job /\ [c EXCEPT !.tok = t].mark = c.mark
      BY DEF Job
    <2>3. Call("logout", owner[s], s) \in Job /\ Call("logout", owner[s], s).mark = count
      BY <2>1, CallType DEF Call, Kinds
    <2> QED  BY <2>2, <2>3
  <1>2. Begin(r, "denyOne", j)
    BY DEF Logout
  <1>3. s \in 1 .. count /\ j.sid = s /\ j.user = owner[s]
    BY DEF Call, Logout, Authenticates
  <1> QED  BY <1>1, <1>2, <1>3, BeginInv DEF Logout

LEMMA LogoutAllInv ==
  ASSUME AuthInv, NEW r \in Requests, NEW s \in Sessions, LogoutAll(r, s)
  PROVE  AuthInv'
  <1> DEFINE j == Call("logoutAll", owner[s], s)
  <1>1. j \in Job /\ j.mark = count /\ j.sid = s /\ j.user = owner[s]
    BY DEF Call, Job, Kinds, AuthInv, TypeOK, RowTypes
  <1> QED  BY <1>1, BeginInv DEF LogoutAll, Authenticates

LEMMA ChangePasswordInv ==
  ASSUME AuthInv, NEW r \in Requests, NEW s \in Sessions, ChangePassword(r, s)
  PROVE  AuthInv'
  <1> DEFINE j == Call("changePassword", owner[s], s)
  <1>1. j \in Job /\ j.mark = count
    BY DEF Call, Job, Kinds, AuthInv, TypeOK, RowTypes
  <1> QED  BY <1>1, BeginInv DEF ChangePassword

LEMMA SetUserActiveInv ==
  ASSUME AuthInv, NEW r \in Requests, NEW u \in Users, NEW b \in BOOLEAN,
         SetUserActive(r, u, b)
  PROVE  AuthInv'
  <1> DEFINE op == IF b THEN "activate" ELSE "deactivate"
             j == [Call(op, u, NoSession) EXCEPT !.ok = b]
  <1>1. j \in Job /\ j.mark = count
    <2>1. op \in Kinds
      BY DEF Kinds
    <2>2. count \in Ref
      BY DEF AuthInv, TypeOK, RowTypes
    <2> HIDE DEF op
    <2> QED  BY <2>1, <2>2 DEF Call, Job
  <1>2. Begin(r, "setActive", j)
    BY DEF SetUserActive
  <1> QED  BY <1>1, <1>2, BeginInv DEF SetUserActive
-----------------------------------------------------------------------------
(* 5. The steps of the handlers.                                            *)

\* The request answers without having written a row; its locks, if any, go.
LEMMA QuietAnswerInv ==
  ASSUME AuthInv, NEW r \in Requests, NEW outcome \in Resting, Answer(r, outcome),
         UNCHANGED rowVars,
         lock' = Unlock(r) \/ (UNCHANGED lock /\ \A s \in Sessions : lock[s] # r),
         RowTypes', UserTypes'
  PROVE  AuthInv'
  <1>1. TypeOK'
    BY AnswerTypes DEF AuthInv, TypeOK
  <1>2. RowInv'
    BY RowsKept DEF AuthInv
  <1>3. \A s \in Sessions : lock'[s] # r
    BY DEF Unlock, AuthInv, TypeOK, RowTypes
  <1>4. RequestInv(r)'
    BY <1>1, <1>3, AnswerInv DEF AuthInv
  <1>5. OnlyMoves(r)
    BY ControlMoves DEF AuthInv, TypeOK
  <1>6. \A q \in Requests \ {r} : \A s \in Sessions : lock'[s] = q <=> lock[s] = q
    BY DEF Unlock, AuthInv, TypeOK, RowTypes
  <1>7. \A q \in Requests \ {r} : Frame(q)
    BY <1>5, <1>6 DEF OnlyMoves, Frame, rowVars, AuthInv, TypeOK, RowTypes
  <1> QED  BY <1>1, <1>2, <1>4, <1>7, StepInv

\* Outside its transaction the request goes on to a step that presupposes nothing.
LEMMA QuietContinueInv ==
  ASSUME AuthInv, NEW r \in Requests, pc[r] \notin {"user", "rotate", "find", "deny", "rows"},
         NEW step \in {"create", "find", "revokeOne"}, Continue(r, step),
         UNCHANGED <<rowVars, lock>>, RowTypes', UserTypes'
  PROVE  AuthInv'
  <1>1. TypeOK'
    BY ContinueTypes DEF AuthInv, TypeOK, Steps
  <1>2. OnlyMoves(r)
    BY ControlMoves DEF AuthInv, TypeOK
  <1>3. pc'[r] = step /\ job'[r] = job[r] /\ todo'[r] = todo[r]
    BY DEF Continue, AuthInv, TypeOK, RequestTypes
  <1>4. \A s \in Sessions : lock'[s] # r
    BY NoLocksOutside DEF AuthInv
  <1>5. RequestInv(r)'
    BY <1>3, <1>4 DEF RequestInv, rowVars, AuthInv, TypeOK, RowTypes
  <1> QED  BY <1>1, <1>2, <1>5, QuietInv

LEMMA RecordFailedLoginInv ==
  ASSUME AuthInv, NEW r \in Requests, RecordFailedLogin(r)
  PROVE  AuthInv'
  <1>1. PICK outcome \in Resting : Answer(r, outcome)
    BY DEF RecordFailedLogin, CacheCallThenAnswer, Resting
  <1>2. job[r].user \in Users
    BY DEF AuthInv, TypeOK, RequestTypes, Job
  <1>3. UserTypes'
    BY <1>2 DEF RecordFailedLogin, ShouldLock, AuthInv, TypeOK, UserTypes
  <1>4. RowTypes' /\ UNCHANGED <<rowVars, lock>>
    BY DEF RecordFailedLogin, AuthInv, TypeOK, RowTypes, rowVars
  <1>5. \A s \in Sessions : lock[s] # r
    BY NoLocksOutside DEF RecordFailedLogin, AuthInv
  <1> QED  BY <1>1, <1>3, <1>4, <1>5, QuietAnswerInv

LEMMA ResetFailedLoginInv ==
  ASSUME AuthInv, NEW r \in Requests, ResetFailedLogin(r)
  PROVE  AuthInv'
  <1>1. job[r].user \in Users
    BY DEF AuthInv, TypeOK, RequestTypes, Job
  <1>2. UserTypes'
    BY <1>1 DEF ResetFailedLogin, AuthInv, TypeOK, UserTypes
  <1>3. RowTypes' /\ UNCHANGED <<rowVars, lock>>
    BY DEF ResetFailedLogin, AuthInv, TypeOK, RowTypes, rowVars
  <1>4. \A s \in Sessions : lock[s] # r
    BY NoLocksOutside DEF ResetFailedLogin, AuthInv
  <1>5. CASE Continue(r, "create")
    BY <1>2, <1>3, <1>5, QuietContinueInv DEF ResetFailedLogin
  <1>6. CASE Answer(r, "failed")
    BY <1>2, <1>3, <1>4, <1>6, QuietAnswerInv DEF Resting
  <1> QED  BY <1>5, <1>6 DEF ResetFailedLogin, CacheCallThen

LEMMA CreateTokensAndSessionInv ==
  ASSUME AuthInv, NEW r \in Requests, CreateTokensAndSession(r)
  PROVE  AuthInv'
  <1>1. job[r].user \in Users /\ job[r].pw \in 0 .. MaxPassword /\ count < MaxSessions
    BY DEF CreateTokensAndSession, AuthInv, TypeOK, RequestTypes, Job
  <1>2. Insert(count + 1, job[r].user, NoSession, job[r].pw) /\ Answer(r, "idle")
    BY DEF CreateTokensAndSession
  <1>3. TypeOK'
    <2>1. RowTypes'
      BY <1>1, <1>2, InsertTypes DEF CreateTokensAndSession, AuthInv, TypeOK, RowTypes
    <2>2. UserTypes'
      BY DEF CreateTokensAndSession, userVars, AuthInv, TypeOK, UserTypes
    <2> QED  BY <1>2, <2>1, <2>2, AnswerTypes DEF AuthInv, TypeOK, Resting
  <1>4. RowInv'
    BY <1>1, <1>2, <1>3, RowsInserted DEF AuthInv
  <1>5. \A s \in Sessions : lock'[s] # r
    BY NoLocksOutside DEF CreateTokensAndSession, AuthInv
  <1>6. RequestInv(r)'
    BY <1>2, <1>3, <1>5, AnswerInv DEF AuthInv, Resting
  <1>7. OnlyMoves(r)
    BY <1>2, ControlMoves DEF AuthInv, TypeOK
  <1>8. \A q \in Requests \ {r} : Frame(q)
    BY <1>2, <1>7 DEF OnlyMoves, Frame, Insert, CreateTokensAndSession, AuthInv, TypeOK, RowTypes
  <1> QED  BY <1>3, <1>4, <1>6, <1>8, StepInv

LEMMA RefreshRefusedInv ==
  ASSUME AuthInv, NEW r \in Requests, RefreshRefused(r)
  PROVE  AuthInv'
  <1>1. RowTypes' /\ UserTypes' /\ UNCHANGED <<rowVars, lock>>
    BY DEF RefreshRefused, AuthInv, TypeOK, RowTypes, UserTypes, rowVars, userVars
  <1>2. \A s \in Sessions : lock[s] # r
    BY NoLocksOutside DEF RefreshRefused, LookupDone, AuthInv
  <1> QED  BY <1>1, <1>2, QuietAnswerInv DEF RefreshRefused, Resting

\* The row of the token is locked and the handler goes on with it.
LEMMA RefreshReuseOrLockInv ==
  ASSUME AuthInv, NEW r \in Requests, RefreshReuse(r) \/ RefreshLock(r)
  PROVE  AuthInv'
  <1> DEFINE s == job[r].sid
  <1>1. /\ pc[r] = "lookup" /\ s \in 1 .. count /\ s \in Sessions
        /\ owner[s] = job[r].user /\ todo[r] = {}
    <2>1. pc[r] = "lookup" /\ RequestInv(r)
      BY DEF RefreshReuse, RefreshLock, LookupDone, AuthInv
    <2> QED  BY <2>1 DEF RequestInv, AuthInv, TypeOK, RowTypes
  <1>2. lock[s] \in {NoReq, r} /\ lock' = [lock EXCEPT ![s] = r]
    BY DEF RefreshReuse, RefreshLock, LookupDone, RowFree, Locked
  <1>3. UNCHANGED <<rowVars, age, userVars, expiries, deny, todo>>
    BY DEF RefreshReuse, RefreshLock, Continue
  <1>4. \/ pc' = [pc EXCEPT ![r] = "find"] /\ job' = [job EXCEPT ![r].op = "reuse"]
        \/ pc' = [pc EXCEPT ![r] = "user"] /\ job' = job /\ state[s] = "active"
    <2>1. CASE RefreshReuse(r)
      BY <2>1 DEF RefreshReuse
    <2>2. CASE RefreshLock(r)
      BY <2>2 DEF RefreshLock, Continue
    <2> QED  BY <2>1, <2>2
  <1>5. TypeOK'
    <2>1. RowTypes' /\ UserTypes'
      BY <1>2, <1>3 DEF AuthInv, TypeOK, RowTypes, UserTypes, rowVars, userVars
    <2>2. CASE pc' = [pc EXCEPT ![r] = "find"] /\ job' = [job EXCEPT ![r].op = "reuse"]
      BY <1>3, <2>1, <2>2, RedirectTypes DEF AuthInv, TypeOK, Steps, Kinds
    <2>3. CASE pc' = [pc EXCEPT ![r] = "user"] /\ job' = job
      BY <1>3, <2>1, <2>3, ContinueTypes DEF AuthInv, TypeOK, Steps, Continue
    <2> QED  BY <1>4, <2>2, <2>3
  <1>6. RowInv'
    BY <1>3, RowsKept DEF AuthInv
  <1>7. OnlyMoves(r)
    BY <1>3, <1>4 DEF OnlyMoves, AuthInv, TypeOK, RequestTypes
  <1>8. \A q \in Requests \ {r} : Frame(q)
    BY <1>1, <1>2, <1>3, <1>7 DEF OnlyMoves, Frame, rowVars, AuthInv, TypeOK, RowTypes
  <1>9. /\ pc'[r] = "find" \/ (pc'[r] = "user" /\ state[s] = "active")
        /\ job'[r].sid = s /\ job'[r].user = job[r].user /\ job'[r].mark = job[r].mark
    BY <1>4 DEF AuthInv, TypeOK, RequestTypes, Job
  <1>10. \A x \in Sessions : lock'[x] = r => x = s
    BY <1>1, <1>2, NoLocksOutside DEF AuthInv, TypeOK, RowTypes
  <1>11. RequestInv(r)'
    BY <1>1, <1>2, <1>3, <1>9, <1>10 DEF RequestInv, rowVars, AuthInv, TypeOK, RowTypes
  <1> QED  BY <1>5, <1>6, <1>8, <1>11, StepInv

\* A request inside its transaction that writes nothing and keeps its locks.
LEMMA RefreshUserInv ==
  ASSUME AuthInv, NEW r \in Requests, RefreshUser(r)
  PROVE  AuthInv'
  <1>1. pc[r] = "user" /\ UNCHANGED <<rowVars, lock, age, userVars, expiries, deny>>
    BY DEF RefreshUser
  <1>2. \/ pc' = [pc EXCEPT ![r] = "rotate"] /\ job' = job /\ todo' = todo
        \/ /\ pc' = [pc EXCEPT ![r] = "find"] /\ job' = [job EXCEPT ![r].op = "denied"]
           /\ todo' = todo
    BY DEF RefreshUser, Continue
  <1>3. TypeOK'
    <2>1. RowTypes' /\ UserTypes'
      BY <1>1 DEF AuthInv, TypeOK, RowTypes, UserTypes, rowVars, userVars
    <2>2. CASE pc' = [pc EXCEPT ![r] = "find"]
      BY <1>2, <2>1, <2>2, RedirectTypes, ContinueTypes
         DEF AuthInv, TypeOK, Steps, Kinds, Continue
    <2>3. CASE pc' = [pc EXCEPT ![r] = "rotate"] /\ job' = job /\ todo' = todo
      BY <2>1, <2>3, ContinueTypes DEF AuthInv, TypeOK, Steps, Continue
    <2> QED  BY <1>2, <2>2, <2>3
  <1>4. OnlyMoves(r)
    BY <1>2 DEF OnlyMoves, AuthInv, TypeOK, RequestTypes
  <1>5. /\ pc'[r] \in {"rotate", "find"} /\ todo'[r] = todo[r] /\ job'[r].sid = job[r].sid
        /\ job'[r].user = job[r].user /\ job'[r].mark = job[r].mark
    BY <1>2 DEF AuthInv, TypeOK, RequestTypes, Job
  <1>6. RequestInv(r)'
    BY <1>1, <1>5 DEF RequestInv, rowVars, AuthInv
  <1> QED  BY <1>1, <1>3, <1>4, <1>6, QuietInv

LEMMA RefreshRotateInv ==
  ASSUME AuthInv, NEW r \in Requests, RefreshRotate(r)
  PROVE  AuthInv'
  <1> DEFINE p == job[r].sid
  <1>1. /\ p \in 1 .. count /\ p \in Sessions /\ owner[p] = job[r].user
        /\ lock[p] = r /\ state[p] = "active"
    <2>1. pc[r] = "rotate" /\ RequestInv(r)
      BY DEF RefreshRotate, AuthInv
    <2> QED  BY <2>1 DEF RequestInv, AuthInv, TypeOK, RowTypes
  <1>2. job[r].user \in Users /\ cred[p] \in 0 .. MaxPassword /\ count < MaxSessions
    BY <1>1 DEF RefreshRotate, AuthInv, TypeOK, RowTypes
  <1>3. /\ Insert(count + 1, job[r].user, p, cred[p]) /\ Answer(r, "idle")
        /\ lock' = Unlock(r)
    BY DEF RefreshRotate
  <1>4. TypeOK'
    <2>1. RowTypes'
      BY <1>1, <1>2, <1>3, InsertTypes, UnlockTypes
         DEF RefreshRotate, AuthInv, TypeOK, RowTypes
    <2>2. UserTypes'
      BY DEF RefreshRotate, userVars, AuthInv, TypeOK, UserTypes
    <2> QED  BY <1>3, <2>1, <2>2, AnswerTypes DEF AuthInv, TypeOK, Resting
  <1>5. RowInv'
    BY <1>1, <1>2, <1>3, <1>4, RowsInserted DEF AuthInv
  <1>6. \A s \in Sessions : lock'[s] # r
    BY <1>3 DEF Unlock
  <1>7. RequestInv(r)'
    BY <1>3, <1>4, <1>6, AnswerInv DEF AuthInv, Resting
  <1>8. OnlyMoves(r)
    BY <1>3, ControlMoves DEF AuthInv, TypeOK
  <1>9. /\ count' = count + 1
        /\ \A s \in 1 .. count : /\ owner'[s] = owner[s]
                                 /\ state'[s] = "active" => state[s] = "active"
                                 /\ s # p => state'[s] = state[s]
    BY <1>3 DEF Insert, AuthInv, TypeOK, RowTypes
  <1>10. \A q \in Requests \ {r} : \A s \in Sessions :
           /\ lock'[s] = q <=> lock[s] = q
           /\ lock[s] = q => s # p /\ s \in 1 .. count
    BY <1>1, <1>3 DEF Unlock, AuthInv, RequestInv, TypeOK, RowTypes
  <1>11. \A q \in Requests \ {r} : Frame(q)
    <2> SUFFICES ASSUME NEW q \in Requests \ {r}  PROVE Frame(q)
      OBVIOUS
    <2>1. pc'[q] = pc[q] /\ job'[q] = job[q] /\ todo'[q] = todo[q]
      BY <1>8 DEF OnlyMoves
    <2>2. count \in Nat /\ count <= count'
      BY <1>9 DEF AuthInv, TypeOK, RowTypes
    <2>3. \A s \in 1 .. count : owner'[s] = owner[s] /\ (state'[s] = "active" => state[s] = "active")
      BY <1>9
    <2>4. \A s \in Sessions : lock'[s] = q <=> lock[s] = q
      BY <1>10
    <2>5. \A s \in Sessions : lock[s] = q /\ state[s] = "active" => state'[s] = "active"
      BY <1>9, <1>10
    <2> QED  BY <2>1, <2>2, <2>3, <2>4, <2>5 DEF Frame
  <1> QED  BY <1>4, <1>5, <1>7, <1>11, StepInv

LEMMA DenylistFindInv ==
  ASSUME AuthInv, NEW r \in Requests, DenylistFind(r)
  PROVE  AuthInv'
  <1>1. /\ UNCHANGED <<rowVars, lock, age, userVars, expiries, deny, job>> /\ pc[r] = "find"
        /\ pc' = [pc EXCEPT ![r] = "deny"]
        /\ todo' = [todo EXCEPT ![r] = ActiveOf(job[r].user)]
    BY DEF DenylistFind
  <1>2. TypeOK'
    BY <1>1 DEF AuthInv, TypeOK, RowTypes, UserTypes, RequestTypes, rowVars, userVars,
                Steps, ActiveOf
  <1>3. OnlyMoves(r)
    BY <1>1 DEF OnlyMoves, AuthInv, TypeOK, RequestTypes
  <1>4. pc'[r] = "deny" /\ job'[r] = job[r] /\ todo'[r] = ActiveOf(job[r].user)
    BY <1>1 DEF AuthInv, TypeOK, RequestTypes
  <1>5. \A s \in ActiveOf(job[r].user) : s <= count /\ owner[s] = job[r].user
    BY DEF ActiveOf, AuthInv, RowInv, RowsBelowCount
  <1>6. RequestInv(r)'
    BY <1>1, <1>4, <1>5 DEF RequestInv, rowVars, AuthInv
  <1> QED  BY <1>1, <1>2, <1>3, <1>6, QuietInv

LEMMA DenylistSetInv ==
  ASSUME AuthInv, NEW r \in Requests, DenylistSet(r)
  PROVE  AuthInv'
  <1>1. /\ UNCHANGED <<rowVars, lock, age, userVars, expiries, job>> /\ pc[r] = "deny"
        /\ pc' = [pc EXCEPT ![r] = "rows"]
        /\ todo' = [todo EXCEPT ![r] = ActiveOf(job[r].user)]
        /\ \E D \in SUBSET todo[r] : deny' = deny \union D
    BY DEF DenylistSet, UpdateSnapshot
  <1>2. TypeOK'
    <2>1. RowTypes'
      BY <1>1 DEF AuthInv, TypeOK, RowTypes, RequestTypes, rowVars
    <2>2. UserTypes' /\ RequestTypes'
      BY <1>1 DEF AuthInv, TypeOK, UserTypes, RequestTypes, userVars, Steps, ActiveOf
    <2> QED  BY <2>1, <2>2 DEF TypeOK
  <1>3. OnlyMoves(r)
    BY <1>1 DEF OnlyMoves, AuthInv, TypeOK, RequestTypes
  <1>4. pc'[r] = "rows" /\ job'[r] = job[r] /\ todo'[r] = ActiveOf(job[r].user)
    BY <1>1 DEF AuthInv, TypeOK, RequestTypes
  <1>5. \A s \in ActiveOf(job[r].user) : s <= count /\ owner[s] = job[r].user
    BY DEF ActiveOf, AuthInv, RowInv, RowsBelowCount
  <1>6. ActiveOf(job[r].user)' = ActiveOf(job[r].user)
    BY <1>1 DEF ActiveOf, rowVars
  <1>7. RequestInv(r)'
    BY <1>1, <1>4, <1>5, <1>6 DEF RequestInv, ActiveOf, rowVars, AuthInv
  <1> QED  BY <1>1, <1>2, <1>3, <1>7, QuietInv

LEMMA RevokeRowInv ==
  ASSUME AuthInv, NEW r \in Requests, NEW s \in Sessions, RevokeRow(r, s)
  PROVE  AuthInv'
  <1>1. /\ UNCHANGED <<rowVars, age, userVars, expiries, deny, pc, job>> /\ pc[r] = "rows"
        /\ s \in todo[r] /\ lock[s] \in {NoReq, r}
        /\ lock' = IF state[s] = "active" THEN [lock EXCEPT ![s] = r] ELSE lock
        /\ todo' = [todo EXCEPT ![r] = todo[r] \ {s}]
    BY DEF RevokeRow, RowFree, Locked
  <1>2. TypeOK'
    <2>1. RowTypes' /\ UserTypes'
      BY <1>1 DEF AuthInv, TypeOK, RowTypes, UserTypes, rowVars, userVars
    <2>2. RequestTypes'
      BY <1>1 DEF AuthInv, TypeOK, RequestTypes
    <2> QED  BY <2>1, <2>2 DEF TypeOK
  <1>3. RowInv'
    BY <1>1, RowsKept DEF AuthInv
  <1>4. \A q \in Requests \ {r} : Frame(q)
    BY <1>1 DEF Frame, rowVars, AuthInv, TypeOK, RowTypes, RequestTypes
  <1>5. s <= count /\ owner[s] = job[r].user
    BY <1>1 DEF AuthInv, RequestInv
  <1>6. todo'[r] = todo[r] \ {s} /\ \A x \in Sessions : lock'[x] = r => lock[x] = r \/ x = s
    BY <1>1 DEF AuthInv, TypeOK, RowTypes, RequestTypes
  <1>7. \A x \in ActiveOf(job[r].user) : x <= job[r].mark => x \in todo'[r] \/ lock'[x] = r
    BY <1>1, <1>6 DEF AuthInv, RequestInv, ActiveOf, TypeOK, RowTypes
  <1>8. RequestInv(r)'
    BY <1>1, <1>5, <1>6, <1>7 DEF RequestInv, ActiveOf, rowVars, AuthInv
  <1> QED  BY <1>2, <1>3, <1>4, <1>8, StepInv

\* Rows of its user only, and every one it has locked.
LEMMA RevokeCommitRows ==
  ASSUME AuthInv, NEW r \in Requests, RevokeCommit(r)
  PROVE  /\ UNCHANGED <<owner, rotatedFrom, rotatedTo, count, root, cred>>
         /\ lock' = Unlock(r)
         /\ \A s \in Sessions : IF state[s] = "active" /\ lock[s] = r
                               THEN state'[s] = "revoked" /\ owner[s] = job[r].user
                               ELSE state'[s] = state[s]
  BY DEF RevokeCommit, AuthInv, RequestInv, TypeOK, RowTypes

LEMMA RevokeCommitInv ==
  ASSUME AuthInv, NEW r \in Requests, RevokeCommit(r)
  PROVE  AuthInv'
  <1>1. TypeOK'
    <2>1. RowTypes'
      BY UnlockTypes DEF RevokeCommit, AuthInv, TypeOK, RowTypes
    <2>2. UserTypes' /\ RequestTypes'
      BY AnswerTypes DEF RevokeCommit, AuthInv, TypeOK, UserTypes, userVars, Resting
    <2> QED  BY <2>1, <2>2 DEF TypeOK
  <1>2. RowInv'
    BY <1>1, RevokeCommitRows, RowsRevoked DEF AuthInv
  <1>3. \A s \in Sessions : lock'[s] # r
    BY RevokeCommitRows DEF Unlock
  <1>4. RequestInv(r)'
    BY <1>1, <1>3, AnswerInv DEF RevokeCommit, AuthInv, Resting
  <1>5. OnlyMoves(r)
    BY ControlMoves DEF RevokeCommit, AuthInv, TypeOK
  <1>6. \A q \in Requests \ {r} : \A s \in Sessions :
          /\ lock'[s] = q <=> lock[s] = q
          /\ lock[s] = q => state'[s] = state[s]
    BY RevokeCommitRows DEF Unlock, AuthInv, TypeOK, RowTypes
  <1>7. \A s \in Sessions : state'[s] = "active" => state[s] = "active"
    BY RevokeCommitRows
  <1>8. \A q \in Requests \ {r} : Frame(q)
    BY <1>5, <1>6, <1>7, RevokeCommitRows DEF OnlyMoves, Frame, AuthInv, TypeOK, RowTypes
  <1> QED  BY <1>1, <1>2, <1>4, <1>8, StepInv

LEMMA DenylistOwnJtiInv ==
  ASSUME AuthInv, NEW r \in Requests, DenylistOwnJti(r)
  PROVE  AuthInv'
  <1>1. pc[r] = "denyOne" /\ UNCHANGED <<rowVars, lock, age, userVars, expiries>>
    BY DEF DenylistOwnJti
  <1>2. deny' = deny \union {job[r].sid} \/ UNCHANGED deny
    BY DEF DenylistOwnJti, CallersJti
  <1>3. job[r].sid \in Sessions
    BY <1>1 DEF AuthInv, RequestInv, TypeOK, RowTypes
  <1>4. RowTypes' /\ UserTypes'
    BY <1>1, <1>2, <1>3 DEF AuthInv, TypeOK, RowTypes, UserTypes, rowVars, userVars
  <1>5. \A s \in Sessions : lock[s] # r
    BY <1>1, NoLocksOutside DEF AuthInv
  <1>6. \/ Continue(r, "find") \/ Continue(r, "revokeOne")
        \/ Answer(r, "idle") \/ Answer(r, "failed")
    BY DEF DenylistOwnJti
  <1>7. CASE Continue(r, "find")
    BY <1>1, <1>4, <1>7, QuietContinueInv
  <1>8. CASE Continue(r, "revokeOne")
    BY <1>1, <1>4, <1>8, QuietContinueInv
  <1>9. CASE Answer(r, "idle") \/ Answer(r, "failed")
    BY <1>1, <1>4, <1>5, <1>9, QuietAnswerInv DEF Resting
  <1> QED  BY <1>6, <1>7, <1>8, <1>9

\* The row is revoked while nobody else has it locked.
LEMMA RevokeSessionByRefreshHashInv ==
  ASSUME AuthInv, NEW r \in Requests, RevokeSessionByRefreshHash(r)
  PROVE  AuthInv'
  <1> DEFINE t == job[r].tok
  <1>1. /\ pc[r] = "revokeOne" /\ Answer(r, "idle")
        /\ UNCHANGED <<owner, rotatedFrom, rotatedTo, count, root, cred, lock, age,
                      userVars, expiries, deny>>
    BY DEF RevokeSessionByRefreshHash
  <1>2. \/ UNCHANGED state
        \/ /\ t \in Sessions /\ state[t] = "active" /\ lock[t] \in {NoReq, r}
           /\ state' = [state EXCEPT ![t] = "revoked"]
    <2>1. CASE t \in ActiveOf(job[r].user)
      BY <2>1 DEF RevokeSessionByRefreshHash, ActiveOf, RowFree
    <2>2. CASE t \notin ActiveOf(job[r].user)
      BY <2>2 DEF RevokeSessionByRefreshHash
    <2> QED  BY <2>1, <2>2
  <1>3. \A s \in Sessions : state'[s] # state[s] =>
          state[s] = "active" /\ state'[s] = "revoked" /\ lock[s] \in {NoReq, r}
    BY <1>2 DEF AuthInv, TypeOK, RowTypes
  <1>4. TypeOK'
    <2>1. RowTypes'
      BY <1>1, <1>2 DEF AuthInv, TypeOK, RowTypes
    <2>2. UserTypes' /\ RequestTypes'
      BY <1>1, AnswerTypes DEF AuthInv, TypeOK, UserTypes, userVars, Resting
    <2> QED  BY <2>1, <2>2 DEF TypeOK
  <1>5. RowInv'
    BY <1>1, <1>3, <1>4, RowsRevoked DEF AuthInv
  <1>6. \A s \in Sessions : lock'[s] # r
    BY <1>1, NoLocksOutside DEF AuthInv
  <1>7. RequestInv(r)'
    BY <1>1, <1>4, <1>6, AnswerInv DEF AuthInv, Resting
  <1>8. OnlyMoves(r)
    BY <1>1, ControlMoves DEF AuthInv, TypeOK
  <1>9. \A q \in Requests \ {r} : Frame(q)
    BY <1>1, <1>3, <1>8 DEF OnlyMoves, Frame, AuthInv, TypeOK, RowTypes
  <1> QED  BY <1>4, <1>5, <1>7, <1>9, StepInv

LEMMA UpdatePasswordInv ==
  ASSUME AuthInv, NEW r \in Requests, UpdatePassword(r)
  PROVE  AuthInv'
  <1>1. job[r].user \in Users
    BY DEF AuthInv, TypeOK, RequestTypes, Job
  <1>2. UserTypes'
    BY <1>1 DEF UpdatePassword, AuthInv, TypeOK, UserTypes
  <1>3. RowTypes' /\ UNCHANGED <<rowVars, lock>>
    BY DEF UpdatePassword, AuthInv, TypeOK, RowTypes, rowVars
  <1>4. \A s \in Sessions : lock[s] # r
    BY NoLocksOutside DEF UpdatePassword, AuthInv
  <1>5. CASE Continue(r, "find")
    BY <1>2, <1>3, <1>5, QuietContinueInv DEF UpdatePassword
  <1>6. CASE Answer(r, "failed")
    BY <1>2, <1>3, <1>4, <1>6, QuietAnswerInv DEF Resting
  <1> QED  BY <1>5, <1>6 DEF UpdatePassword, CacheCallThen

LEMMA SetActiveInv ==
  ASSUME AuthInv, NEW r \in Requests, SetActive(r)
  PROVE  AuthInv'
  <1>1. job[r].user \in Users /\ job[r].ok \in BOOLEAN
    BY DEF AuthInv, TypeOK, RequestTypes, Job
  <1>2. UserTypes'
    BY <1>1 DEF SetActive, AuthInv, TypeOK, UserTypes
  <1>3. RowTypes' /\ UNCHANGED <<rowVars, lock>>
    BY DEF SetActive, AuthInv, TypeOK, RowTypes, rowVars
  <1>4. \A s \in Sessions : lock[s] # r
    BY NoLocksOutside DEF SetActive, AuthInv
  <1>5. Continue(r, "find") \/ Answer(r, "idle") \/ Answer(r, "failed")
    BY DEF SetActive, CacheCallThen, CacheCallThenAnswer
  <1>6. CASE Continue(r, "find")
    BY <1>2, <1>3, <1>6, QuietContinueInv DEF SetActive
  <1>7. CASE Answer(r, "idle") \/ Answer(r, "failed")
    BY <1>2, <1>3, <1>4, <1>7, QuietAnswerInv DEF Resting
  <1> QED  BY <1>5, <1>6, <1>7

\* Rollbacks: the transaction is gone, the locks too, and nothing was written.
LEMMA RollbackInv ==
  ASSUME AuthInv, NEW r \in Requests, DeadlockVictim(r) \/ BoundReached(r) \/ DbError(r)
  PROVE  AuthInv'
  <1>1. /\ lock' = Unlock(r) /\ Answer(r, "failed")
        /\ UNCHANGED <<rowVars, age, userVars, expiries, deny>>
    BY DEF DeadlockVictim, BoundReached, DbError
  <1>2. RowTypes' /\ UserTypes'
    BY <1>1, UnlockTypes DEF AuthInv, TypeOK, RowTypes, UserTypes, rowVars, userVars
  <1> QED  BY <1>1, <1>2, QuietAnswerInv DEF Resting
-----------------------------------------------------------------------------
(* 6. The environment.                                                      *)

\* Nothing RequestInv reads changes.
LEMMA UnseenInv ==
  ASSUME AuthInv, RowTypes', UserTypes', UNCHANGED <<rowVars, lock, pc, job, todo>>
  PROVE  AuthInv'
  <1>1. TypeOK'
    BY DEF AuthInv, TypeOK, RequestTypes
  <1>2. RowInv'
    BY RowsKept DEF AuthInv
  <1>3. \A q \in Requests : Frame(q)
    BY DEF Frame, rowVars, AuthInv, TypeOK, RowTypes
  <1>4. \A q \in Requests : RequestInv(q)'
    BY <1>1, <1>3, FrameInv DEF AuthInv
  <1> QED  BY <1>1, <1>2, <1>4 DEF AuthInv

LEMMA AgeInv ==
  ASSUME AuthInv, NEW s \in Sessions, Age(s)
  PROVE  AuthInv'
  <1>1. age[s] + 1 \in 0 .. 2
    <2>1. age[s] \in 0 .. 2 /\ MaxAge \in 0 .. 2 /\ age[s] < MaxAge
      BY DEF Age, AuthInv, TypeOK, RowTypes
    <2> QED  BY <2>1
  <1>2. RowTypes'
    BY <1>1 DEF Age, AuthInv, TypeOK, RowTypes, rowVars
  <1>3. UserTypes'
    BY DEF Age, AuthInv, TypeOK, UserTypes, userVars
  <1> QED  BY <1>2, <1>3, UnseenInv DEF Age

LEMMA LockExpiresInv ==
  ASSUME AuthInv, NEW u \in Users, LockExpires(u)
  PROVE  AuthInv'
  <1>1. RowTypes'
    BY DEF LockExpires, AuthInv, TypeOK, RowTypes, rowVars
  <1>2. UserTypes'
    BY DEF LockExpires, AuthInv, TypeOK, UserTypes
  <1> QED  BY <1>1, <1>2, UnseenInv DEF LockExpires

LEMMA PurgeSessionsInv ==
  ASSUME AuthInv, NEW D \in SUBSET Sessions, PurgeSessions(D)
  PROVE  AuthInv'
  <1>1. TypeOK'
    <2>1. RowTypes'
      BY DEF PurgeSessions, ParentsSetNull, AuthInv, TypeOK, RowTypes
    <2>2. UserTypes' /\ RequestTypes'
      BY DEF PurgeSessions, AuthInv, TypeOK, UserTypes, RequestTypes, userVars
    <2> QED  BY <2>1, <2>2 DEF TypeOK
  <1>2. RowInv'
    BY <1>1, RowsPurged DEF AuthInv
  <1>3. \A s \in Sessions : /\ state'[s] = "active" => state[s] = "active"
                          /\ lock[s] \in Requests => state'[s] = state[s]
    BY DEF PurgeSessions, AuthInv, TypeOK, RowTypes
  <1>4. \A q \in Requests : Frame(q)
    BY <1>3 DEF PurgeSessions, Frame, AuthInv, TypeOK, RowTypes
  <1>5. \A q \in Requests : RequestInv(q)'
    BY <1>1, <1>4, FrameInv DEF AuthInv
  <1> QED  BY <1>1, <1>2, <1>5 DEF AuthInv
-----------------------------------------------------------------------------
(* 7. The theorems.                                                         *)

LEMMA InitInv == Init => AuthInv
  <1> SUFFICES ASSUME Init PROVE AuthInv
    OBVIOUS
  <1>1. TypeOK
    <2>1. RowTypes
      BY AnyUserType DEF Init, RowTypes
    <2>2. UserTypes /\ RequestTypes
      BY NoJobType DEF Init, UserTypes, RequestTypes, Resting
    <2> QED  BY <2>1, <2>2 DEF TypeOK
  <1>2. RowInv
    BY DEF Init, RowInv, RowsBelowCount, FamilySingleActive, RotationLinked
  <1>3. \A r \in Requests : RequestInv(r)
    BY NoJobType DEF Init, RequestInv
  <1> QED  BY <1>1, <1>2, <1>3 DEF AuthInv

LEMMA NextInv == AuthInv /\ [Next]_vars => AuthInv'
  <1> SUFFICES ASSUME AuthInv, [Next]_vars PROVE AuthInv'
    OBVIOUS
  <1>1. CASE EnvironmentStep
    BY <1>1, AgeInv, LockExpiresInv, PurgeSessionsInv, RollbackInv DEF EnvironmentStep
  <1>2. ASSUME NEW r \in Requests, ClientStep(r)
        PROVE  AuthInv'
    BY <1>2, LoginInv, SetUserActiveInv, RefreshInv, LogoutAllInv, ChangePasswordInv,
       LogoutInv DEF ClientStep
  <1>3. ASSUME NEW r \in Requests, HandlerStep(r)
        PROVE  AuthInv'
    BY <1>3, RecordFailedLoginInv, ResetFailedLoginInv, CreateTokensAndSessionInv,
       RefreshRefusedInv, RefreshReuseOrLockInv, RefreshUserInv, RefreshRotateInv,
       DenylistFindInv, DenylistSetInv, RevokeRowInv, RevokeCommitInv, DenylistOwnJtiInv,
       RevokeSessionByRefreshHashInv, UpdatePasswordInv, SetActiveInv, RollbackInv
       DEF HandlerStep
  <1>4. CASE UNCHANGED vars
    BY <1>4, UnseenInv DEF vars, AuthInv, TypeOK, RowTypes, UserTypes, rowVars, userVars
  <1> QED  BY <1>1, <1>2, <1>3, <1>4 DEF Next

\* The inductive invariant holds in every reachable state.
THEOREM AuthInvariant == Spec => []AuthInv
  BY InitInv, NextInv, PTL DEF Spec

\* Type correctness.
THEOREM AuthTypeOK == Spec => []TypeOK
  BY AuthInvariant, PTL DEF AuthInv

\* No login ever has two sessions that can be refreshed.
THEOREM AuthFamilySingleActive == Spec => []FamilySingleActive
  BY AuthInvariant, PTL DEF AuthInv, RowInv

\* The two ends of a rotation agree, whatever the purge deletes.
THEOREM AuthRotationLinked == Spec => []RotationLinked
  BY AuthInvariant, PTL DEF AuthInv, RowInv
-----------------------------------------------------------------------------
(* 8. What a step may do.                                                   *)

LEMMA OthersPc ==
  ASSUME TypeOK, NEW q \in Requests, ClientStep(q) \/ HandlerStep(q)
  PROVE  \A r \in Requests \ {q} : pc'[r] = pc[r]
  <1>1. CASE ClientStep(q)
    BY <1>1 DEF ClientStep, Login, SetUserActive, Refresh, LogoutAll, ChangePassword, Logout,
                Begin, TypeOK, RequestTypes
  <1>2. CASE RecordFailedLogin(q) \/ ResetFailedLogin(q) \/ CreateTokensAndSession(q)
    BY <1>2 DEF RecordFailedLogin, ResetFailedLogin, CreateTokensAndSession, CacheCallThen,
                CacheCallThenAnswer, Continue, Answer, TypeOK, RequestTypes
  <1>3. CASE RefreshRefused(q) \/ RefreshReuse(q) \/ RefreshLock(q) \/ RefreshUser(q)
             \/ RefreshRotate(q)
    BY <1>3 DEF RefreshRefused, RefreshReuse, RefreshLock, RefreshUser, RefreshRotate,
                Continue, Answer, TypeOK, RequestTypes
  <1>4. CASE DenylistFind(q) \/ DenylistSet(q) \/ RevokeCommit(q)
             \/ \E s \in Sessions : RevokeRow(q, s)
    BY <1>4 DEF DenylistFind, DenylistSet, RevokeCommit, RevokeRow, Answer, TypeOK, RequestTypes
  <1>5. CASE DenylistOwnJti(q)
    <2>1. \E x : Continue(q, x) \/ Answer(q, x)
      BY <1>5 DEF DenylistOwnJti
    <2> QED  BY <2>1 DEF Continue, Answer, TypeOK, RequestTypes
  <1>6. CASE RevokeSessionByRefreshHash(q)
    <2>1. Answer(q, "idle")
      BY <1>6 DEF RevokeSessionByRefreshHash
    <2> QED  BY <2>1 DEF Answer, TypeOK, RequestTypes
  <1>7. CASE UpdatePassword(q) \/ SetActive(q)
    BY <1>7 DEF UpdatePassword, SetActive, CacheCallThen, CacheCallThenAnswer, Continue,
                Answer, TypeOK, RequestTypes
  <1>8. CASE DeadlockVictim(q) \/ BoundReached(q)
    BY <1>8 DEF DeadlockVictim, BoundReached, Answer, TypeOK, RequestTypes
  <1> QED  BY <1>1, <1>2, <1>3, <1>4, <1>5, <1>6, <1>7, <1>8 DEF HandlerStep

\* The only way from "rows" to "idle" is the commit of the bulk revocation.
LEMMA RowsToIdle ==
  ASSUME TypeOK, [Next]_vars, NEW r \in Requests, pc[r] = "rows", pc'[r] = "idle"
  PROVE  RevokeCommit(r)
  <1>1. CASE EnvironmentStep
    BY <1>1 DEF EnvironmentStep, Age, LockExpires, PurgeSessions, DbError, Answer, TypeOK,
                RequestTypes
  <1>2. CASE \E q \in Requests : q # r /\ (ClientStep(q) \/ HandlerStep(q))
    BY <1>2, OthersPc
  <1>3. CASE ClientStep(r)
    BY <1>3 DEF ClientStep, Login, SetUserActive, Refresh, LogoutAll, ChangePassword, Logout,
                Begin, Resting
  <1>4. CASE HandlerStep(r)
    <2>1. CASE DeadlockVictim(r) \/ BoundReached(r)
      BY <2>1 DEF DeadlockVictim, BoundReached, Answer, TypeOK, RequestTypes
    <2>2. CASE \E s \in Sessions : RevokeRow(r, s)
      BY <2>2 DEF RevokeRow
    <2> QED
      BY <1>4, <2>1, <2>2 DEF HandlerStep, RecordFailedLogin, ResetFailedLogin,
         CreateTokensAndSession, RefreshRefused, RefreshReuse, RefreshLock, LookupDone,
         RefreshUser, RefreshRotate, DenylistFind, DenylistSet, DenylistOwnJti,
         RevokeSessionByRefreshHash, UpdatePassword, SetActive
  <1>5. CASE UNCHANGED vars
    BY <1>5 DEF vars
  <1> QED  BY <1>1, <1>2, <1>3, <1>4, <1>5 DEF Next

\* A committed bulk revocation has reached every session of the user that existed
\* when the call arrived.
THEOREM AuthMassRevocationCovers == Spec => MassRevocationCovers
  <1>1. ASSUME AuthInv, [Next]_vars
        PROVE  [\A r \in Requests : pc[r] = "rows" /\ pc'[r] = "idle" =>
                  \A s \in 1 .. job[r].mark :
                    owner[s] = job[r].user => state'[s] # "active"]_vars
    <2> SUFFICES ASSUME NEW r \in Requests, pc[r] = "rows", pc'[r] = "idle",
                        NEW s \in 1 .. job[r].mark, owner[s] = job[r].user
                 PROVE  state'[s] # "active"
      OBVIOUS
    <2>1. RevokeCommit(r)
      BY <1>1, RowsToIdle DEF AuthInv
    <2>2. job[r].mark \in Ref
      BY <1>1 DEF AuthInv, TypeOK, RequestTypes, Job
    <2>3. s \in Sessions /\ s <= job[r].mark
      BY <2>2
    <2>4. RequestInv(r) /\ todo[r] = {}
      BY <1>1, <2>1 DEF AuthInv, RevokeCommit
    <2>5. state[s] = "active" => lock[s] = r
      BY <2>3, <2>4 DEF RequestInv, ActiveOf
    <2> QED  BY <1>1, <2>1, <2>3, <2>5, RevokeCommitRows
  <1> QED  BY <1>1, AuthInvariant, PTL DEF Spec, MassRevocationCovers

\* Only requests made for the owner of a session revoke it.
THEOREM AuthRevokedForItsOwner == Spec => RevokedForItsOwner
  <1>1. ASSUME AuthInv, [Next]_vars
        PROVE  [\A s \in Sessions : state[s] = "active" /\ state'[s] = "revoked" =>
                  \E r \in Requests : pc[r] # pc'[r] /\ owner[s] = job[r].user]_vars
    <2> SUFFICES ASSUME NEW s \in Sessions, state[s] = "active", state'[s] = "revoked"
                 PROVE  \E r \in Requests : pc[r] # pc'[r] /\ owner[s] = job[r].user
      OBVIOUS
    <2>1. \E r \in Requests : RefreshRotate(r) \/ RevokeCommit(r)
                               \/ RevokeSessionByRefreshHash(r) \/ CreateTokensAndSession(r)
      <3>1. state' # state
        OBVIOUS
      <3>2. ~EnvironmentStep
        BY <3>1 DEF EnvironmentStep, Age, LockExpires, PurgeSessions, DbError, rowVars
      <3>3. \A r \in Requests : ~ClientStep(r)
        BY <3>1 DEF ClientStep, Login, SetUserActive, Refresh, LogoutAll, ChangePassword,
           Logout, rowVars
      <3>4. PICK r \in Requests : HandlerStep(r)
        BY <1>1, <3>1, <3>2, <3>3 DEF Next, vars, rowVars
      <3> QED  BY <3>1, <3>4 DEF HandlerStep, RecordFailedLogin, ResetFailedLogin,
           RefreshRefused, RefreshReuse, RefreshLock, RefreshUser, DenylistFind, DenylistSet,
           RevokeRow, DenylistOwnJti, UpdatePassword, SetActive, DeadlockVictim,
           BoundReached, rowVars
    <2>2. ASSUME NEW r \in Requests, Answer(r, "idle"), pc[r] # "idle"
          PROVE  pc[r] # pc'[r]
      BY <1>1, <2>2 DEF Answer, AuthInv, TypeOK, RequestTypes
    <2>3. ASSUME NEW r \in Requests, RefreshRotate(r)
          PROVE  pc[r] # pc'[r] /\ owner[s] = job[r].user
      <3>1. RequestInv(r) /\ pc[r] = "rotate" /\ Answer(r, "idle")
        BY <1>1, <2>3 DEF AuthInv, RefreshRotate
      <3>2. s = job[r].sid
        BY <2>3 DEF RefreshRotate, Insert
      <3> QED  BY <2>2, <3>1, <3>2 DEF RequestInv
    <2>4. ASSUME NEW r \in Requests, RevokeCommit(r)
          PROVE  pc[r] # pc'[r] /\ owner[s] = job[r].user
      <3>1. pc[r] = "rows" /\ Answer(r, "idle")
        BY <2>4 DEF RevokeCommit
      <3> QED  BY <1>1, <2>2, <2>4, <3>1, RevokeCommitRows
    <2>5. ASSUME NEW r \in Requests, RevokeSessionByRefreshHash(r)
          PROVE  pc[r] # pc'[r] /\ owner[s] = job[r].user
      <3>1. pc[r] = "revokeOne" /\ Answer(r, "idle")
        BY <2>5 DEF RevokeSessionByRefreshHash
      <3>2. s \in ActiveOf(job[r].user)
        BY <1>1, <2>5 DEF RevokeSessionByRefreshHash, ActiveOf, AuthInv, TypeOK, RowTypes
      <3> QED  BY <2>2, <3>1, <3>2 DEF ActiveOf
    <2>6. ASSUME NEW r \in Requests, CreateTokensAndSession(r)
          PROVE  FALSE
      BY <1>1, <2>6 DEF CreateTokensAndSession, Insert, AuthInv, TypeOK, RowTypes
    <2> QED  BY <2>1, <2>3, <2>4, <2>5, <2>6
  <1> QED  BY <1>1, AuthInvariant, PTL DEF Spec, RevokedForItsOwner
-----------------------------------------------------------------------------
(* 9. The refinement of SessionFamilies.                                    *)

LEMMA CloseStep ==
  ASSUME AuthInv, UNCHANGED <<count, root>>,
         \A s \in Sessions : state'[s] = "active" => state[s] = "active"
  PROVE  \E F \in SUBSET Sessions : Families!Close(F)
  <1> DEFINE F == {f \in Sessions : LiveOf(f)' = {}}
  <1>1. ASSUME NEW f \in Sessions, f \notin F
        PROVE  LiveOf(f)' = LiveOf(f)
    BY <1>1 DEF LiveOf, AuthInv, RowInv, FamilySingleActive
  <1>2. [f \in Sessions |-> LiveOf(f)'] =
          [f \in Sessions |-> IF f \in F THEN {} ELSE [g \in Sessions |-> LiveOf(g)][f]]
    BY <1>1
  <1> QED  BY <1>2 DEF Families!Close

LEMMA InsertStep ==
  ASSUME AuthInv, AuthInv', count < MaxSessions, NEW u, NEW parent \in Ref, NEW pw,
         Insert(count + 1, u, parent, pw),
         parent # NoSession => parent \in 1 .. count /\ state[parent] = "active"
  PROVE  Families!FamiliesNext
  <1> DEFINE t == count + 1
             live == [f \in Sessions |-> LiveOf(f)]
  <1>1. t \in Sessions \ 1 .. count /\ (1 .. count)' = (1 .. count) \union {t}
    BY DEF Insert, AuthInv, TypeOK, RowTypes
  <1>2. /\ state'[t] = "active" /\ root'[t] = IF parent = NoSession THEN t ELSE root[parent]
        /\ \A s \in Sessions : s # t => root'[s] = root[s]
        /\ \A s \in Sessions : s # t => (state'[s] = "active" <=> state[s] = "active" /\ s # parent)
    BY <1>1 DEF Insert, AuthInv, TypeOK, RowTypes
  <1>3. ASSUME NEW s \in Sessions, state[s] = "active"
        PROVE  s # t /\ root[s] # t
    <2>1. s <= count /\ root[s] <= count
      BY <1>3 DEF AuthInv, RowInv, RowsBelowCount
    <2>2. count \in Nat /\ ~(t <= count)
      BY DEF AuthInv, TypeOK, RowTypes
    <2> QED  BY <2>1, <2>2
  <1>4. CASE parent = NoSession
    <2>1. \A f \in Sessions : LiveOf(f)' = IF f = t THEN {t} ELSE LiveOf(f)
      BY <1>1, <1>2, <1>3, <1>4 DEF LiveOf
    <2>2. live' = [live EXCEPT ![t] = {t}]
      BY <2>1
    <2> QED  BY <1>1, <2>2 DEF Families!FamiliesNext, Families!Open
  <1>5. CASE parent # NoSession
    <2> DEFINE fam == root[parent]
    <2>1. parent \in Sessions /\ state[parent] = "active" /\ fam \in Sessions
      BY <1>5 DEF AuthInv, RowInv, RowsBelowCount, TypeOK, RowTypes
    <2>2. LiveOf(fam) = {parent}
      BY <2>1 DEF LiveOf, AuthInv, RowInv, FamilySingleActive
    <2>3. \A g \in Sessions : LiveOf(g)' = IF g = fam THEN {t} ELSE LiveOf(g)
      <3>1. ASSUME NEW g \in Sessions, g = fam
            PROVE  LiveOf(g)' = {t}
        BY <1>1, <1>2, <1>5, <2>1, <2>2, <3>1 DEF LiveOf
      <3>2. ASSUME NEW g \in Sessions, g # fam
            PROVE  LiveOf(g)' = LiveOf(g)
        BY <1>1, <1>2, <1>3, <1>5, <2>1, <3>2 DEF LiveOf
      <3> QED  BY <3>1, <3>2
    <2>4. live' = [live EXCEPT ![fam] = {t}]
      <3> HIDE DEF fam
      <3> QED  BY <2>1, <2>3
    <2> QED  BY <1>1, <2>1, <2>2, <2>4 DEF Families!FamiliesNext, Families!Advance
  <1> QED  BY <1>4, <1>5

\* Rows are created by login and refresh only; every other step leaves them alone
\* or makes active rows inactive.
LEMMA RowSteps ==
  ASSUME AuthInv, [Next]_vars
  PROVE  \/ \E r \in Requests : CreateTokensAndSession(r) \/ RefreshRotate(r)
         \/ /\ UNCHANGED <<count, root>>
            /\ \A s \in Sessions : state'[s] = "active" => state[s] = "active"
  <1>1. CASE \E r \in Requests : RevokeCommit(r)
    BY <1>1, RevokeCommitRows
  <1>2. CASE \E r \in Requests : RevokeSessionByRefreshHash(r)
    BY <1>2 DEF RevokeSessionByRefreshHash, AuthInv, TypeOK, RowTypes
  <1>3. CASE \E D \in SUBSET Sessions : PurgeSessions(D)
    BY <1>3 DEF PurgeSessions, AuthInv, TypeOK, RowTypes
  <1>4. CASE UNCHANGED rowVars
    BY <1>4 DEF rowVars
  <1> QED
    BY <1>1, <1>2, <1>3, <1>4 DEF Next, EnvironmentStep, ClientStep, HandlerStep, vars,
       Age, LockExpires, DbError, Login, SetUserActive, Refresh, LogoutAll,
       ChangePassword, Logout, RecordFailedLogin, ResetFailedLogin, RefreshRefused,
       RefreshReuse, RefreshLock, RefreshUser, DenylistFind, DenylistSet, RevokeRow,
       DenylistOwnJti, UpdatePassword, SetActive, DeadlockVictim, BoundReached

\* The sessions of a login behave like an abstract family: one live member at a
\* time, and none again once it has been closed.
THEOREM AuthImplementsFamilies == Spec => ImplementsFamilies
  <1>1. Init => Families!FamiliesInit
    BY DEF Init, Families!FamiliesInit, LiveOf
  <1>2. ASSUME AuthInv, AuthInv', [Next]_vars
        PROVE  [Families!FamiliesNext]_(Families!fvars)
    <2>1. ASSUME NEW r \in Requests, CreateTokensAndSession(r)
          PROVE  Families!FamiliesNext
      BY <1>2, <2>1, InsertStep DEF CreateTokensAndSession
    <2>2. ASSUME NEW r \in Requests, RefreshRotate(r)
          PROVE  Families!FamiliesNext
      <3>1. RequestInv(r) /\ job[r].sid \in Ref
        BY <1>2 DEF AuthInv, TypeOK, RequestTypes, Job
      <3> QED  BY <1>2, <2>2, <3>1, InsertStep DEF RefreshRotate, RequestInv
    <2>3. ASSUME UNCHANGED <<count, root>>,
                 \A s \in Sessions : state'[s] = "active" => state[s] = "active"
          PROVE  Families!FamiliesNext
      BY <1>2, <2>3, CloseStep DEF Families!FamiliesNext
    <2> QED  BY <1>2, <2>1, <2>2, <2>3, RowSteps
  <1> QED  BY <1>1, <1>2, AuthInvariant, PTL DEF Spec, ImplementsFamilies, Families!FamiliesSpec
-----------------------------------------------------------------------------
(* 10. The lockout.  A guess counts twice: when it passes the lockout test   *)
(* and when it is recorded.  While the account is locked no login passes the *)
(* test, so what is recorded and what can still be recorded only shrink      *)
(* together; the last guess before the lock finds at most every request in   *)
(* between the two.                                                          *)

\* The wrong guesses at u that have passed the test and are not yet recorded.
Guesses(u) == {r \in Requests : pc[r] = "compare" /\ ~job[r].ok /\ job[r].user = u}

\* What the account has received before the lock it has now, or gets next.
Allowed == LockoutThreshold - 1 + Cardinality(Requests) * expiries

GuessInv ==
  \A u \in Users :
    /\ ~locked[u] => failedLoginAttempts[u] <= Allowed
    /\ locked[u] => failedLoginAttempts[u] + Cardinality(Guesses(u))
                      <= Allowed + Cardinality(Requests)

LEMMA GuessesFinite ==
  ASSUME NEW u \in Users
  PROVE  /\ IsFiniteSet(Guesses(u)) /\ Cardinality(Guesses(u)) \in Nat
         /\ Cardinality(Guesses(u)) <= Cardinality(Requests)
         /\ Cardinality(Requests) \in Nat
  <1>1. Guesses(u) \subseteq Requests
    BY DEF Guesses
  <1> QED  BY <1>1, FinitelyMany, FS_Subset, FS_CardinalityType

LEMMA AllowedType ==
  ASSUME TypeOK
  PROVE  /\ Allowed \in Nat
         /\ expiries' = expiries => Allowed' = Allowed
         /\ expiries' = expiries + 1 => Allowed' = Allowed + Cardinality(Requests)
  <1>1. Cardinality(Requests) \in Nat /\ expiries \in Nat
    BY FinitelyMany, FS_CardinalityType DEF TypeOK, UserTypes
  <1>2. Cardinality(Requests) * expiries \in Nat
    BY <1>1
  <1>3. Cardinality(Requests) * (expiries + 1) = Cardinality(Requests) * expiries + Cardinality(Requests)
    BY <1>1
  <1> QED  BY <1>1, <1>2, <1>3, ThresholdAssumption DEF Allowed

\* A step that starts no guess at a locked account and touches no counter.
LEMMA GuessFrame ==
  ASSUME TypeOK, GuessInv, UNCHANGED <<failedLoginAttempts, locked, expiries>>,
         \A u \in Users : locked[u] => Guesses(u)' \subseteq Guesses(u)
  PROVE  GuessInv'
  <1> SUFFICES ASSUME NEW u \in Users
      PROVE  /\ ~locked[u] => failedLoginAttempts[u] <= Allowed'
             /\ locked[u] => failedLoginAttempts[u] + Cardinality(Guesses(u)')
                               <= Allowed' + Cardinality(Requests)
    BY DEF GuessInv
  <1>1. Allowed' = Allowed /\ Allowed \in Nat
    BY AllowedType
  <1>2. locked[u] => Cardinality(Guesses(u)') <= Cardinality(Guesses(u))
                     /\ Cardinality(Guesses(u)') \in Nat
    BY GuessesFinite, FS_Subset, FS_CardinalityType
  <1>3. failedLoginAttempts[u] \in Nat /\ Cardinality(Requests) \in Nat
        /\ Cardinality(Guesses(u)) \in Nat
    BY GuessesFinite DEF TypeOK, UserTypes
  <1> QED  BY <1>1, <1>2, <1>3 DEF GuessInv

\* Nobody comes to the comparison.
NoNewGuess == \A x \in Requests : pc'[x] = "compare" => pc[x] = "compare" /\ job'[x] = job[x]

\* Only a login does.
LEMMA ComparesBegin ==
  ASSUME TypeOK, [Next]_vars,
         ~ \E r \in Requests, u \in Users, b \in BOOLEAN : Login(r, u, b)
  PROVE  NoNewGuess
  <1>a. ASSUME NEW q \in Requests, NEW x \in Resting \union (Steps \ {"compare"}),
               Continue(q, x) \/ Answer(q, x)
        PROVE  NoNewGuess
    BY <1>a DEF NoNewGuess, Continue, Answer, TypeOK, RequestTypes, Resting, Steps
  <1>b. ASSUME NEW q \in Requests, NEW x \in Steps \ {"compare"}, NEW j, Begin(q, x, j)
        PROVE  NoNewGuess
    BY <1>b DEF NoNewGuess, Begin, TypeOK, RequestTypes, Steps
  <1>c. ASSUME UNCHANGED <<pc, job>>
        PROVE  NoNewGuess
    BY <1>c DEF NoNewGuess
  <1>d. ASSUME NEW q \in Requests, NEW x \in Steps \ {"compare"}, pc' = [pc EXCEPT ![q] = x],
               \A y \in Requests \ {q} : job'[y] = job[y]
        PROVE  NoNewGuess
    BY <1>d DEF NoNewGuess, TypeOK, RequestTypes, Steps
  <1>1. CASE EnvironmentStep
    <2>1. \/ UNCHANGED <<pc, job>>
          \/ \E q \in Requests : Answer(q, "failed")
      BY <1>1 DEF EnvironmentStep, Age, LockExpires, PurgeSessions, DbError
    <2> QED  BY <2>1, <1>a, <1>c DEF Resting
  <1>2. ASSUME NEW q \in Requests, ClientStep(q)
        PROVE  NoNewGuess
    <2>1. \E x \in {"setActive", "lookup", "denyOne", "setPassword"} : \E j : Begin(q, x, j)
      BY <1>2 DEF ClientStep, SetUserActive, Refresh, LogoutAll, ChangePassword, Logout
    <2> QED  BY <2>1, <1>b DEF Steps
  <1>3. ASSUME NEW q \in Requests, HandlerStep(q)
        PROVE  NoNewGuess
    <2>1. CASE RecordFailedLogin(q) \/ ResetFailedLogin(q) \/ CreateTokensAndSession(q)
               \/ RefreshRefused(q) \/ RefreshLock(q) \/ RefreshRotate(q)
      <3>1. \E x \in Resting \union {"create", "user"} : Continue(q, x) \/ Answer(q, x)
        BY <2>1 DEF RecordFailedLogin, ResetFailedLogin, CreateTokensAndSession, CacheCallThen,
           CacheCallThenAnswer, RefreshRefused, RefreshLock, RefreshRotate, Resting
      <3> QED  BY <3>1, <1>a DEF Steps
    <2>2. CASE DenylistOwnJti(q) \/ RevokeSessionByRefreshHash(q) \/ UpdatePassword(q)
               \/ SetActive(q) \/ DeadlockVictim(q) \/ BoundReached(q) \/ RevokeCommit(q)
      <3>1. \E x \in Resting \union {"find", "revokeOne"} : Continue(q, x) \/ Answer(q, x)
        BY <2>2 DEF DenylistOwnJti, RevokeSessionByRefreshHash, UpdatePassword, SetActive,
           CacheCallThen, CacheCallThenAnswer, DeadlockVictim, BoundReached, RevokeCommit, Resting
      <3> QED  BY <3>1, <1>a DEF Steps
    <2>3. CASE DenylistFind(q) \/ DenylistSet(q) \/ RefreshReuse(q)
      <3>1. \E x \in {"find", "deny", "rows"} : pc' = [pc EXCEPT ![q] = x]
        BY <2>3 DEF DenylistFind, DenylistSet, RefreshReuse
      <3>2. \A y \in Requests \ {q} : job'[y] = job[y]
        BY <2>3 DEF DenylistFind, DenylistSet, RefreshReuse, TypeOK, RequestTypes
      <3> QED  BY <3>1, <3>2, <1>d DEF Steps
    <2>4. CASE RefreshUser(q)
      <3>1. CASE Continue(q, "rotate")
        BY <3>1, <1>a DEF Steps
      <3>2. CASE pc' = [pc EXCEPT ![q] = "find"] /\ job' = [job EXCEPT ![q].op = "denied"]
        <4>1. \A y \in Requests \ {q} : job'[y] = job[y]
          BY <3>2 DEF TypeOK, RequestTypes
        <4> QED  BY <3>2, <4>1, <1>d DEF Steps
      <3> QED  BY <2>4, <3>1, <3>2 DEF RefreshUser
    <2>5. CASE \E s \in Sessions : RevokeRow(q, s)
      BY <2>5, <1>c DEF RevokeRow
    <2> QED  BY <1>3, <2>1, <2>2, <2>3, <2>4, <2>5 DEF HandlerStep
  <1>4. CASE UNCHANGED vars
    BY <1>4, <1>c DEF vars
  <1> QED  BY <1>1, <1>2, <1>3, <1>4 DEF Next

\* Nobody else writes the counter or the lock of an account.
LEMMA CountersWrittenBy ==
  ASSUME [Next]_vars
  PROVE  \/ UNCHANGED <<failedLoginAttempts, locked, expiries>>
         \/ \E r \in Requests : RecordFailedLogin(r) \/ ResetFailedLogin(r)
         \/ \E u \in Users : LockExpires(u)
  <1> SUFFICES ASSUME ~ UNCHANGED <<failedLoginAttempts, locked, expiries>>
               PROVE  \/ \E r \in Requests : RecordFailedLogin(r) \/ ResetFailedLogin(r)
                      \/ \E u \in Users : LockExpires(u)
    OBVIOUS
  <1>1. CASE EnvironmentStep
    BY <1>1 DEF EnvironmentStep, Age, PurgeSessions, DbError, userVars
  <1>2. ASSUME NEW r \in Requests, ClientStep(r)
        PROVE  FALSE
    BY <1>2 DEF ClientStep, Login, SetUserActive, Refresh, LogoutAll, ChangePassword, Logout,
                userVars
  <1>3. ASSUME NEW r \in Requests, HandlerStep(r)
        PROVE  RecordFailedLogin(r) \/ ResetFailedLogin(r)
    BY <1>3 DEF HandlerStep, CreateTokensAndSession, RefreshRefused, RefreshReuse, RefreshLock,
       RefreshUser, RefreshRotate, DenylistFind, DenylistSet, RevokeRow, RevokeCommit,
       DenylistOwnJti, RevokeSessionByRefreshHash, UpdatePassword, SetActive, DeadlockVictim,
       BoundReached, userVars
  <1>4. CASE UNCHANGED vars
    BY <1>4 DEF vars, userVars
  <1> QED  BY <1>1, <1>2, <1>3, <1>4 DEF Next

LEMMA GuessLogin ==
  ASSUME TypeOK, GuessInv, NEW r \in Requests, NEW u \in Users, NEW b \in BOOLEAN, Login(r, u, b)
  PROVE  GuessInv'
  <1>1. ~locked[u] /\ UNCHANGED <<failedLoginAttempts, locked, expiries>>
    BY DEF Login, LoginAllowed, userVars
  <1>2. job'[r].user = u
    BY DEF Login, Begin, Call, TypeOK, RequestTypes
  <1>3. \A x \in Requests \ {r} : pc'[x] = pc[x] /\ job'[x] = job[x]
    BY DEF Login, Begin, TypeOK, RequestTypes
  <1>4. \A v \in Users : locked[v] => Guesses(v)' \subseteq Guesses(v)
    BY <1>1, <1>2, <1>3 DEF Guesses
  <1> QED  BY <1>1, <1>4, GuessFrame

LEMMA GuessRecorded ==
  ASSUME TypeOK, GuessInv, NEW r \in Requests, RecordFailedLogin(r)
  PROVE  GuessInv'
  <1> DEFINE u == job[r].user
             N == Cardinality(Requests)
  <1>1. u \in Users
    BY DEF TypeOK, RequestTypes, Job
  <1>2. Allowed' = Allowed /\ Allowed \in Nat /\ N \in Nat /\ LockoutThreshold - 1 <= Allowed
        /\ LockoutThreshold \in Nat \ {0}
    <2>1. N \in Nat /\ expiries \in Nat
      BY FinitelyMany, FS_CardinalityType DEF TypeOK, UserTypes
    <2>2. N * expiries \in Nat
      BY <2>1
    <2> QED  BY <2>1, <2>2, AllowedType, ThresholdAssumption DEF RecordFailedLogin, Allowed
  <1>3. pc'[r] \in Resting /\ \A x \in Requests \ {r} : pc'[x] = pc[x] /\ job'[x] = job[x]
    <2>1. Answer(r, "idle") \/ Answer(r, "failed")
      BY DEF RecordFailedLogin, CacheCallThenAnswer
    <2> QED  BY <2>1 DEF Answer, TypeOK, RequestTypes, Resting
  <1>4. r \in Guesses(u) /\ r \notin Guesses(u)'
    BY <1>3 DEF RecordFailedLogin, Guesses, Resting
  <1>5. \A v \in Users : Guesses(v)' \subseteq Guesses(v) \ {r}
    BY <1>3 DEF Guesses, Resting
  <1> SUFFICES ASSUME NEW v \in Users
      PROVE  /\ ~locked'[v] => failedLoginAttempts'[v] <= Allowed'
             /\ locked'[v] => failedLoginAttempts'[v] + Cardinality(Guesses(v)') <= Allowed' + N
    BY DEF GuessInv
  <1>6. /\ Cardinality(Guesses(v)) \in Nat /\ Cardinality(Guesses(v)') \in Nat
        /\ Cardinality(Guesses(v)') <= Cardinality(Guesses(v))
        /\ Cardinality(Guesses(v)) <= N
    <2>1. Guesses(v)' \subseteq Guesses(v)
      BY <1>5
    <2> QED  BY <2>1, GuessesFinite, FS_Subset, FS_CardinalityType
  <1>7. failedLoginAttempts[v] \in Nat
    BY DEF TypeOK, UserTypes
  <1>8. CASE v # u
    <2>1. failedLoginAttempts'[v] = failedLoginAttempts[v] /\ locked'[v] = locked[v]
      BY <1>8 DEF RecordFailedLogin, TypeOK, UserTypes
    <2> QED  BY <1>2, <1>6, <1>7, <2>1 DEF GuessInv
  <1>9. CASE v = u
    <2>1. /\ failedLoginAttempts'[v] = failedLoginAttempts[v] + 1
          /\ locked[v] => locked'[v]
          /\ ~locked'[v] => failedLoginAttempts[v] + 1 < LockoutThreshold
      <3>1. failedLoginAttempts'[v] = failedLoginAttempts[v] + 1
        BY <1>1, <1>9 DEF RecordFailedLogin, TypeOK, UserTypes
      <3>2. locked'[v] = (locked[v] \/ ShouldLock(v))
        BY <1>1, <1>9, Zenon DEF RecordFailedLogin, TypeOK, UserTypes
      <3>3. ~ShouldLock(v) /\ ~locked[v] => failedLoginAttempts[v] + 1 < LockoutThreshold
        BY <1>2, <1>7 DEF ShouldLock
      <3>4. locked[v] => locked'[v]
        BY <3>2, Zenon
      <3>5. ~locked'[v] => ~ShouldLock(v) /\ ~locked[v]
        BY <3>2, Zenon
      <3> QED  BY <3>1, <3>3, <3>4, <3>5
    <2>2. Cardinality(Guesses(v)') <= Cardinality(Guesses(v)) - 1
      <3>1. IsFiniteSet(Guesses(v)) /\ IsFiniteSet(Guesses(v) \ {r})
        BY GuessesFinite, FS_RemoveElement
      <3>2. Cardinality(Guesses(v) \ {r}) = Cardinality(Guesses(v)) - 1
        BY <3>1, <1>4, <1>9, FS_RemoveElement
      <3>3. Cardinality(Guesses(v)') <= Cardinality(Guesses(v) \ {r})
        BY <3>1, <1>5, FS_Subset
      <3> QED  BY <3>2, <3>3
    <2>3. CASE locked[v]
      BY <2>1, <2>2, <2>3, <1>2, <1>6, <1>7 DEF GuessInv
    <2>4. CASE ~locked[v]
      <3>1. failedLoginAttempts[v] <= Allowed
        BY <2>4 DEF GuessInv
      <3>2. failedLoginAttempts'[v] + Cardinality(Guesses(v)') <= Allowed' + N
        BY <3>1, <2>1, <2>2, <1>2, <1>6, <1>7
      <3>3. ~locked'[v] => failedLoginAttempts'[v] <= Allowed'
        <4>1. SUFFICES ASSUME failedLoginAttempts[v] + 1 < LockoutThreshold
                       PROVE  failedLoginAttempts'[v] <= Allowed'
          BY <2>1
        <4> QED  BY <4>1, <2>1, <1>2, <1>7
      <3> QED  BY <3>2, <3>3
    <2> QED  BY <2>3, <2>4
  <1> QED  BY <1>8, <1>9

LEMMA GuessReset ==
  ASSUME TypeOK, GuessInv, NEW r \in Requests, ResetFailedLogin(r)
  PROVE  GuessInv'
  <1> DEFINE u == job[r].user
  <1>1. u \in Users
    BY DEF TypeOK, RequestTypes, Job
  <1>2. Allowed' = Allowed /\ Allowed \in Nat
    BY AllowedType DEF ResetFailedLogin
  <1>3. /\ failedLoginAttempts'[u] = 0 /\ ~locked'[u]
        /\ \A v \in Users \ {u} : failedLoginAttempts'[v] = failedLoginAttempts[v]
                                  /\ locked'[v] = locked[v]
    BY <1>1 DEF ResetFailedLogin, TypeOK, UserTypes
  <1>4. \A v \in Users : Guesses(v)' \subseteq Guesses(v)
    <2>1. Continue(r, "create") \/ Answer(r, "failed")
      BY DEF ResetFailedLogin, CacheCallThen
    <2> QED  BY <2>1 DEF Continue, Answer, Guesses, TypeOK, RequestTypes
  <1> SUFFICES ASSUME NEW v \in Users
      PROVE  /\ ~locked'[v] => failedLoginAttempts'[v] <= Allowed'
             /\ locked'[v] => failedLoginAttempts'[v] + Cardinality(Guesses(v)')
                                <= Allowed' + Cardinality(Requests)
    BY DEF GuessInv
  <1>5. CASE v = u
    BY <1>2, <1>3, <1>5
  <1>6. CASE v # u
    <2>1. Cardinality(Guesses(v)') <= Cardinality(Guesses(v)) /\ Cardinality(Guesses(v)') \in Nat
      BY <1>4, GuessesFinite, FS_Subset, FS_CardinalityType
    <2>2. failedLoginAttempts[v] \in Nat /\ Cardinality(Requests) \in Nat
          /\ Cardinality(Guesses(v)) \in Nat
      BY GuessesFinite DEF TypeOK, UserTypes
    <2> QED  BY <1>2, <1>3, <1>6, <2>1, <2>2 DEF GuessInv
  <1> QED  BY <1>5, <1>6

LEMMA GuessLockExpires ==
  ASSUME TypeOK, GuessInv, NEW u \in Users, LockExpires(u)
  PROVE  GuessInv'
  <1>1. Allowed' = Allowed + Cardinality(Requests) /\ Allowed \in Nat
    BY AllowedType DEF LockExpires
  <1>2. /\ \A v \in Users : Guesses(v)' = Guesses(v)
        /\ failedLoginAttempts' = failedLoginAttempts
        /\ ~locked'[u] /\ \A v \in Users \ {u} : locked'[v] = locked[v]
    BY DEF LockExpires, Guesses, TypeOK, UserTypes
  <1> SUFFICES ASSUME NEW v \in Users
      PROVE  /\ ~locked'[v] => failedLoginAttempts[v] <= Allowed'
             /\ locked'[v] => failedLoginAttempts[v] + Cardinality(Guesses(v))
                                <= Allowed' + Cardinality(Requests)
    BY <1>2 DEF GuessInv
  <1>3. failedLoginAttempts[v] \in Nat /\ Cardinality(Requests) \in Nat
        /\ Cardinality(Guesses(v)) \in Nat
    BY GuessesFinite DEF TypeOK, UserTypes
  <1>4. locked[u]
    BY DEF LockExpires
  <1>5. CASE v = u
    BY <1>1, <1>2, <1>3, <1>4, <1>5 DEF GuessInv
  <1>6. CASE v # u
    BY <1>1, <1>2, <1>3, <1>6 DEF GuessInv
  <1> QED  BY <1>5, <1>6

LEMMA GuessNext == TypeOK /\ GuessInv /\ [Next]_vars => GuessInv'
  <1> SUFFICES ASSUME TypeOK, GuessInv, [Next]_vars PROVE GuessInv'
    OBVIOUS
  <1>1. CASE \E r \in Requests, u \in Users, b \in BOOLEAN : Login(r, u, b)
    BY <1>1, GuessLogin
  <1>2. CASE ~ \E r \in Requests, u \in Users, b \in BOOLEAN : Login(r, u, b)
    <2>1. CASE UNCHANGED <<failedLoginAttempts, locked, expiries>>
      <3>1. \A u \in Users : Guesses(u)' \subseteq Guesses(u)
        BY <1>2, ComparesBegin DEF NoNewGuess, Guesses
      <3> QED  BY <2>1, <3>1, GuessFrame
    <2> QED  BY <2>1, CountersWrittenBy, GuessRecorded, GuessReset, GuessLockExpires
  <1> QED  BY <1>1, <1>2

LEMMA GuessInit == Init => GuessInv
  <1> SUFFICES ASSUME Init PROVE GuessInv
    OBVIOUS
  <1>1. Cardinality(Requests) \in Nat
    BY FinitelyMany, FS_CardinalityType
  <1>2. Allowed \in Nat
    BY <1>1, ThresholdAssumption DEF Init, Allowed
  <1> QED  BY <1>2 DEF Init, GuessInv

\* The wrong guesses an account can receive are bounded by the threshold and the
\* logins that may be in flight together, for every number of either.
THEOREM AuthGuessesBounded == Spec => []GuessesBounded
  <1>1. TypeOK /\ GuessInv => GuessesBounded
    <2> SUFFICES ASSUME TypeOK, GuessInv, NEW u \in Users
                 PROVE  failedLoginAttempts[u] <=
                          LockoutThreshold - 1 + Cardinality(Requests) * (expiries + 1)
      BY DEF GuessesBounded
    <2>1. Cardinality(Requests) \in Nat /\ expiries \in Nat
          /\ failedLoginAttempts[u] \in Nat /\ Cardinality(Guesses(u)) \in Nat
      BY GuessesFinite DEF TypeOK, UserTypes
    <2>2. Cardinality(Requests) * (expiries + 1) = Cardinality(Requests) * expiries + Cardinality(Requests)
          /\ Cardinality(Requests) * expiries \in Nat
      BY <2>1
    <2>3. failedLoginAttempts[u] <= Allowed + Cardinality(Requests)
      BY <2>1, AllowedType DEF GuessInv
    <2> QED  BY <2>1, <2>2, <2>3, ThresholdAssumption DEF Allowed
  <1> QED  BY <1>1, GuessInit, GuessNext, AuthTypeOK, PTL DEF Spec
=============================================================================
