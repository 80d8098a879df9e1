--------------------------- MODULE AdminRowsProofs ---------------------------
(***************************************************************************)
(* The rows of roles, permissions and users for any roles, permissions,     *)
(* users and calls.  What the services leave to the database is there       *)
(* because the schema of a running service has what SchemaProofs shows.     *)
(***************************************************************************)
EXTENDS AdminRows, SchemaProofs, TLAPS

USE NamesAssumption, SeededAssumption, FeatureAssumption, NoneAssumption
-----------------------------------------------------------------------------
(* 1. The inductive invariant.                                              *)

Steps == {"idle", "insert", "save", "delete", "assign", "register"}

Job == [step : Steps, role : Roles \union {None}, name : Names \union {None},
        set : SUBSET (Permissions \union Users), seen : SUBSET Permissions,
        changed : BOOLEAN, replaced : BOOLEAN]

RowTypes ==
  /\ name \in [Roles -> Names \union {None}]
  /\ permissions \subseteq Permissions /\ features \subseteq Features
  /\ grants \in [Roles -> SUBSET Permissions] /\ asked \in [Roles -> SUBSET Permissions]
  /\ user \in [Users -> [row : BOOLEAN, role : Roles \union {None}]]
  /\ call \in [Calls -> Job]

\* A call is in progress only while the service runs, and an assignment that nobody
\* has told otherwise has seen the rows that it is going to delete.
Sound(j) ==
  j.step # "idle" =>
    /\ serving /\ j.role \in Roles
    /\ j.step \in {"insert", "save"} => j.name \in Names
    /\ j.step = "register" => \E u \in Users : j.set = {u}
    /\ j.step = "assign" => /\ j.set \subseteq Permissions
                            /\ ~j.changed => j.seen = grants[j.role]

JobsSound == \A c \in Calls : Sound(call[c])

\* There is no role without a row.
UsersHaveRows == \A u \in Users : user[u].role # None => user[u].row

RowsInv ==
  /\ RowTypes /\ JobsSound /\ UsersHaveRows
  /\ NamesAreUnique /\ ReferencesResolve /\ GrantsAreOneRequest

LEMMA NoCallSound == NoCall \in Job /\ NoCall.step = "idle"
  BY DEF NoCall, Job, Steps

LEMMA RowsInit ==
  ASSUME Init
  PROVE  RowsInv
  <1>1. RowTypes
    BY NoCallSound DEF Init, EmptyRows, NoUser, RowTypes
  <1>2. JobsSound
    BY NoCallSound DEF Init, JobsSound, Sound
  <1>3. UsersHaveRows /\ NamesAreUnique /\ ReferencesResolve /\ GrantsAreOneRequest
    BY DEF Init, EmptyRows, NoUser, UsersHaveRows, NamesAreUnique, ReferencesResolve,
       GrantsAreOneRequest, Kept
  <1> QED  BY <1>1, <1>2, <1>3 DEF RowsInv

\* A step that leaves every row alone.
LEMMA RowsKept ==
  ASSUME RowsInv, UNCHANGED <<rows, asked>>
  PROVE  /\ call' \in [Calls -> Job] => RowTypes'
         /\ UsersHaveRows' /\ NamesAreUnique' /\ ReferencesResolve' /\ GrantsAreOneRequest'
  BY DEF RowsInv, rows, RowTypes, UsersHaveRows, NamesAreUnique, ReferencesResolve,
     GrantsAreOneRequest, Kept

\* A call that is answered or goes on: the others are as sound as before.
LEMMA OneCallMoves ==
  ASSUME RowTypes, JobsSound, NEW c \in Calls, NEW j \in Job, CallTo(c, j),
         UNCHANGED <<grants, serving>>, Sound(j)
  PROVE  call' \in [Calls -> Job] /\ JobsSound'
  <1>1. call' \in [Calls -> Job] /\ \A d \in Calls : call'[d] = call[d] \/ call'[d] = j
    BY DEF RowTypes, CallTo
  <1> QED  BY <1>1 DEF JobsSound, Sound

LEMMA OneCallEnds ==
  ASSUME RowTypes, JobsSound, NEW c \in Calls, Answer(c), UNCHANGED <<grants, serving>>
  PROVE  call' \in [Calls -> Job] /\ JobsSound'
  BY OneCallMoves, NoCallSound DEF Answer, CallTo, Sound
-----------------------------------------------------------------------------
(* 2. Steps that only read.                                                 *)

LEMMA CallBegins ==
  ASSUME RowsInv, NEW c \in Calls, UNCHANGED <<serving, rows, asked>>,
         Answer(c) \/ \E j \in Job : Sound(j) /\ CallTo(c, j)
  PROVE  RowsInv'
  <1>1. call' \in [Calls -> Job] /\ JobsSound'
    BY OneCallMoves, OneCallEnds DEF RowsInv, rows
  <1> QED  BY <1>1, RowsKept DEF RowsInv

LEMMA CreateRoleRows ==
  ASSUME RowsInv, NEW c \in Calls, NEW k \in Roles, NEW n \in Names, CreateRole(c, k, n)
  PROVE  RowsInv'
  <1> DEFINE j == [NoCall EXCEPT !.step = "insert", !.role = k, !.name = n]
  <1>1. j \in Job /\ Sound(j)
    BY DEF CreateRole, Begin, NoCall, Job, Steps, Sound
  <1> QED  BY <1>1, CallBegins DEF CreateRole

LEMMA UpdateRoleRows ==
  ASSUME RowsInv, NEW c \in Calls, NEW k \in Roles, NEW n \in Names, UpdateRole(c, k, n)
  PROVE  RowsInv'
  <1> DEFINE j == [NoCall EXCEPT !.step = "save", !.role = k, !.name = n]
  <1>1. j \in Job /\ Sound(j)
    BY DEF UpdateRole, Begin, NoCall, Job, Steps, Sound
  <1> QED  BY <1>1, CallBegins DEF UpdateRole

LEMMA RemoveRoleRows ==
  ASSUME RowsInv, NEW c \in Calls, NEW k \in Roles, RemoveRole(c, k)
  PROVE  RowsInv'
  <1> DEFINE j == [NoCall EXCEPT !.step = "delete", !.role = k]
  <1>1. j \in Job /\ Sound(j)
    BY DEF RemoveRole, Begin, NoCall, Job, Steps, Sound
  <1> QED  BY <1>1, CallBegins DEF RemoveRole

LEMMA AssignPermissionsRows ==
  ASSUME RowsInv, NEW c \in Calls, NEW k \in Roles, NEW S \in SUBSET Permissions,
         AssignPermissions(c, k, S)
  PROVE  RowsInv'
  <1> DEFINE j == [NoCall EXCEPT !.step = "assign", !.role = k, !.set = S, !.seen = grants[k]]
  <1>1. j \in Job /\ Sound(j)
    BY DEF AssignPermissions, Begin, NoCall, Job, Steps, Sound, RowsInv, RowTypes
  <1> QED  BY <1>1, CallBegins DEF AssignPermissions

LEMMA RegisterRows ==
  ASSUME RowsInv, NEW c \in Calls, NEW u \in Users, NEW k \in Roles, Register(c, u, k)
  PROVE  RowsInv'
  <1> DEFINE j == [NoCall EXCEPT !.step = "register", !.role = k, !.set = {u}]
  <1>1. j \in Job /\ Sound(j)
    BY DEF Register, Begin, NoCall, Job, Steps, Sound
  <1> QED  BY <1>1, CallBegins DEF Register
-----------------------------------------------------------------------------
(* 3. Steps that write.                                                     *)

\* A name is written only if no other role has it: what the test before the
\* statement has missed, the unique index refuses.
LEMMA NameWritten ==
  ASSUME RowsInv, Unique("roles", "name"), NEW c \in Calls, NEW k \in Roles, NEW n \in Names,
         (Answer(c) /\ UNCHANGED name) \/ WriteName(c, k, n),
         UNCHANGED <<serving, permissions, features, grants, user, asked>>
  PROVE  RowsInv'
  <1>1. Answer(c) /\ \/ name' = name
                     \/ name' = [name EXCEPT ![k] = n] /\ \A j \in Roles \ {k} : name[j] # n
    BY DEF WriteName
  <1>2. call' \in [Calls -> Job] /\ JobsSound'
    BY <1>1, OneCallEnds DEF RowsInv
  <1>3. RowTypes'
    BY <1>1, <1>2 DEF RowsInv, RowTypes
  <1>4. \A j \in Roles : Kept(j) => Kept(j)'
    BY <1>1 DEF Kept, RowsInv, RowTypes
  <1>5. NamesAreUnique'
    BY <1>1 DEF NamesAreUnique, Kept, RowsInv, RowTypes
  <1>6. UsersHaveRows' /\ ReferencesResolve' /\ GrantsAreOneRequest'
    BY <1>4 DEF UsersHaveRows, ReferencesResolve, GrantsAreOneRequest, RowsInv, RowTypes
  <1> QED  BY <1>2, <1>3, <1>5, <1>6 DEF RowsInv

LEMMA InsertOrSaveRows ==
  ASSUME RowsInv, ConstraintsInPlace, NEW c \in Calls, InsertRole(c) \/ SaveRole(c)
  PROVE  RowsInv'
  <1>1. At(c, "insert") \/ At(c, "save")
    BY DEF InsertRole, SaveRole
  <1>2. Sound(call[c])
    BY DEF RowsInv, JobsSound
  <1>3. serving /\ call[c].role \in Roles /\ call[c].name \in Names
    BY <1>1, <1>2 DEF Sound, At
  <1>4. Unique("roles", "name")
    BY <1>3 DEF ConstraintsInPlace
  <1> QED  BY <1>3, <1>4, NameWritten DEF InsertRole, SaveRole

LEMMA JobMarked ==
  ASSUME NEW j \in Job, NEW v \in BOOLEAN,
         NEW i, i = [j EXCEPT !.changed = TRUE, !.replaced = v]
  PROVE  /\ i \in Job /\ i.changed /\ i.step = j.step /\ i.role = j.role
         /\ i.name = j.name /\ i.set = j.set /\ i.seen = j.seen
  <1>1. [j EXCEPT !.changed = TRUE] \in Job
    BY DEF Job
  <1>2. ASSUME NEW o \in Job  PROVE [o EXCEPT !.replaced = v] \in Job
    BY DEF Job
  <1>3. [j EXCEPT !.changed = TRUE, !.replaced = v] \in Job
    BY <1>1, <1>2
  <1> QED  BY <1>3, Zenon DEF Job

\* The calls that have read rows of role k are told, and the others do not see k.
LEMMA ToldSound ==
  ASSUME RowTypes, JobsSound, NEW c \in Calls, NEW k \in Roles, NEW b \in BOOLEAN,
         call' = [Told(k, b) EXCEPT ![c] = NoCall], serving' = serving,
         \A j \in Roles \ {k} : grants'[j] = grants[j]
  PROVE  call' \in [Calls -> Job] /\ JobsSound'
  <1>1. ASSUME NEW d \in Calls
        PROVE  \/ call'[d] = NoCall
               \/ call'[d] = call[d] /\ call[d].role # k
               \/ \E v \in BOOLEAN :
                    call'[d] = [call[d] EXCEPT !.changed = TRUE, !.replaced = v]
    <2>1. CASE d = c
      BY <2>1 DEF Told
    <2>2. CASE d # c /\ call[d].role # k
      BY <2>2 DEF Told
    <2>3. CASE d # c /\ call[d].role = k
      <3>1. call'[d] = [call[d] EXCEPT !.changed = TRUE, !.replaced = call[d].replaced \/ b]
        BY <2>3 DEF Told
      <3>2. (call[d].replaced \/ b) \in BOOLEAN
        OBVIOUS
      <3> QED  BY <3>1, <3>2
    <2> QED  BY <2>1, <2>2, <2>3
  <1>2. ASSUME NEW d \in Calls
        PROVE  call'[d] \in Job /\ Sound(call[d])'
    <2>1. call[d] \in Job /\ Sound(call[d])
      BY DEF RowTypes, JobsSound
    <2>2. CASE call'[d] = NoCall
      BY <2>2, NoCallSound DEF Sound
    <2>3. CASE call'[d] = call[d] /\ call[d].role # k
      BY <2>1, <2>3 DEF Sound
    <2>4. ASSUME NEW v \in BOOLEAN, call'[d] = [call[d] EXCEPT !.changed = TRUE, !.replaced = v]
          PROVE  call'[d] \in Job /\ Sound(call[d])'
      <3> DEFINE i == call'[d]
                 o == call[d]
      <3>0. o \in Job /\ i = [o EXCEPT !.changed = TRUE, !.replaced = v]
        BY <2>1, <2>4
      <3> HIDE DEF i, o
      <3>1. /\ i.changed /\ i.step = o.step /\ i.role = o.role
            /\ i.name = o.name /\ i.set = o.set /\ i \in Job
        BY <3>0, JobMarked
      <3> USE DEF i, o
      <3> QED  BY <2>1, <3>1 DEF Sound
    <2> QED  BY <1>1, <2>2, <2>3, <2>4
  <1>3. call' = [d \in Calls |-> call'[d]]
    BY DEF Told
  <1> QED  BY <1>2, <1>3 DEF JobsSound

\* The rows of the role go with it, and its users stay without a role.
LEMMA DeleteRoleRows ==
  ASSUME RowsInv, ConstraintsInPlace, NEW c \in Calls, DeleteRole(c)
  PROVE  RowsInv'
  <1> DEFINE k == call[c].role
  <1>1. serving /\ k \in Roles
    BY DEF DeleteRole, At, RowsInv, JobsSound, Sound
  <1>2. /\ name' = [name EXCEPT ![k] = None] /\ grants' = [grants EXCEPT ![k] = {}]
        /\ asked' = [asked EXCEPT ![k] = {}]
        /\ user' = [u \in Users |->
             IF u \in UsersOf(k) THEN [user[u] EXCEPT !.role = None] ELSE user[u]]
        /\ UNCHANGED <<serving, permissions, features>>
    BY <1>1 DEF DeleteRole, ConstraintsInPlace
  <1>3. call' = [Told(k, FALSE) EXCEPT ![c] = NoCall]
    BY DEF DeleteRole
  <1> HIDE DEF k
  <1>4. RowTypes /\ JobsSound
    BY DEF RowsInv
  <1>5. call' \in [Calls -> Job] /\ JobsSound'
    BY <1>1, <1>2, <1>3, <1>4, ToldSound DEF RowTypes
  <1>6. \A u \in Users : /\ user'[u] \in [row : BOOLEAN, role : Roles \union {None}]
                         /\ user'[u].row = user[u].row
                         /\ user'[u].role = user[u].role \/ user'[u].role = None
                         /\ user[u].row => user'[u].role # k
    BY <1>1, <1>2, <1>4 DEF RowTypes, UsersOf
  <1>7. RowTypes'
    BY <1>2, <1>4, <1>5, <1>6 DEF RowTypes
  <1>8. UsersHaveRows'
    BY <1>6 DEF RowsInv, UsersHaveRows
  <1>9. NamesAreUnique'
    BY <1>1, <1>2, <1>4 DEF RowsInv, NamesAreUnique, Kept, RowTypes
  <1>10. ReferencesResolve'
    <2>1. \A j \in Roles : grants'[j] \subseteq permissions /\ (grants'[j] # {} => Kept(j)')
      BY <1>1, <1>2, <1>4 DEF RowsInv, ReferencesResolve, Kept, RowTypes
    <2>2. \A u \in Users : user'[u].role # None => Kept(user[u].role)'
      <3> SUFFICES ASSUME NEW u \in Users, user'[u].role # None
                   PROVE  Kept(user[u].role)'
        OBVIOUS
      <3>1. user[u].row /\ user'[u].role = user[u].role /\ user[u].role # k
        BY <1>6 DEF RowsInv, UsersHaveRows
      <3>2. Kept(user[u].role) /\ user[u].role \in Roles
        BY <1>4, <1>6, <3>1 DEF RowsInv, ReferencesResolve, RowTypes
      <3> QED  BY <1>2, <1>4, <3>1, <3>2 DEF Kept, RowTypes
    <2> QED  BY <1>2, <2>1, <2>2 DEF RowsInv, ReferencesResolve
  <1>11. GrantsAreOneRequest'
    BY <1>1, <1>2, <1>4 DEF RowsInv, GrantsAreOneRequest, RowTypes
  <1> QED  BY <1>5, <1>7, <1>8, <1>9, <1>10, <1>11 DEF RowsInv

\* A commit has seen all that it deletes, and what it inserts is there.
LEMMA CommitAssignmentRows ==
  ASSUME RowsInv, ConstraintsInPlace, NEW c \in Calls, CommitAssignment(c)
  PROVE  RowsInv'
  <1> DEFINE k == call[c].role
             S == call[c].set
  <1>1. serving /\ k \in Roles /\ S \subseteq Permissions
        /\ (~call[c].changed => call[c].seen = grants[k])
    <2>1. Sound(call[c]) /\ call[c].step = "assign"
      BY DEF CommitAssignment, At, RowsInv, JobsSound
    <2> QED  BY <2>1 DEF Sound
  <1>2. RowTypes /\ JobsSound
    BY DEF RowsInv
  <1>3. UNCHANGED <<serving, name, permissions, features, user>>
    BY DEF CommitAssignment
  <1>4. \/ Answer(c) /\ UNCHANGED <<grants, asked>>
        \/ /\ ~call[c].changed /\ S \subseteq permissions /\ (S # {} => Kept(k))
           /\ grants' = [grants EXCEPT ![k] = (grants[k] \ call[c].seen) \union S]
           /\ asked' = [asked EXCEPT ![k] = S]
           /\ call' = [(IF call[c].seen \union S = {} THEN call ELSE Told(k, TRUE))
                         EXCEPT ![c] = NoCall]
    <2>1. /\ OnDelete("role_permissions", "role_id") # {}
          /\ OnDelete("role_permissions", "permission_id") # {}
      BY <1>1 DEF ConstraintsInPlace
    <2> QED  BY <2>1 DEF CommitAssignment, Serializable
  <1> HIDE DEF k, S
  <1>5. CASE Answer(c) /\ UNCHANGED <<grants, asked>>
    BY <1>2, <1>3, <1>5, OneCallEnds, RowsKept DEF RowsInv, rows
  <1>6. CASE /\ ~call[c].changed /\ S \subseteq permissions /\ (S # {} => Kept(k))
             /\ grants' = [grants EXCEPT ![k] = (grants[k] \ call[c].seen) \union S]
             /\ asked' = [asked EXCEPT ![k] = S]
             /\ call' = [(IF call[c].seen \union S = {} THEN call ELSE Told(k, TRUE))
                           EXCEPT ![c] = NoCall]
    <2>1. /\ grants' = [grants EXCEPT ![k] = S] /\ grants'[k] = S /\ asked'[k] = S
          /\ \A j \in Roles \ {k} : grants'[j] = grants[j] /\ asked'[j] = asked[j]
      BY <1>1, <1>2, <1>6 DEF RowTypes
    <2>2. call' \in [Calls -> Job] /\ JobsSound'
      <3>1. CASE call[c].seen \union S = {}
        <4>1. Answer(c) /\ grants' = grants
          BY <1>1, <1>2, <1>6, <2>1, <3>1 DEF Answer, RowTypes
        <4> QED  BY <1>2, <1>3, <4>1, OneCallEnds
      <3>2. CASE call[c].seen \union S # {}
        BY <1>1, <1>2, <1>3, <1>6, <2>1, <3>2, ToldSound
      <3> QED  BY <3>1, <3>2
    <2>3. RowTypes'
      BY <1>1, <1>2, <1>3, <1>6, <2>1, <2>2 DEF RowTypes
    <2>4. UsersHaveRows' /\ NamesAreUnique'
      BY <1>3 DEF RowsInv, UsersHaveRows, NamesAreUnique, Kept
    <2>5. ReferencesResolve'
      BY <1>3, <1>6, <2>1 DEF RowsInv, ReferencesResolve, Kept
    <2>6. GrantsAreOneRequest'
      BY <1>3, <1>6, <2>1 DEF RowsInv, GrantsAreOneRequest
    <2> QED  BY <2>2, <2>3, <2>4, <2>5, <2>6 DEF RowsInv
  <1> QED  BY <1>4, <1>5, <1>6

\* A user whose role has gone since the call read it is refused by the foreign key.
LEMMA CreateUserRows ==
  ASSUME RowsInv, NEW c \in Calls, CreateUser(c)
  PROVE  RowsInv'
  <1> DEFINE u == CHOOSE x \in Users : call[c].set = {x}
             k == call[c].role
  <1>1. Sound(call[c]) /\ call[c].step = "register"
    BY DEF CreateUser, At, RowsInv, JobsSound
  <1>2. k \in Roles /\ u \in Users
    BY <1>1 DEF Sound
  <1>3. /\ Answer(c) /\ UNCHANGED <<serving, name, permissions, features, grants, asked>>
        /\ \/ user' = user
           \/ Kept(k) /\ user' = [user EXCEPT ![u] = [row |-> TRUE, role |-> k]]
    BY DEF CreateUser
  <1> HIDE DEF u, k
  <1>4. call' \in [Calls -> Job] /\ JobsSound'
    BY <1>3, OneCallEnds DEF RowsInv
  <1>5. CASE user' = user
    BY <1>3, <1>4, <1>5, RowsKept DEF RowsInv, rows
  <1>6. CASE Kept(k) /\ user' = [user EXCEPT ![u] = [row |-> TRUE, role |-> k]]
    <2>1. /\ user' \in [Users -> [row : BOOLEAN, role : Roles \union {None}]]
          /\ user'[u].row /\ user'[u].role = k
          /\ \A x \in Users \ {u} : user'[x] = user[x]
      BY <1>2, <1>6 DEF RowsInv, RowTypes
    <2>2. RowTypes' /\ UsersHaveRows'
      BY <1>3, <1>4, <2>1 DEF RowsInv, RowTypes, UsersHaveRows
    <2>3. ReferencesResolve'
      BY <1>3, <1>6, <2>1 DEF RowsInv, ReferencesResolve, Kept
    <2>4. NamesAreUnique' /\ GrantsAreOneRequest'
      BY <1>3 DEF RowsInv, NamesAreUnique, GrantsAreOneRequest, Kept
    <2> QED  BY <1>4, <2>2, <2>3, <2>4 DEF RowsInv
  <1> QED  BY <1>3, <1>5, <1>6

LEMMA CreatePermissionRows ==
  ASSUME RowsInv, NEW p \in Permissions, CreatePermission(p)
  PROVE  RowsInv'
  <1>1. /\ p \notin permissions /\ Feature[p] \in features /\ permissions' = permissions \union {p}
        /\ asked' = [k \in Roles |-> asked[k] \ {p}]
        /\ UNCHANGED <<serving, name, features, grants, user, call>>
    BY DEF CreatePermission
  <1>2. RowTypes' /\ JobsSound' /\ UsersHaveRows' /\ NamesAreUnique'
    BY <1>1 DEF RowsInv, RowTypes, JobsSound, Sound, UsersHaveRows, NamesAreUnique, Kept
  <1>3. ReferencesResolve'
    BY <1>1 DEF RowsInv, ReferencesResolve, Kept
  <1>4. GrantsAreOneRequest'
    BY <1>1 DEF RowsInv, RowTypes, GrantsAreOneRequest
  <1> QED  BY <1>2, <1>3, <1>4 DEF RowsInv

LEMMA CreateFeatureRows ==
  ASSUME RowsInv, NEW f \in Features, CreateFeature(f)
  PROVE  RowsInv'
  <1>1. /\ features' = features \union {f}
        /\ UNCHANGED <<serving, name, permissions, grants, user, call, asked>>
    BY DEF CreateFeature
  <1>2. RowTypes' /\ JobsSound' /\ UsersHaveRows' /\ NamesAreUnique' /\ GrantsAreOneRequest'
    BY <1>1 DEF RowsInv, RowTypes, JobsSound, Sound, UsersHaveRows, NamesAreUnique, Kept,
       GrantsAreOneRequest
  <1>3. ReferencesResolve'
    BY <1>1 DEF RowsInv, ReferencesResolve, Kept
  <1> QED  BY <1>2, <1>3 DEF RowsInv

\* Permissions go with the rows that refer to them, and whoever has seen one of
\* these rows is told.
LEMMA DeletePermissionsRows ==
  ASSUME RowsInv, ConstraintsInPlace, serving, NEW P \in SUBSET permissions,
         DeletePermissions(P), features' \subseteq features,
         \A p \in permissions \ P : Feature[p] \in features'
  PROVE  RowsInv'
  <1>1. /\ permissions' = permissions \ P /\ grants' = [k \in Roles |-> grants[k] \ P]
        /\ UNCHANGED <<serving, name, user, asked>>
    BY DEF DeletePermissions, ConstraintsInPlace
  <1>2. ASSUME NEW c \in Calls
        PROVE  call'[c] \in Job /\ Sound(call[c])'
    <2> DEFINE o == call[c]
               i == call'[c]
    <2>1. o \in Job /\ Sound(o)
      BY DEF RowsInv, RowTypes, JobsSound
    <2>2. i = IF o.role # None /\ grants[o.role] \intersect P # {}
              THEN [o EXCEPT !.changed = TRUE] ELSE o
      BY DEF DeletePermissions
    <2> HIDE DEF o, i
    <2>3. /\ i \in Job /\ i.step = o.step /\ i.role = o.role /\ i.name = o.name
          /\ i.set = o.set /\ i.seen = o.seen
      BY <2>1, <2>2 DEF Job
    <2>4. ASSUME o.step # "idle", ~i.changed  PROVE ~o.changed /\ grants'[o.role] = grants[o.role]
      <3>1. o.role \in Roles
        BY <2>1, <2>4 DEF Sound
      <3>2. ~(grants[o.role] \intersect P # {}) /\ i = o
        BY <2>1, <2>2, <2>4, <3>1 DEF Job
      <3> QED  BY <1>1, <2>4, <3>1, <3>2
    <2> USE DEF i, o
    <2> QED  BY <1>1, <2>1, <2>3, <2>4 DEF Sound
  <1>3. call' \in [Calls -> Job] /\ JobsSound'
    BY <1>2 DEF DeletePermissions, JobsSound
  <1>4. RowTypes'
    BY <1>1, <1>3 DEF RowsInv, RowTypes
  <1>5. UsersHaveRows' /\ NamesAreUnique'
    BY <1>1 DEF RowsInv, UsersHaveRows, NamesAreUnique, Kept
  <1>6. ReferencesResolve'
    BY <1>1 DEF RowsInv, ReferencesResolve, Kept
  <1>7. GrantsAreOneRequest'
    BY <1>1 DEF RowsInv, GrantsAreOneRequest
  <1> QED  BY <1>3, <1>4, <1>5, <1>6, <1>7 DEF RowsInv

LEMMA RemoveRows ==
  ASSUME RowsInv, ConstraintsInPlace,
         (\E p \in Permissions : RemovePermission(p)) \/ (\E f \in Features : RemoveFeature(f))
  PROVE  RowsInv'
  <1>1. \A p \in permissions : Feature[p] \in features
    BY DEF RowsInv, ReferencesResolve
  <1>2. ASSUME NEW p \in Permissions, RemovePermission(p)  PROVE RowsInv'
    BY <1>1, <1>2, DeletePermissionsRows DEF RemovePermission
  <1>3. ASSUME NEW f \in Features, RemoveFeature(f)  PROVE RowsInv'
    <2> DEFINE P == {p \in permissions : Feature[p] = f}
    <2>1. P \in SUBSET permissions /\ \A p \in permissions \ P : Feature[p] \in features \ {f}
      BY <1>1
    <2>2. serving /\ DeletePermissions(P) /\ features' = features \ {f}
      BY <1>3 DEF RemoveFeature
    <2> HIDE DEF P
    <2> QED  BY <2>1, <2>2, DeletePermissionsRows
  <1> QED  BY <1>2, <1>3

\* The seed runs while nothing is served, and finds what it has created before.
LEMMA SeedRows ==
  ASSUME RowsInv, NEW a \in Roles, NEW d \in Roles, SeedRbac(a, d)
  PROVE  RowsInv'
  <1>1. /\ ~serving /\ UNCHANGED <<serving, user, call>>
        /\ name' = [name EXCEPT ![a] = AdminName, ![d] = DefaultName]
        /\ features' = features \union {Feature[p] : p \in Seeded}
        /\ permissions' = permissions \union Seeded
        /\ grants' = [grants EXCEPT ![a] = Seeded]
        /\ asked' = [k \in Roles |-> IF k = a THEN Seeded ELSE asked[k] \ (Seeded \ permissions)]
    BY DEF SeedRbac
  <1>2. /\ a # d /\ name[a] \in {None, AdminName} /\ name[d] \in {None, DefaultName}
        /\ \A k \in Roles \ {a} : name[k] # AdminName
        /\ \A k \in Roles \ {d} : name[k] # DefaultName
    BY DEF SeedRbac, HasName, Kept, RowsInv, NamesAreUnique
  <1>3. RowTypes
    BY DEF RowsInv
  <1>4. /\ name'[a] = AdminName /\ name'[d] = DefaultName
        /\ \A k \in Roles \ {a, d} : name'[k] = name[k]
    BY <1>1, <1>2, <1>3 DEF RowTypes
  <1>5. RowTypes'
    BY <1>1, <1>3 DEF RowTypes
  <1>6. JobsSound' /\ UsersHaveRows'
    BY <1>1 DEF RowsInv, JobsSound, Sound, UsersHaveRows
  <1>7. NamesAreUnique'
    BY <1>2, <1>4 DEF RowsInv, NamesAreUnique, Kept
  <1>8. ReferencesResolve'
    <2>1. \A k \in Roles : Kept(k) => Kept(k)'
      BY <1>4 DEF Kept
    <2>2. \A k \in Roles : grants'[k] \subseteq permissions' /\ (grants'[k] # {} => Kept(k)')
      BY <1>1, <1>3, <1>4, <2>1 DEF RowsInv, ReferencesResolve, RowTypes, Kept
    <2>3. \A p \in permissions' : Feature[p] \in features'
      BY <1>1 DEF RowsInv, ReferencesResolve
    <2>4. \A u \in Users : user'[u].role # None => Kept(user[u].role)'
      BY <1>1, <1>3, <2>1 DEF RowsInv, ReferencesResolve, RowTypes
    <2> QED  BY <2>2, <2>3, <2>4 DEF ReferencesResolve
  <1>9. GrantsAreOneRequest'
    BY <1>1, <1>3 DEF RowsInv, GrantsAreOneRequest, RowTypes
  <1> QED  BY <1>5, <1>6, <1>7, <1>8, <1>9 DEF RowsInv

LEMMA DeploymentRows ==
  ASSUME RowsInv, StartOrStop \/ Migrate
  PROVE  RowsInv'
  <1>1. UNCHANGED <<rows, call, asked>>
    BY DEF StartOrStop, Migrate
  <1>2. RowTypes' /\ UsersHaveRows' /\ NamesAreUnique' /\ ReferencesResolve' /\ GrantsAreOneRequest'
    BY <1>1, RowsKept DEF RowsInv, RowTypes
  <1>3. JobsSound'
    <2>1. CASE StartOrStop
      BY <1>1, <2>1 DEF StartOrStop, Idle, At, JobsSound, Sound
    <2>2. CASE Migrate
      BY <1>1, <2>2 DEF Migrate, RunMigrations, RevertMigration, rows, RowsInv, JobsSound, Sound
    <2> QED  BY <2>1, <2>2
  <1> QED  BY <1>2, <1>3 DEF RowsInv
-----------------------------------------------------------------------------
(* 4. Every step.                                                           *)

LEMMA RowsNext ==
  ASSUME RowsInv, ConstraintsInPlace, [Next]_vars
  PROVE  RowsInv'
  <1>1. ASSUME NEW c \in Calls, CallStep(c)  PROVE RowsInv'
    BY <1>1, InsertOrSaveRows, DeleteRoleRows, CommitAssignmentRows, CreateUserRows,
       RemoveRoleRows, CreateRoleRows, UpdateRoleRows, AssignPermissionsRows, RegisterRows
       DEF CallStep
  <1>2. ASSUME NEW p \in Permissions, CreatePermission(p) \/ RemovePermission(p)
        PROVE  RowsInv'
    BY <1>2, CreatePermissionRows, RemoveRows
  <1>3. ASSUME NEW f \in Features, CreateFeature(f) \/ RemoveFeature(f)
        PROVE  RowsInv'
    BY <1>3, CreateFeatureRows, RemoveRows
  <1>4. CASE UNCHANGED vars
    <2>1. UNCHANGED <<serving, rows, call, asked>>
      BY <1>4 DEF vars
    <2>2. JobsSound'
      BY <2>1 DEF RowsInv, JobsSound, Sound, rows
    <2> QED  BY <2>1, <2>2, RowsKept DEF RowsInv, RowTypes
  <1> QED  BY <1>1, <1>2, <1>3, <1>4, SeedRows, DeploymentRows DEF Next

-----------------------------------------------------------------------------
(* 5. The schema.                                                           *)

LEMMA SchemaNext ==
  ASSUME SchemaInv, [Next]_vars
  PROVE  SchemaInv'
  <1>1. ASSUME RunMigrations \/ RevertMigration  PROVE SchemaInv'
    BY <1>1, SchemaInvRun, SchemaInvRevert
  <1>2. ASSUME UNCHANGED schemaVars, serving' \in BOOLEAN, serving' => serving \/ applied = Latest
        PROVE  SchemaInv'
    <2>1. schema' = schema /\ applied' = applied
      BY <1>2 DEF schemaVars
    <2> QED  BY <1>2, <2>1 DEF SchemaInv
  <1>3. ASSUME NEW c \in Calls, CallStep(c)  PROVE UNCHANGED <<schemaVars, serving>>
    BY <1>3 DEF CallStep, InsertRole, SaveRole, DeleteRole, CommitAssignment, CreateUser,
       RemoveRole, CreateRole, UpdateRole, AssignPermissions, Register
  <1>4. ASSUME NEW p \in Permissions, CreatePermission(p) \/ RemovePermission(p)
        PROVE  UNCHANGED <<schemaVars, serving>>
    BY <1>4 DEF CreatePermission, RemovePermission, DeletePermissions
  <1>5. ASSUME NEW f \in Features, CreateFeature(f) \/ RemoveFeature(f)
        PROVE  UNCHANGED <<schemaVars, serving>>
    BY <1>5 DEF CreateFeature, RemoveFeature, DeletePermissions
  <1>6. ASSUME NEW a \in Roles, NEW d \in Roles, SeedRbac(a, d)
        PROVE  UNCHANGED <<schemaVars, serving>>
    BY <1>6 DEF SeedRbac
  <1>7. StartOrStop => UNCHANGED schemaVars /\ applied = Latest /\ serving' = ~serving
    BY DEF StartOrStop
  <1>8. UNCHANGED vars => UNCHANGED <<schemaVars, serving>>
    BY DEF vars
  <1>9. serving \in BOOLEAN
    BY DEF SchemaInv
  <1>10. UNCHANGED <<schemaVars, serving>> => SchemaInv'
    BY <1>2, <1>9
  <1>11. StartOrStop => SchemaInv'
    BY <1>2, <1>7
  <1> QED  BY <1>1, <1>3, <1>4, <1>5, <1>6, <1>8, <1>10, <1>11 DEF Next, Migrate

LEMMA SchemaConstraints ==
  ASSUME SchemaInv
  PROVE  ConstraintsInPlace
  <1> SUFFICES ASSUME serving  PROVE ConstraintsInPlace
    BY DEF ConstraintsInPlace
  <1>1. NameIndex \in schema.indexes /\ ReliedKeys \subseteq schema.keys
    BY SchemaInvConstraints
  <1>2. Unique("roles", "name")
    BY <1>1 DEF Unique, NameIndex
  <1>3. \A t, c, target, rule : <<t, c, target, rule>> \in schema.keys => rule \in OnDelete(t, c)
    BY DEF OnDelete
  <1>4. "CASCADE" \in OnDelete("role_permissions", "role_id")
    BY <1>1, <1>3 DEF ReliedKeys
  <1>5. "CASCADE" \in OnDelete("role_permissions", "permission_id")
    BY <1>1, <1>3 DEF ReliedKeys
  <1>6. "SET_NULL" \in OnDelete("users", "role_id")
    BY <1>1, <1>3 DEF ReliedKeys
  <1> QED  BY <1>2, <1>4, <1>5, <1>6 DEF ConstraintsInPlace
-----------------------------------------------------------------------------
(* 6. The theorems.                                                         *)

\* Whatever was run and reverted before: nothing was refused, and the schema has what
\* every database of its release has.
THEOREM RowsSchema == Spec => []SchemaInv
  <1>1. Init => SchemaInv
    BY SchemaInvInit DEF Init
  <1>2. SchemaInv /\ [Next]_vars => SchemaInv'
    BY SchemaNext
  <1> QED  BY <1>1, <1>2, PTL DEF Spec

\* The service never runs without the unique name of a role and the foreign keys that
\* its checks leave the races to.
THEOREM RowsConstraintsInPlace == Spec => []ConstraintsInPlace
  <1>1. SchemaInv => ConstraintsInPlace
    BY SchemaConstraints
  <1> QED  BY <1>1, RowsSchema, PTL

\* Each entity of a running service finds its columns, and no column that it does not
\* set is required.
THEOREM RowsEntitiesFit == Spec => []EntitiesFit
  <1>1. SchemaInv => EntitiesFit
    BY SchemaInvFits
  <1> QED  BY <1>1, RowsSchema, PTL

\* The rows and calls of any number of roles, permissions and users stay within the
\* invariant.
THEOREM RowsInvariant == Spec => []RowsInv
  <1>1. Init => RowsInv
    BY RowsInit
  <1>2. RowsInv /\ ConstraintsInPlace /\ [Next]_vars => RowsInv'
    BY RowsNext
  <1> QED  BY <1>1, <1>2, RowsConstraintsInPlace, PTL DEF Spec

\* Two roles never have one name: each create and update looks first and writes
\* later, and the unique index of roles.name decides between two that looked at once.
THEOREM RowsNamesAreUnique == Spec => []NamesAreUnique
  <1>1. RowsInv => NamesAreUnique
    BY DEF RowsInv
  <1> QED  BY <1>1, RowsInvariant, PTL

\* No row refers to one that is gone, whatever was deleted between the test of a call
\* and its statement.
THEOREM RowsReferencesResolve == Spec => []ReferencesResolve
  <1>1. RowsInv => ReferencesResolve
    BY DEF RowsInv
  <1> QED  BY <1>1, RowsInvariant, PTL

\* The SERIALIZABLE assignments of any number of concurrent calls never mix: a role
\* holds what the last of them asked for, less what was deleted since.
THEOREM RowsGrantsAreOneRequest == Spec => []GrantsAreOneRequest
  <1>1. RowsInv => GrantsAreOneRequest
    BY DEF RowsInv
  <1> QED  BY <1>1, RowsInvariant, PTL

\* Rows, calls and the list of migrations keep their types, and a database on which
\* a release could be installed stays one that has refused nothing.
THEOREM RowsTypeOK == Spec => []TypeOK
  <1>1. SchemaInv /\ RowsInv => TypeOK
    BY DEF SchemaInv, RowsInv, RowTypes, TypeOK, Job, Steps
  <1> QED  BY <1>1, RowsSchema, RowsInvariant, PTL
=============================================================================
