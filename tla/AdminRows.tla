------------------------------ MODULE AdminRows ------------------------------
(***************************************************************************)
(* The rows that RoleService, PermissionService, FeatureService, register   *)
(* and the seed write, under the constraints of the schema.                 *)
(*                                                                         *)
(* A call is a sequence of statements with other calls between them; a      *)
(* statement obeys the foreign keys and unique indexes that the migrations  *)
(* have created.  What a mutation does to the caches is in RbacAdmin.       *)
(***************************************************************************)
EXTENDS Schema, FiniteSets

CONSTANTS
  Roles, Permissions, Features, Users,   \* ids
  Feature,                               \* of a permission
  Names,                                 \* of roles
  AdminName, DefaultName,                \* "Super Admin" and "Viewer"
  Seeded,                                \* the permissions of the seed
  Calls,                                 \* calls in progress at the same time
  None                                   \* no row, no name, no role

ASSUME NamesAssumption  == {AdminName, DefaultName} \subseteq Names /\ AdminName # DefaultName
ASSUME SeededAssumption == Seeded \subseteq Permissions
ASSUME FeatureAssumption == Feature \in [Permissions -> Features]
ASSUME NoneAssumption   == None \notin Names \union Roles

VARIABLES
  name,         \* of each role; None: the role has no row
  permissions, features,   \* the rows there are
  grants,       \* role_permissions of each role
  user,         \* [row, role] of each user
  call,         \* what is in progress; the answers are left out
  asked         \* history: the set of the last assignment to each role

rows == <<name, permissions, features, grants, user>>
vars == <<schemaVars, serving, rows, call, asked>>
-----------------------------------------------------------------------------
NoCall == [step |-> "idle", role |-> None, name |-> None, set |-> {}, seen |-> {},
           changed |-> FALSE, replaced |-> FALSE]
NoUser == [row |-> FALSE, role |-> None]

EmptyRows ==
  /\ name = [k \in Roles |-> None] /\ grants = [k \in Roles |-> {}]
  /\ permissions = {} /\ features = {} /\ user = [u \in Users |-> NoUser]

Init ==
  /\ SchemaInit /\ EmptyRows
  /\ call = [c \in Calls |-> NoCall]
  /\ asked = [k \in Roles |-> {}]

Kept(k) == name[k] # None
HasName(n) == \E k \in Roles : name[k] = n
\* What ON DELETE says of the rows that refer through column c of table t.
OnDelete(t, c) == {key[4] : key \in {x \in schema.keys : <<x[1], x[2]>> = <<t, c>>}}
Unique(t, c) == \E i \in schema.indexes : i[1] = t /\ i[3] = {c} /\ i[4] = "unique"

InUse(k) == \E c \in Calls : call[c].role = k

CallTo(c, j) == call' = [call EXCEPT ![c] = j]
Answer(c)    == call' = [call EXCEPT ![c] = NoCall]
Begin(c) == serving /\ call[c].step = "idle"
At(c, step) == call[c].step = step

\* The rows of role k change under the calls that have read them.
Told(k, replaced) == [c \in Calls |->
  IF call[c].role = k
  THEN [call[c] EXCEPT !.changed = TRUE, !.replaced = @ \/ replaced] ELSE call[c]]
-----------------------------------------------------------------------------
(* RoleService                                                              *)

\* create: findOne by name, and the INSERT.
CreateRole(c, k, n) ==
  /\ Begin(c) /\ ~Kept(k) /\ ~InUse(k)
  /\ IF HasName(n) THEN Answer(c)
     ELSE CallTo(c, [NoCall EXCEPT !.step = "insert", !.role = k, !.name = n])
  /\ UNCHANGED <<schemaVars, serving, rows, asked>>

\* The name of role k is written; a unique violation is answered with a 409.
WriteName(c, k, n) ==
  IF Unique("roles", "name") /\ \E j \in Roles \ {k} : name[j] = n
  THEN Answer(c) /\ UNCHANGED name
  ELSE name' = [name EXCEPT ![k] = n] /\ Answer(c)

InsertRole(c) ==
  /\ At(c, "insert") /\ WriteName(c, call[c].role, call[c].name)
  /\ UNCHANGED <<schemaVars, serving, permissions, features, grants, user, asked>>

\* update: findOne with the rows of role_permissions, and the name test.
UpdateRole(c, k, n) ==
  /\ Begin(c)
  /\ IF ~Kept(k) \/ (n # name[k] /\ HasName(n)) THEN Answer(c)
     ELSE CallTo(c, [NoCall EXCEPT !.step = "save", !.role = k, !.name = n])
  /\ UNCHANGED <<schemaVars, serving, rows, asked>>

\* save inserts a role whose row has gone, under its old id.  Rows of
\* role_permissions that were not loaded are detached from the role, which their
\* NOT NULL role_id does not allow.
SaveRole(c) ==
  LET k == call[c].role IN
  /\ At(c, "save")
  /\ IF call[c].replaced /\ grants[k] # {} THEN Answer(c) /\ UNCHANGED name
     ELSE WriteName(c, k, call[c].name)
  /\ UNCHANGED <<schemaVars, serving, permissions, features, grants, user, asked>>

UsersOf(k) == {u \in Users : user[u].row /\ user[u].role = k}

\* remove: the count of users, and the DELETE.
RemoveRole(c, k) ==
  /\ Begin(c)
  /\ IF ~Kept(k) THEN Answer(c)
     ELSE IF UsersOf(k) # {} THEN Answer(c)
     ELSE CallTo(c, [NoCall EXCEPT !.step = "delete", !.role = k])
  /\ UNCHANGED <<schemaVars, serving, rows, asked>>

DeleteRole(c) ==
  LET k == call[c].role IN
  /\ At(c, "delete")
  /\ name' = [name EXCEPT ![k] = None]
  /\ grants' = IF "CASCADE" \in OnDelete("role_permissions", "role_id")
               THEN [grants EXCEPT ![k] = {}] ELSE grants
  /\ user' = IF "SET_NULL" \in OnDelete("users", "role_id")
             THEN [u \in Users |-> IF u \in UsersOf(k) THEN [user[u] EXCEPT !.role = None] ELSE user[u]]
             ELSE user
  /\ asked' = [asked EXCEPT ![k] = {}]
  /\ call' = [Told(k, FALSE) EXCEPT ![c] = NoCall]
  /\ UNCHANGED <<schemaVars, serving, permissions, features>>

\* assignPermissions: exists, and the DELETE that gives the transaction its snapshot.
AssignPermissions(c, k, S) ==
  /\ Begin(c)
  /\ IF ~Kept(k) THEN Answer(c)
     ELSE CallTo(c, [NoCall EXCEPT !.step = "assign", !.role = k, !.set = S, !.seen = grants[k]])
  /\ UNCHANGED <<schemaVars, serving, rows, asked>>

ReadCommitted(c) == TRUE
\* SERIALIZABLE: nobody has changed what this transaction deletes.
Serializable(c) == ~call[c].changed

\* The INSERTs and the COMMIT.  40001 and 23503 are not mapped to an answer.
CommitAssignment(c) ==
  LET k == call[c].role
      missing == \/ OnDelete("role_permissions", "role_id") # {} /\ ~Kept(k) /\ call[c].set # {}
                 \/ OnDelete("role_permissions", "permission_id") # {}
                    /\ ~(call[c].set \subseteq permissions)
  IN
  /\ At(c, "assign")
  /\ IF ~Serializable(c) \/ missing
     THEN Answer(c) /\ UNCHANGED <<grants, asked>>
     ELSE /\ grants' = [grants EXCEPT ![k] = (@ \ call[c].seen) \union call[c].set]
          /\ asked' = [asked EXCEPT ![k] = call[c].set]
          /\ call' = [(IF call[c].seen \union call[c].set = {} THEN call ELSE Told(k, TRUE))
                        EXCEPT ![c] = NoCall]
  /\ UNCHANGED <<schemaVars, serving, name, permissions, features, user>>
-----------------------------------------------------------------------------
(* PermissionService and FeatureService: one statement each.                *)

CreateFeature(f) ==
  /\ serving /\ f \notin features /\ features' = features \union {f}
  /\ UNCHANGED <<schemaVars, serving, name, permissions, grants, user, call, asked>>

\* Ids are not used again: nobody still speaks of p.
CreatePermission(p) ==
  /\ serving /\ p \notin permissions /\ \A c \in Calls : p \notin call[c].set \union call[c].seen
  /\ Feature[p] \in features
  /\ permissions' = permissions \union {p}
  /\ asked' = [k \in Roles |-> asked[k] \ {p}]
  /\ UNCHANGED <<schemaVars, serving, name, features, grants, user, call>>

\* The DELETE of permissions, and of the rows that refer to them.
DeletePermissions(P) ==
  /\ permissions' = permissions \ P
  /\ grants' = IF "CASCADE" \in OnDelete("role_permissions", "permission_id")
               THEN [k \in Roles |-> grants[k] \ P] ELSE grants
  /\ call' = [c \in Calls |->
       IF call[c].role # None /\ grants[call[c].role] \intersect P # {}
       THEN [call[c] EXCEPT !.changed = TRUE] ELSE call[c]]
  /\ UNCHANGED <<schemaVars, serving, name, user, asked>>

RemovePermission(p) ==
  serving /\ p \in permissions /\ DeletePermissions({p}) /\ UNCHANGED features

RemoveFeature(f) ==
  /\ serving /\ f \in features /\ features' = features \ {f}
  /\ DeletePermissions({p \in permissions : Feature[p] = f})
-----------------------------------------------------------------------------
(* AuthService.register, and the deployment.                                *)

\* The e-mail is free and the role is the requested or the default one.
Register(c, u, k) ==
  /\ Begin(c) /\ ~user[u].row
  /\ CallTo(c, [NoCall EXCEPT !.step = "register", !.role = k, !.set = {u}])
  /\ UNCHANGED <<schemaVars, serving, rows, asked>>

CreateUser(c) ==
  LET u == CHOOSE x \in Users : call[c].set = {x}
      k == call[c].role
  IN
  /\ At(c, "register")
  /\ IF Unique("users", "email") /\ user[u].row THEN Answer(c) /\ UNCHANGED user
     ELSE IF ~Kept(k) THEN Answer(c) /\ UNCHANGED user
     ELSE user' = [user EXCEPT ![u] = [row |-> TRUE, role |-> k]] /\ Answer(c)
  /\ UNCHANGED <<schemaVars, serving, name, permissions, features, grants, asked>>

Idle == \A c \in Calls : At(c, "idle")

\* seedRbac: find or create, and all of Seeded for the Super Admin.
SeedRbac(a, d) ==
  /\ ~serving /\ applied = Latest
  /\ IF HasName(AdminName) THEN name[a] = AdminName ELSE ~Kept(a)
  /\ IF HasName(DefaultName) THEN name[d] = DefaultName ELSE ~Kept(d) /\ d # a
  /\ name' = [name EXCEPT ![a] = AdminName, ![d] = DefaultName]
  /\ features' = features \union {Feature[p] : p \in Seeded}
  /\ permissions' = permissions \union Seeded
  /\ grants' = [grants EXCEPT ![a] = Seeded]
  /\ asked' = [k \in Roles |-> IF k = a THEN Seeded ELSE asked[k] \ (Seeded \ permissions)]
  /\ UNCHANGED <<schemaVars, serving, user, call>>

StartOrStop ==
  /\ applied = Latest /\ Idle /\ serving' = ~serving
  /\ UNCHANGED <<schemaVars, rows, call, asked>>

\* BOUND: migrations are run and reverted while the tables hold no row.
Migrate ==
  /\ EmptyRows /\ (RunMigrations \/ RevertMigration)
  /\ UNCHANGED <<rows, call, asked>>
-----------------------------------------------------------------------------
CallStep(c) ==
  \/ InsertRole(c) \/ SaveRole(c) \/ DeleteRole(c) \/ CommitAssignment(c) \/ CreateUser(c)
  \/ \E k \in Roles :
       \/ RemoveRole(c, k)
       \/ \E n \in Names : CreateRole(c, k, n) \/ UpdateRole(c, k, n)
       \/ \E S \in SUBSET Permissions : AssignPermissions(c, k, S)
       \/ \E u \in Users : Register(c, u, k)

Next ==
  \/ \E c \in Calls : CallStep(c)
  \/ \E p \in Permissions : CreatePermission(p) \/ RemovePermission(p)
  \/ \E f \in Features : CreateFeature(f) \/ RemoveFeature(f)
  \/ \E a, d \in Roles : SeedRbac(a, d)
  \/ StartOrStop \/ Migrate

Spec == Init /\ [][Next]_vars
-----------------------------------------------------------------------------
(* Properties.                                                              *)

TypeOK ==
  /\ applied \in 0 .. Latest /\ schema.ok /\ serving \in BOOLEAN
  /\ name \in [Roles -> Names \union {None}]
  /\ permissions \subseteq Permissions /\ features \subseteq Features
  /\ grants \in [Roles -> SUBSET Permissions]
  /\ user \in [Users -> [row : BOOLEAN, role : Roles \union {None}]]
  /\ \A c \in Calls : call[c].step \in
       {"idle", "insert", "save", "delete", "assign", "register"}

\* Whichever migrations were run and reverted before, a service that runs has the
\* constraints that its checks leave the races to: the name of a role is unique,
\* deleting a role or a permission takes its rows of role_permissions along, and
\* deleting a role leaves its users without one.
ConstraintsInPlace ==
  serving =>
    /\ Unique("roles", "name")
    /\ "CASCADE" \in OnDelete("role_permissions", "role_id")
    /\ "CASCADE" \in OnDelete("role_permissions", "permission_id")
    /\ "SET_NULL" \in OnDelete("users", "role_id")

\* Two roles never have the same name, although every service looks first and
\* writes later.
NamesAreUnique == \A j, k \in Roles : name[j] = name[k] /\ Kept(j) => j = k

\* No row refers to a row that is gone: a role or permission that is deleted between
\* the test of a call and its INSERT included.
ReferencesResolve ==
  /\ \A k \in Roles : grants[k] \subseteq permissions /\ (grants[k] # {} => Kept(k))
  /\ \A p \in permissions : Feature[p] \in features
  /\ \A u \in Users : user[u].role # None => Kept(user[u].role)

\* Concurrent assignments never mix: a role holds what the last request that was
\* committed asked for, less the permissions that were deleted since.
GrantsAreOneRequest == \A k \in Roles : grants[k] = asked[k] \intersect permissions
=============================================================================
