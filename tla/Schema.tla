------------------------------- MODULE Schema -------------------------------
(***************************************************************************)
(* The 14 migrations of src/migrations, as yarn migration:run and           *)
(* migration:revert execute them, and the tables the entities expect.       *)
(*                                                                         *)
(* A schema is a set of columns, of indexes and unique constraints, and of  *)
(* foreign keys; types, lengths and extensions are left out.  A migration   *)
(* is the sequence of its statements, and a statement that PostgreSQL       *)
(* refuses leaves a schema whose ok is FALSE.                               *)
(***************************************************************************)
EXTENDS Naturals, Sequences

VARIABLES
  schema,    \* what PostgreSQL holds
  applied,   \* how many migrations the table of TypeORM lists
  serving    \* the service is running

schemaVars == <<schema, applied>>

\* A column is "required" (NOT NULL without a default), has a "default" or is
\* "optional"; an index is "plain", "unique" or "partial" (unique among the rows
\* that are not soft-deleted).
NoSchema == [columns |-> {}, indexes |-> {}, keys |-> {}, ok |-> TRUE]
-----------------------------------------------------------------------------
(* Statements.                                                              *)

Columns(t, kind, names) == {<<t, c, kind>> : c \in names}

\* TypeORM names the constraint of a column that isUnique by itself, UQ_<hash>.
CreateTable(t, required, default, optional, uniques) ==
  [do |-> "createTable", table |-> t,
   columns |-> Columns(t, "required", required \union {q[1] : q \in uniques})
                 \union Columns(t, "default", default) \union Columns(t, "optional", optional),
   indexes |-> {<<t, q[2], {q[1]}, "unique">> : q \in uniques}]
DropTable(t) == [do |-> "dropTable", table |-> t]

Index(t, name, cols, kind)   == <<t, name, cols, kind>>
CreateIndex(i)               == [do |-> "createIndex", index |-> i, ifNot |-> FALSE]
CreateIndexIfNotExists(i)    == [do |-> "createIndex", index |-> i, ifNot |-> TRUE]
DropIndex(name)              == [do |-> "dropIndex", name |-> name, ifExists |-> FALSE]
DropIndexIfExists(name)      == [do |-> "dropIndex", name |-> name, ifExists |-> TRUE]

AddColumn(t, c, kind)        == [do |-> "addColumn", column |-> <<t, c, kind>>, ifNot |-> FALSE]
AddColumnIfNotExists(t, c, kind) ==
  [do |-> "addColumn", column |-> <<t, c, kind>>, ifNot |-> TRUE]
DropColumn(t, c)             == [do |-> "dropColumn", table |-> t, column |-> c, ifExists |-> FALSE]
DropColumnIfExists(t, c)     == [do |-> "dropColumn", table |-> t, column |-> c, ifExists |-> TRUE]
AlterDefault(t, c, kind)     == [do |-> "alterDefault", column |-> <<t, c, kind>>]

ForeignKey(t, c, target, onDelete) == [do |-> "foreignKey", key |-> <<t, c, target, onDelete>>]
DropForeignKeys(t)           == [do |-> "dropForeignKeys", table |-> t]

HasTable(s, t)     == \E x \in s.columns : x[1] = t
HasColumn(s, t, c) == \E x \in s.columns : x[1] = t /\ x[2] = c
HasIndex(s, name)  == \E i \in s.indexes : i[2] = name

\* One statement.  A table takes its indexes and its own keys with it, a column the
\* indexes it is part of.  A table that another refers to is not dropped, and a
\* column without a default is not added to rows that may be there.
Execute(s, x) ==
  LET refused == [s EXCEPT !.ok = FALSE] IN
  CASE x.do = "createTable" ->
         IF HasTable(s, x.table) THEN s
         ELSE [s EXCEPT !.columns = @ \union x.columns, !.indexes = @ \union x.indexes]
    [] x.do = "dropTable" ->
         IF \E k \in s.keys : k[3] = x.table /\ k[1] # x.table THEN refused
         ELSE [s EXCEPT !.columns = {y \in @ : y[1] # x.table},
                        !.indexes = {i \in @ : i[1] # x.table},
                        !.keys = {k \in @ : k[1] # x.table}]
    [] x.do = "createIndex" ->
         IF HasIndex(s, x.index[2]) THEN IF x.ifNot THEN s ELSE refused
         ELSE IF \E c \in x.index[3] : ~HasColumn(s, x.index[1], c) THEN refused
         ELSE [s EXCEPT !.indexes = @ \union {x.index}]
    [] x.do = "dropIndex" ->
         IF HasIndex(s, x.name) THEN [s EXCEPT !.indexes = {i \in @ : i[2] # x.name}]
         ELSE IF x.ifExists THEN s ELSE refused
    [] x.do = "addColumn" ->
         IF ~HasTable(s, x.column[1]) \/ x.column[3] = "required" THEN refused
         ELSE IF HasColumn(s, x.column[1], x.column[2]) THEN IF x.ifNot THEN s ELSE refused
         ELSE [s EXCEPT !.columns = @ \union {x.column}]
    [] x.do = "dropColumn" ->
         IF HasColumn(s, x.table, x.column)
         THEN [s EXCEPT !.columns = {y \in @ : <<y[1], y[2]>> # <<x.table, x.column>>},
                        !.indexes = {i \in @ : i[1] # x.table \/ x.column \notin i[3]},
                        !.keys = {k \in @ : <<k[1], k[2]>> # <<x.table, x.column>>}]
         ELSE IF x.ifExists THEN s ELSE refused
    [] x.do = "alterDefault" ->
         IF ~HasColumn(s, x.column[1], x.column[2]) THEN refused
         ELSE [s EXCEPT !.columns = {y \in @ : <<y[1], y[2]>> # <<x.column[1], x.column[2]>>}
                                      \union {x.column}]
    [] x.do = "foreignKey" ->
         IF HasColumn(s, x.key[1], x.key[2]) /\ HasTable(s, x.key[3])
         THEN [s EXCEPT !.keys = @ \union {x.key}] ELSE refused
    [] x.do = "dropForeignKeys" -> [s EXCEPT !.keys = {k \in @ : k[1] # x.table}]

\* Statements after a refused one are not executed.
Proceed(s, x) == IF s.ok THEN Execute(s, x) ELSE s

ExecuteAll(s, statements) ==
  LET after[n \in 0 .. Len(statements)] ==
        IF n = 0 THEN s ELSE Proceed(after[n - 1], statements[n])
  IN  after[Len(statements)]
-----------------------------------------------------------------------------
(* The migrations, oldest first.                                            *)

Dates  == {"createdAt", "updatedAt"}

FeaturesAndPermissions == <<
  CreateTable("features", {"name"}, {"id", "isActive"} \union Dates, {"description"}, {<<"key", "UQ_features_key">>}),
  CreateIndex(Index("features", "IDX_feature_key_active", {"key", "isActive"}, "plain")),
  CreateTable("permissions", {"feature_id", "action", "name"}, {"id"} \union Dates,
              {"description"}, {}),
  CreateIndex(Index("permissions", "IDX_permission_feature_action_unique",
                    {"feature_id", "action"}, "unique")),
  ForeignKey("permissions", "feature_id", "features", "CASCADE")>>

RolesIndex == Index("roles", "IDX_roles_is_active_partial", {"id", "isActive"}, "plain")
UsersIndex == Index("users", "IDX_users_is_active_partial", {"email", "isActive"}, "plain")

RolesWithoutUnique ==
  CreateTable("roles", {"name"}, {"id", "isActive"} \union Dates, {"description"}, {})
RolesTable ==
  CreateTable("roles", {}, {"id", "isActive"} \union Dates, {"description"},
              {<<"name", "UQ_roles_name">>})

RolesAndUsers == <<
  RolesTable,
  CreateIndex(RolesIndex),
  CreateTable("users", {"password", "name"}, {"id", "isActive"} \union Dates,
              {"role_id", "deletedAt"}, {<<"email", "UQ_users_email">>}),
  CreateIndex(UsersIndex),
  CreateIndex(Index("users", "IDX_users_role_id", {"role_id"}, "plain")),
  ForeignKey("users", "role_id", "roles", "SET_NULL")>>

OnlyRoleKey == <<ForeignKey("role_permissions", "role_id", "roles", "CASCADE")>>
RolePermissionKeys == <<
  ForeignKey("role_permissions", "role_id", "roles", "CASCADE"),
  ForeignKey("role_permissions", "permission_id", "permissions", "CASCADE")>>

RolePermissions == <<
  CreateTable("role_permissions", {"role_id", "permission_id"}, {"id", "granted", "createdAt"},
              {}, {}),
  CreateIndex(Index("role_permissions", "IDX_role_permissions_unique",
                    {"role_id", "permission_id"}, "unique"))>> \o RolePermissionKeys

InitialRbacSchema == FeaturesAndPermissions \o RolesAndUsers \o RolePermissions
InitialRbacSchemaDown ==
  <<DropTable("role_permissions"), DropTable("users"), DropTable("roles"),
    DropTable("permissions"), DropTable("features")>>

CreateSessionsTable == <<
  CreateTable("sessions", {"user_id", "refresh_token_hash", "expires_at"}, {"id", "createdAt"},
              {"ip", "user_agent", "revoked_at", "rotated_from_session_id"}, {}),
  CreateIndex(Index("sessions", "IDX_sessions_user_id", {"user_id"}, "plain")),
  CreateIndex(Index("sessions", "IDX_sessions_refresh_token_hash", {"refresh_token_hash"}, "plain")),
  ForeignKey("sessions", "user_id", "users", "CASCADE"),
  ForeignKey("sessions", "rotated_from_session_id", "sessions", "SET_NULL")>>
CreateSessionsTableDown == <<DropForeignKeys("sessions"), DropTable("sessions")>>

OrganizationsTable == <<
  CreateTable("organizations", {"name"}, {"id", "isActive"} \union Dates, {},
              {<<"slug", "UQ_organizations_slug">>}),
  CreateIndex(Index("organizations", "IDX_organizations_is_active", {"isActive"}, "plain"))>>
CreateOrganizationsTable == OrganizationsTable
NothingDropped == <<>>
CreateOrganizationsTableDown == <<DropTable("organizations")>>

OrganizationOfAudit == <<
  CreateIndex(Index("audit_logs", "IDX_audit_logs_org_created",
                    {"organization_id", "createdAt"}, "plain")),
  ForeignKey("audit_logs", "organization_id", "organizations", "SET_NULL")>>

CreateAuditLogsTable == <<
  CreateTable("audit_logs", {"action", "entity_type", "metadata"}, {"id", "createdAt"},
              {"organization_id", "actor_user_id", "entity_id", "ip", "user_agent"}, {}),
  CreateIndex(Index("audit_logs", "IDX_audit_logs_actor_created",
                    {"actor_user_id", "createdAt"}, "plain")),
  CreateIndex(Index("audit_logs", "IDX_audit_logs_entity", {"entity_type", "entity_id"}, "plain")),
  CreateIndex(Index("audit_logs", "IDX_audit_logs_action_created", {"action", "createdAt"}, "plain")),
  ForeignKey("audit_logs", "actor_user_id", "users", "SET_NULL")>> \o OrganizationOfAudit
CreateAuditLogsTableDown == <<DropForeignKeys("audit_logs"), DropTable("audit_logs")>>

AddUserLockoutColumns ==
  <<AddColumn("users", "failed_login_attempts", "default"),
    AddColumn("users", "locked_until", "optional")>>
AddUserLockoutColumnsDown ==
  <<DropColumn("users", "locked_until"), DropColumn("users", "failed_login_attempts")>>

AddSessionsRotatedFromIndex ==
  <<CreateIndex(Index("sessions", "IDX_sessions_rotated_from_session_id",
                      {"rotated_from_session_id"}, "plain"))>>
AddSessionsRotatedFromIndexDown == <<DropIndex("IDX_sessions_rotated_from_session_id")>>

AddCorrelationIdToAuditLogs == <<AddColumn("audit_logs", "correlation_id", "optional")>>
AddCorrelationIdToAuditLogsDown == <<DropColumn("audit_logs", "correlation_id")>>

AddSessionJti == <<AddColumn("sessions", "jti", "optional")>>
AddSessionJtiDown == <<DropColumn("sessions", "jti")>>

CorrectiveIndexes == <<
  DropIndexIfExists("IDX_roles_is_active_partial"),
  DropIndexIfExists("IDX_users_is_active_partial"),
  CreateIndexIfNotExists(Index("users", "IDX_users_email_isActive", {"email", "isActive"}, "plain")),
  CreateIndexIfNotExists(Index("users", "IDX_users_roleId_isActive",
                               {"role_id", "isActive"}, "plain")),
  CreateIndexIfNotExists(Index("roles", "IDX_roles_name_isActive", {"name", "isActive"}, "plain")),
  AlterDefault("audit_logs", "metadata", "default"),
  CreateIndexIfNotExists(Index("audit_logs", "IDX_audit_logs_correlation_id",
                               {"correlation_id"}, "plain")),
  CreateIndexIfNotExists(Index("sessions", "IDX_sessions_expires_revoked",
                               {"expires_at", "revoked_at"}, "plain"))>>
CorrectiveIndexesDown ==
  <<DropIndexIfExists("IDX_sessions_expires_revoked"),
    DropIndexIfExists("IDX_audit_logs_correlation_id"),
    AlterDefault("audit_logs", "metadata", "required"),
    DropIndexIfExists("IDX_roles_name_isActive"),
    DropIndexIfExists("IDX_users_roleId_isActive"),
    DropIndexIfExists("IDX_users_email_isActive")>>

\* The constraint to be dropped has another name, the one TypeORM gave it.
SoftDeletePartialUniqueEmail ==
  <<DropIndexIfExists("users_email_key"),
    CreateIndexIfNotExists(Index("users", "IDX_users_email_active", {"email"}, "partial"))>>
SoftDeletePartialUniqueEmailDown ==
  <<DropIndexIfExists("IDX_users_email_active"),
    CreateIndex(Index("users", "users_email_key", {"email"}, "unique"))>>

DropRolePermissionGranted == <<DropColumnIfExists("role_permissions", "granted")>>
DropRolePermissionGrantedDown == <<AddColumn("role_permissions", "granted", "default")>>

RemoveOrganizationFromAudit ==
  <<DropIndexIfExists("IDX_audit_logs_org_created"),
    DropColumnIfExists("audit_logs", "organization_id"),
    DropIndexIfExists("IDX_organizations_is_active"),
    DropTable("organizations")>>
OrganizationsAgain ==
  OrganizationsTable \o <<AddColumnIfNotExists("audit_logs", "organization_id", "optional")>>
RemoveOrganizationFromAuditDown == OrganizationsAgain \o OrganizationOfAudit

AuditLogsCreatedAtIndex ==
  <<CreateIndexIfNotExists(Index("audit_logs", "IDX_audit_logs_created_at", {"createdAt"}, "plain"))>>
AuditLogsCreatedAtIndexDown == <<DropIndexIfExists("IDX_audit_logs_created_at")>>

WithoutAccessJti == <<AddColumnIfNotExists("sessions", "rotated_to_session_id", "optional")>>
AddAccessJtiAndRotatedToSession ==
  <<AddColumnIfNotExists("sessions", "access_jti", "optional"),
    AddColumnIfNotExists("sessions", "rotated_to_session_id", "optional"),
    CreateIndexIfNotExists(Index("sessions", "IDX_sessions_access_jti", {"access_jti"}, "plain"))>>
AddAccessJtiAndRotatedToSessionDown ==
  <<DropIndexIfExists("IDX_sessions_access_jti"),
    DropColumnIfExists("sessions", "rotated_to_session_id"),
    DropColumnIfExists("sessions", "access_jti")>>

Migrations == <<
  InitialRbacSchema, CreateSessionsTable, CreateOrganizationsTable, CreateAuditLogsTable,
  AddUserLockoutColumns, AddSessionsRotatedFromIndex, AddCorrelationIdToAuditLogs, AddSessionJti,
  CorrectiveIndexes, SoftDeletePartialUniqueEmail, DropRolePermissionGranted,
  RemoveOrganizationFromAudit, AuditLogsCreatedAtIndex, AddAccessJtiAndRotatedToSession>>

Downs == <<
  InitialRbacSchemaDown, CreateSessionsTableDown, CreateOrganizationsTableDown,
  CreateAuditLogsTableDown, AddUserLockoutColumnsDown, AddSessionsRotatedFromIndexDown,
  AddCorrelationIdToAuditLogsDown, AddSessionJtiDown, CorrectiveIndexesDown,
  SoftDeletePartialUniqueEmailDown, DropRolePermissionGrantedDown,
  RemoveOrganizationFromAuditDown, AuditLogsCreatedAtIndexDown,
  AddAccessJtiAndRotatedToSessionDown>>

Latest == Len(Migrations)

\* Migrations m + 1 to n are run on s.
Migrated(s, m, n) ==
  LET upTo[i \in m .. n] == IF i = m THEN s ELSE ExecuteAll(upTo[i - 1], Migrations[i])
  IN  upTo[n]

\* The schema of a database on which the first n migrations were run, once.
Release == [n \in 0 .. Latest |-> Migrated(NoSchema, 0, n)]
-----------------------------------------------------------------------------
(* The entities: a column that a save always gives a value, and one that may *)
(* be left to the database.                                                 *)

Entity(t, given, left) == [table |-> t, given |-> given, left |-> left]

FeatureColumns == Entity("features", {"key", "name"}, {"id", "description", "isActive"} \union Dates)
PermissionColumns ==
  Entity("permissions", {"feature_id", "action", "name"}, {"id", "description"} \union Dates)
RoleColumns == Entity("roles", {"name"}, {"id", "description", "isActive"} \union Dates)
RolePermissionColumns ==
  Entity("role_permissions", {"role_id", "permission_id"}, {"id", "createdAt"})
UserColumns ==
  Entity("users", {"email", "password", "name"},
         {"id", "role_id", "isActive", "failed_login_attempts", "locked_until", "deletedAt"}
           \union Dates)
SessionColumns ==
  Entity("sessions", {"user_id", "refresh_token_hash", "expires_at"},
         {"id", "ip", "user_agent", "createdAt", "revoked_at", "rotated_from_session_id", "jti",
          "access_jti", "rotated_to_session_id"})
AuditLogColumns ==
  Entity("audit_logs", {"action", "entity_type", "metadata"},
         {"id", "actor_user_id", "entity_id", "correlation_id", "ip", "user_agent", "createdAt"})

Entities == {FeatureColumns, PermissionColumns, RoleColumns, RolePermissionColumns, UserColumns,
             SessionColumns, AuditLogColumns}

Fits(s, e) ==
  /\ \A c \in e.given \union e.left : HasColumn(s, e.table, c)
  /\ \A x \in s.columns : x[1] = e.table /\ x[3] = "required" => x[2] \in e.given
-----------------------------------------------------------------------------
\* A database of any release that could be installed.
SchemaInit ==
  applied \in 0 .. Latest /\ schema = Release[applied] /\ schema.ok /\ serving = FALSE

Pending == Migrated(schema, applied, Latest)
Undone  == ExecuteAll(schema, Downs[applied])

AllListedAgain ==
  /\ ~serving /\ applied < Latest /\ Pending.ok
  /\ schema' = Pending /\ applied' = applied + Latest /\ UNCHANGED serving
\* yarn migration:run: all that are pending, in one transaction.
RunMigrations ==
  /\ ~serving /\ applied < Latest /\ Pending.ok
  /\ schema' = Pending /\ applied' = Latest /\ UNCHANGED serving

\* yarn migration:revert: the last one.
RevertMigration ==
  /\ ~serving /\ applied > 0 /\ Undone.ok
  /\ schema' = Undone /\ applied' = applied - 1 /\ UNCHANGED serving
-----------------------------------------------------------------------------
(* Properties.                                                              *)

\* Whatever was run and reverted before, PostgreSQL refuses no statement of the
\* migrations that are pending, nor of the one that can be reverted.
MigrationsApply == ~serving => Pending.ok /\ (applied > 0 => Undone.ok)

\* What a revert does not bring back or leaves behind.
Leftovers ==
  {RolesIndex, UsersIndex, Index("users", "users_email_key", {"email"}, "unique")}

\* After any sequence of runs and reverts the schema is the one of its release, but
\* for the two partial indexes that CorrectiveIndexes drops for good and the
\* constraint that reverting SoftDeletePartialUniqueEmail adds.
SchemaOfRelease ==
  ~serving =>
    /\ schema.columns = Release[applied].columns /\ schema.keys = Release[applied].keys
    /\ schema.indexes \ Leftovers = Release[applied].indexes \ Leftovers

\* The entities of a running service can be read from and saved to the tables,
\* however the database got to the last migration.
EntitiesFit == serving => \A e \in Entities : Fits(schema, e)
=============================================================================
