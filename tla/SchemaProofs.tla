----------------------------- MODULE SchemaProofs -----------------------------
(***************************************************************************)
(* What a schema keeps while migrations are run and reverted.  A list of    *)
(* statements is executed by a recursive function, so the proofs are        *)
(* inductions over its length: what no statement takes away stays, and what *)
(* a statement gives is there from then on.                                 *)
(***************************************************************************)
EXTENDS Schema, WellFoundedInduction, TLAPS
-----------------------------------------------------------------------------
(* 1. Induction, as a fact about sets of numbers.                           *)

\* Every nonempty set of naturals has a least element.
LEMMA LeastNumber ==
  ASSUME NEW T \in SUBSET Nat, T # {}
  PROVE  \E x \in T : \A y \in T : x <= y
  <1> DEFINE R == OpToRel(<, Nat)
  <1>1. IsWellFoundedOn(R, Nat)
    BY NatLessThanWellFounded
  <1>2. \A x, y \in Nat : y < x => <<y, x>> \in R
    BY DEF OpToRel
  <1> HIDE DEF R
  <1>3. PICK x \in T : \A y \in T : ~(<<y, x>> \in R)
    BY <1>1, WFMin
  <1>4. SUFFICES ASSUME NEW y \in T  PROVE x <= y
    BY <1>3
  <1>5. x \in Nat /\ y \in Nat /\ ~(y < x)
    BY <1>2, <1>3
  <1> QED  BY <1>5

\* What holds at m, and at i + 1 if at i, holds from m to n.
LEMMA IntervalInduction ==
  ASSUME NEW m \in Nat, NEW n \in Nat, NEW S, m \in S,
         \A i \in m .. n : i # n /\ i \in S => i + 1 \in S
  PROVE  m .. n \subseteq S
  <1> SUFFICES ASSUME (m .. n) \ S # {}  PROVE FALSE
    OBVIOUS
  <1> DEFINE T == (m .. n) \ S
  <1>0. T \in SUBSET Nat /\ T # {}
    OBVIOUS
  <1>1. PICK x \in T : \A y \in T : x <= y
    <2> HIDE DEF T
    <2> QED  BY <1>0, LeastNumber
  <1>2. x - 1 \in m .. n /\ x - 1 # n /\ x - 1 + 1 = x
    BY <1>1
  <1> QED  BY <1>1, <1>2
-----------------------------------------------------------------------------
(* 2. The recursive functions.                                              *)

\* f is the function of ExecuteAll, as far as statement n.
AfterEach(f, s, st, n) ==
  f = [i \in 0 .. n |-> IF i = 0 THEN s ELSE Proceed(f[i - 1], st[i])]

\* The function that ExecuteAll chooses exists for every length.
LEMMA AfterEachExists ==
  ASSUME NEW s, NEW st, NEW n \in Nat
  PROVE  \E f : AfterEach(f, s, st, n)
  <1> DEFINE S == {i \in Nat : \E f : AfterEach(f, s, st, i)}
  <1>1. 0 \in S
    <2>1. AfterEach([i \in 0 .. 0 |-> s], s, st, 0)
      BY DEF AfterEach
    <2> QED  BY <2>1
  <1>2. ASSUME NEW i \in Nat, i \in S  PROVE i + 1 \in S
    <2>1. PICK f : AfterEach(f, s, st, i)
      BY <1>2
    <2> DEFINE g == [j \in 0 .. i + 1 |-> IF j = i + 1 THEN Proceed(f[i], st[j]) ELSE f[j]]
    <2>2. \A j \in 0 .. i + 1 :
            g[j] = IF j = 0 THEN s ELSE Proceed(g[j - 1], st[j])
      <3> TAKE j \in 0 .. i + 1
      <3>1. CASE j = i + 1
        BY <3>1
      <3>2. CASE j # i + 1
        <4>1. f[j] = IF j = 0 THEN s ELSE Proceed(f[j - 1], st[j])
          BY <2>1, <3>2 DEF AfterEach
        <4> QED  BY <3>2, <4>1
      <3> QED  BY <3>1, <3>2
    <2>3. AfterEach(g, s, st, i + 1)
      BY <2>2 DEF AfterEach
    <2> QED  BY <2>3
  <1> HIDE DEF S
  <1>3. n \in S
    BY <1>1, <1>2, IntervalInduction
  <1> QED  BY <1>3 DEF S

\* ExecuteAll is the last of the schemas that its statements lead to.
LEMMA Executed ==
  ASSUME NEW s, NEW st, Len(st) \in Nat
  PROVE  \E f : /\ f[0] = s /\ f[Len(st)] = ExecuteAll(s, st)
                /\ \A i \in 1 .. Len(st) : f[i] = Proceed(f[i - 1], st[i])
  <1> DEFINE f == CHOOSE f : AfterEach(f, s, st, Len(st))
  <1>1. ExecuteAll(s, st) = f[Len(st)]
    BY DEF ExecuteAll, AfterEach
  <1>2. AfterEach(f, s, st, Len(st))
    BY AfterEachExists
  <1> HIDE DEF f
  <1> QED  BY <1>1, <1>2 DEF AfterEach

\* f is the function of Migrated, as far as migration n.
UpToEach(f, s, m, n) ==
  f = [i \in m .. n |-> IF i = m THEN s ELSE ExecuteAll(f[i - 1], Migrations[i])]

\* And so does the one of Migrated.
LEMMA UpToEachExists ==
  ASSUME NEW s, NEW m \in Nat, NEW n \in Nat, m <= n
  PROVE  \E f : UpToEach(f, s, m, n)
  <1> DEFINE S == {i \in Nat : \E f : UpToEach(f, s, m, i)}
  <1>1. m \in S
    <2>1. UpToEach([i \in m .. m |-> s], s, m, m)
      BY DEF UpToEach
    <2> QED  BY <2>1
  <1>2. ASSUME NEW i \in m .. n, i \in S  PROVE i + 1 \in S
    <2>1. PICK f : UpToEach(f, s, m, i)
      BY <1>2
    <2> DEFINE g == [j \in m .. i + 1 |->
                       IF j = i + 1 THEN ExecuteAll(f[i], Migrations[j]) ELSE f[j]]
    <2>2. \A j \in m .. i + 1 :
            g[j] = IF j = m THEN s ELSE ExecuteAll(g[j - 1], Migrations[j])
      <3> TAKE j \in m .. i + 1
      <3>1. CASE j = i + 1
        BY <3>1
      <3>2. CASE j # i + 1
        <4>1. f[j] = IF j = m THEN s ELSE ExecuteAll(f[j - 1], Migrations[j])
          BY <2>1, <3>2 DEF UpToEach
        <4> QED  BY <3>2, <4>1
      <3> QED  BY <3>1, <3>2
    <2>3. UpToEach(g, s, m, i + 1)
      BY <2>2 DEF UpToEach
    <2> QED  BY <2>3
  <1> HIDE DEF S
  <1>3. n \in S
    BY <1>1, <1>2, IntervalInduction
  <1> QED  BY <1>3 DEF S

\* Migrated is the last of the schemas that its migrations lead to.
LEMMA MigratedEach ==
  ASSUME NEW s, NEW m \in Nat, NEW n \in Nat, m <= n
  PROVE  \E f : /\ f[m] = s /\ f[n] = Migrated(s, m, n)
                /\ \A i \in m + 1 .. n : f[i] = ExecuteAll(f[i - 1], Migrations[i])
  <1> DEFINE f == CHOOSE f : UpToEach(f, s, m, n)
  <1>1. Migrated(s, m, n) = f[n]
    BY DEF Migrated, UpToEach
  <1>2. UpToEach(f, s, m, n)
    BY UpToEachExists
  <1> HIDE DEF f
  <1> QED  BY <1>1, <1>2 DEF UpToEach
-----------------------------------------------------------------------------
(* 3. Statements.                                                           *)

IsSchema(s) ==
  /\ s = [columns |-> s.columns, indexes |-> s.indexes, keys |-> s.keys, ok |-> s.ok]
  /\ s.ok \in BOOLEAN

IsStatement(x) ==
  /\ x.do \in {"createTable", "dropTable", "createIndex", "dropIndex", "addColumn",
               "dropColumn", "alterDefault", "foreignKey", "dropForeignKeys"}
  /\ x.do = "createTable" => \A y \in x.columns : y[1] = x.table

\* What a schema can have: a column, a foreign key, an index, no table of a name, or
\* nothing but certain columns that are required.
Has(s, d) ==
  \/ d.is = "column" /\ HasColumn(s, d.of[1], d.of[2])
  \/ d.is = "key" /\ d.of \in s.keys
  \/ d.is = "index" /\ d.of \in s.indexes
  \/ d.is = "absent" /\ ~HasTable(s, d.of)
  \/ d.is = "required" /\ \A y \in s.columns : y[3] = "required" => <<y[1], y[2]>> \in d.of

\* Statement x may take it away,
Takes(x, d) ==
  \/ d.is = "column" /\ \/ x.do = "dropTable" /\ x.table = d.of[1]
                        \/ x.do = "dropColumn" /\ x.table = d.of[1] /\ x.column = d.of[2]
  \/ d.is = "key" /\ \/ x.do \in {"dropTable", "dropForeignKeys"} /\ x.table = d.of[1]
                     \/ x.do = "dropColumn" /\ x.table = d.of[1] /\ x.column = d.of[2]
  \/ d.is = "index" /\ \/ x.do = "dropTable" /\ x.table = d.of[1]
                       \/ x.do = "dropIndex" /\ x.name = d.of[2]
                       \/ x.do = "dropColumn" /\ x.table = d.of[1] /\ x.column \in d.of[3]
  \/ d.is = "absent" /\ x.do = "createTable" /\ x.table = d.of
  \/ d.is = "required" /\ \E y \in (IF x.do = "createTable" THEN x.columns
                                     ELSE IF x.do = "alterDefault" THEN {x.column} ELSE {}) :
                            y[3] = "required" /\ <<y[1], y[2]>> \notin d.of

\* or give it, unless it is refused or finds the table it would create.
Gives(x, d) ==
  \/ d.is = "column" /\ \/ x.do = "createTable" /\ x.table = d.of[1]
                           /\ \E y \in x.columns : y[2] = d.of[2]
                        \/ x.do = "addColumn" /\ x.column[1] = d.of[1] /\ x.column[2] = d.of[2]
  \/ d.is = "key" /\ x.do = "foreignKey" /\ x.key = d.of
  \/ d.is = "index" /\ x.do = "createTable" /\ d.of \in x.indexes
  \/ d.is = "absent" /\ x.do = "dropTable" /\ x.table = d.of

\* A schema stays one, and is never accepted again once a statement was refused.
LEMMA StatementTypes ==
  ASSUME NEW s, NEW x, IsSchema(s), IsStatement(x)
  PROVE  IsSchema(Proceed(s, x)) /\ (Proceed(s, x).ok => s.ok)
  <1>1. CASE x.do \in {"createTable", "dropTable", "createIndex"}
    BY <1>1 DEF IsSchema, Proceed, Execute
  <1>2. CASE x.do \in {"dropIndex", "addColumn", "dropColumn"}
    BY <1>2 DEF IsSchema, Proceed, Execute
  <1>3. CASE x.do \in {"alterDefault", "foreignKey", "dropForeignKeys"}
    BY <1>3 DEF IsSchema, Proceed, Execute
  <1> QED  BY <1>1, <1>2, <1>3 DEF IsStatement

\* What a statement does not take away stays.
LEMMA StatementKeeps ==
  ASSUME NEW s, NEW x, NEW d, IsSchema(s), IsStatement(x), Has(s, d), ~Takes(x, d)
  PROVE  Has(Proceed(s, x), d)
  <1> USE DEF IsSchema, Has, Takes, Proceed, Execute, HasColumn, HasTable
  <1>1. CASE x.do = "createTable"
    BY <1>1 DEF IsStatement
  <1>2. CASE x.do = "dropTable"
    BY <1>2
  <1>3. CASE x.do = "createIndex"
    BY <1>3
  <1>4. CASE x.do = "dropIndex"
    BY <1>4
  <1>5. CASE x.do = "addColumn"
    BY <1>5
  <1>6. CASE x.do = "dropColumn"
    BY <1>6
  <1>7. CASE x.do = "alterDefault"
    BY <1>7
  <1>8. CASE x.do = "foreignKey"
    BY <1>8
  <1>9. CASE x.do = "dropForeignKeys"
    BY <1>9
  <1> QED  BY <1>1, <1>2, <1>3, <1>4, <1>5, <1>6, <1>7, <1>8, <1>9 DEF IsStatement

\* What a statement gives is there, unless it was refused.
LEMMA StatementGives ==
  ASSUME NEW s, NEW x, NEW d, IsSchema(s), IsStatement(x), Gives(x, d), Proceed(s, x).ok,
         x.do = "createTable" => ~HasTable(s, x.table)
  PROVE  Has(Proceed(s, x), d)
  <1>1. s.ok /\ Execute(s, x).ok /\ Proceed(s, x) = Execute(s, x)
    BY DEF Proceed
  <1> USE DEF IsSchema, Has, Gives, Execute, HasColumn, HasTable
  <1>2. CASE x.do = "createTable"
    BY <1>1, <1>2 DEF IsStatement
  <1>3. CASE x.do = "dropTable"
    BY <1>1, <1>3
  <1>4. CASE x.do = "addColumn"
    BY <1>1, <1>4
  <1>5. CASE x.do = "foreignKey"
    BY <1>1, <1>5
  <1> QED  BY <1>2, <1>3, <1>4, <1>5
-----------------------------------------------------------------------------
(* 4. Lists of statements.                                                  *)

IsList(st) == Len(st) \in Nat /\ \A i \in 1 .. Len(st) : IsStatement(st[i])

\* f is the schema after each statement, and was never refused before the last one.
LEMMA Run ==
  ASSUME NEW s, NEW st, IsSchema(s), IsList(st)
  PROVE  \E f : /\ f[0] = s /\ f[Len(st)] = ExecuteAll(s, st)
                /\ \A i \in 1 .. Len(st) : f[i] = Proceed(f[i - 1], st[i])
                /\ \A i \in 0 .. Len(st) :
                     IsSchema(f[i]) /\ (ExecuteAll(s, st).ok => f[i].ok)
  <1> DEFINE n == Len(st)
  <1>0. n \in Nat /\ \A i \in 1 .. n : IsStatement(st[i])
    BY DEF IsList
  <1>1. PICK f : /\ f[0] = s /\ f[n] = ExecuteAll(s, st)
                 /\ \A i \in 1 .. n : f[i] = Proceed(f[i - 1], st[i])
    BY <1>0, Executed
  <1> DEFINE S == {i \in 0 .. n : IsSchema(f[i])}
             U == {i \in 0 .. n : f[n].ok => f[n - i].ok}
  <1> HIDE DEF n
  <1>2. ASSUME NEW i \in 0 .. n, i # n, i \in S  PROVE i + 1 \in S
    <2>1. i + 1 \in 1 .. n /\ f[i + 1] = Proceed(f[i], st[i + 1])
      BY <1>0, <1>1, <1>2
    <2> QED  BY <1>0, <1>2, <2>1, StatementTypes
  <1>3. 0 \in S
    BY <1>0, <1>1
  <1>4. 0 .. n \subseteq S
    <2> HIDE DEF S
    <2> QED  BY <1>0, <1>2, <1>3, IntervalInduction
  <1>5. ASSUME NEW i \in 0 .. n, i # n, i \in U  PROVE i + 1 \in U
    <2> DEFINE j == n - i
    <2>1. j \in 1 .. n /\ j - 1 \in 0 .. n /\ n - (i + 1) = j - 1 /\ i + 1 \in 0 .. n
      BY <1>0, <1>5
    <2> HIDE DEF j
    <2>2. f[j].ok => f[j - 1].ok
      BY <1>0, <1>1, <1>4, <2>1, StatementTypes
    <2> QED  BY <1>5, <2>1, <2>2 DEF j
  <1>6. 0 \in U
    BY <1>0
  <1>7. 0 .. n \subseteq U
    <2> HIDE DEF U
    <2> QED  BY <1>0, <1>5, <1>6, IntervalInduction
  <1>8. \A i \in 0 .. n : f[n].ok => f[i].ok
    <2> SUFFICES ASSUME NEW i \in 0 .. n  PROVE f[n].ok => f[i].ok
      OBVIOUS
    <2>1. n - i \in 0 .. n /\ n - (n - i) = i
      BY <1>0
    <2> QED  BY <1>7, <2>1
  <1> QED  BY <1>1, <1>4, <1>8 DEF n

\* What no statement of a list takes away stays.
LEMMA ListKeeps ==
  ASSUME NEW s, NEW st, NEW d, IsSchema(s), IsList(st), Has(s, d),
         \A i \in 1 .. Len(st) : ~Takes(st[i], d)
  PROVE  Has(ExecuteAll(s, st), d)
  <1> DEFINE n == Len(st)
  <1>0. n \in Nat /\ \A i \in 1 .. n : IsStatement(st[i])
    BY DEF IsList
  <1>1. PICK f : /\ f[0] = s /\ f[n] = ExecuteAll(s, st)
                 /\ \A i \in 1 .. n : f[i] = Proceed(f[i - 1], st[i])
                 /\ \A i \in 0 .. n : IsSchema(f[i]) /\ (ExecuteAll(s, st).ok => f[i].ok)
    BY Run
  <1> DEFINE S == {i \in 0 .. n : Has(f[i], d)}
  <1>2. ASSUME NEW i \in 0 .. n, i # n, i \in S  PROVE i + 1 \in S
    <2> HIDE DEF n
    <2>1. i + 1 \in 1 .. n /\ f[i + 1] = Proceed(f[i], st[i + 1])
      BY <1>0, <1>1, <1>2
    <2> QED  BY <1>1, <1>2, <2>1, <1>0, StatementKeeps DEF n
  <1>3. 0 \in S
    BY <1>0, <1>1
  <1>4. 0 .. n \subseteq S
    <2> HIDE DEF S, n
    <2> QED  BY <1>0, <1>2, <1>3, IntervalInduction
  <1>5. n \in S
    BY <1>0, <1>4
  <1> QED  BY <1>1, <1>5

\* What statement j gives is there in the end.
LEMMA ListGives ==
  ASSUME NEW s, NEW st, NEW d, IsSchema(s), IsList(st), ExecuteAll(s, st).ok,
         NEW j \in 1 .. Len(st), Gives(st[j], d),
         \A i \in j + 1 .. Len(st) : ~Takes(st[i], d),
         st[j].do = "createTable" =>
           /\ ~HasTable(s, st[j].table)
           /\ \A i \in 1 .. j - 1 : ~(st[i].do = "createTable" /\ st[i].table = st[j].table)
  PROVE  Has(ExecuteAll(s, st), d)
  <1> DEFINE n == Len(st)
             none == [is |-> "absent", of |-> st[j].table]
  <1>0. n \in Nat /\ \A i \in 1 .. n : IsStatement(st[i])
    BY DEF IsList
  <1>1. PICK f : /\ f[0] = s /\ f[n] = ExecuteAll(s, st)
                 /\ \A i \in 1 .. n : f[i] = Proceed(f[i - 1], st[i])
                 /\ \A i \in 0 .. n : IsSchema(f[i]) /\ f[i].ok
    BY Run
  <1>2. st[j].do = "createTable" => ~HasTable(f[j - 1], st[j].table)
    <2> SUFFICES ASSUME st[j].do = "createTable"  PROVE ~HasTable(f[j - 1], st[j].table)
      OBVIOUS
    <2>1. \A u : Has(u, none) <=> ~HasTable(u, st[j].table)
      BY DEF Has
    <2>2. \A i \in 1 .. j - 1 : ~Takes(st[i], none)
      BY DEF Takes
    <2> HIDE DEF n, none
    <2> DEFINE S == {i \in 0 .. j - 1 : Has(f[i], none)}
    <2>3. ASSUME NEW i \in 0 .. j - 1, i # j - 1, i \in S  PROVE i + 1 \in S
      <3>1. i + 1 \in 1 .. n /\ i + 1 \in 1 .. j - 1 /\ f[i + 1] = Proceed(f[i], st[i + 1])
        BY <1>0, <1>1, <2>3 DEF n
      <3>2. IsSchema(f[i]) /\ IsStatement(st[i + 1]) /\ ~Takes(st[i + 1], none)
        BY <1>0, <1>1, <2>2, <2>3, <3>1 DEF n
      <3>3. Has(f[i + 1], none)
        BY <2>3, <3>1, <3>2, StatementKeeps
      <3> QED  BY <3>1, <3>3
    <2>4. 0 \in S /\ j - 1 \in Nat
      BY <1>0, <1>1, <2>1 DEF n
    <2>5. 0 .. j - 1 \subseteq S
      <3> HIDE DEF S
      <3> QED  BY <2>3, <2>4, IntervalInduction
    <2>6. j - 1 \in S
      BY <2>4, <2>5
    <2> QED  BY <2>1, <2>6
  <1>3. Has(f[j], d)
    <2>1. j - 1 \in 0 .. n /\ j \in 0 .. n /\ j \in 1 .. n
      BY <1>0
    <2> HIDE DEF n
    <2>2. IsSchema(f[j - 1]) /\ IsStatement(st[j]) /\ f[j] = Proceed(f[j - 1], st[j]) /\ f[j].ok
      BY <1>0, <1>1, <2>1
    <2> QED  BY <1>2, <2>2, StatementGives
  <1> DEFINE S == {i \in j .. n : Has(f[i], d)}
  <1>4. ASSUME NEW i \in j .. n, i # n, i \in S  PROVE i + 1 \in S
    <2>1. i \in 0 .. n /\ i + 1 \in 1 .. n /\ i + 1 \in j .. n /\ ~Takes(st[i + 1], d)
      BY <1>0, <1>4
    <2> HIDE DEF n
    <2>2. IsSchema(f[i]) /\ IsStatement(st[i + 1]) /\ f[i + 1] = Proceed(f[i], st[i + 1])
      BY <1>0, <1>1, <2>1
    <2>3. Has(f[i + 1], d)
      BY <1>4, <2>1, <2>2, StatementKeeps
    <2> QED  BY <2>1, <2>3
  <1>5. j \in S /\ j \in Nat
    BY <1>0, <1>3
  <1>6. j .. n \subseteq S
    <2> HIDE DEF S, n
    <2> QED  BY <1>0, <1>4, <1>5, IntervalInduction
  <1>7. n \in S
    BY <1>0, <1>6
  <1> QED  BY <1>1, <1>7
-----------------------------------------------------------------------------
(* 5. Releases.                                                             *)

EntityColumns == UNION {{<<e.table, c>> : c \in e.given \union e.left} : e \in Entities}

\* The migration that creates a table, and the one that adds a column.
TableSince(t) == IF t = "sessions" THEN 2 ELSE IF t = "audit_logs" THEN 4 ELSE 1
Since(w) ==
  IF w[2] \in {"failed_login_attempts", "locked_until"} THEN 5
  ELSE IF w[2] = "correlation_id" THEN 7
  ELSE IF w[2] = "jti" THEN 8
  ELSE IF w[2] \in {"access_jti", "rotated_to_session_id"} THEN 14
  ELSE TableSince(w[1])

\* What a save always gives a value, and the two required columns of a table that
\* has no entity any more.
GivenColumns  == UNION {{<<e.table, c>> : c \in e.given} : e \in Entities}
MayBeRequired == GivenColumns \union {<<"organizations", "name">>, <<"organizations", "slug">>}

NameIndex == <<"roles", "UQ_roles_name", {"name"}, "unique">>
ReliedKeys ==
  {<<"role_permissions", "role_id", "roles", "CASCADE">>,
   <<"role_permissions", "permission_id", "permissions", "CASCADE">>,
   <<"users", "role_id", "roles", "SET_NULL">>}

EntityTables == {e.table : e \in Entities}

\* What a database has after migration n, however it got there.
Promised(d, n) ==
  \/ d.is = "column" /\ d.of \in EntityColumns /\ Since(d.of) <= n
  \/ d.is = "key" /\ d.of \in ReliedKeys /\ n >= 1
  \/ d.is = "index" /\ d.of = NameIndex /\ n >= 1
  \/ d.is = "absent" /\ d.of \in EntityTables /\ n < TableSince(d.of)
  \/ d.is = "required" /\ d.of = MayBeRequired

OfRelease(s, n) == IsSchema(s) /\ \A d : Promised(d, n) => Has(s, d)

\* Statement x is between releases n - 1 and n, in either direction, and takes nothing
\* away that both of them have.
Mild(x, n) ==
  /\ IsStatement(x)
  /\ x.do = "createTable" =>
       /\ TableSince(x.table) <= n
       /\ \A y \in x.columns : y[3] = "required" => <<y[1], y[2]>> \in MayBeRequired
  /\ x.do = "alterDefault" => <<x.column[1], x.column[2]>> \in MayBeRequired
  /\ x.do = "dropTable" => x.table \notin EntityTables \/ TableSince(x.table) = n
  /\ x.do = "dropForeignKeys" => x.table \notin {"role_permissions", "users"}
  /\ x.do = "dropIndex" => x.name # "UQ_roles_name"
  /\ x.do = "dropColumn" => <<x.table, x.column>> \notin {w \in EntityColumns : Since(w) < n}

LEMMA TablesBeforeColumns ==
  ASSUME NEW w
  PROVE  TableSince(w[1]) <= Since(w) /\ TableSince(w[1]) \in 1 .. 4 /\ Since(w) \in 1 .. 14
  BY DEF TableSince, Since

LEMMA ReliedColumns ==
  /\ \A k \in ReliedKeys : /\ <<k[1], k[2]>> \in EntityColumns /\ Since(<<k[1], k[2]>>) = 1
                           /\ TableSince(k[1]) = 1 /\ k[1] \in {"role_permissions", "users"}
  /\ <<"roles", "name">> \in EntityColumns /\ Since(<<"roles", "name">>) = 1
  /\ TableSince("roles") = 1 /\ "roles" \in EntityTables
  /\ {"role_permissions", "users"} \subseteq EntityTables
  <1>1. <<"role_permissions", "role_id">> \in EntityColumns
        /\ <<"role_permissions", "permission_id">> \in EntityColumns
        /\ <<"users", "role_id">> \in EntityColumns /\ <<"roles", "name">> \in EntityColumns
    BY DEF EntityColumns, Entities, RolePermissionColumns, UserColumns, RoleColumns, Entity
  <1>2. {"role_permissions", "users", "roles"} \subseteq EntityTables
    BY DEF EntityTables, Entities, RolePermissionColumns, UserColumns, RoleColumns, Entity
  <1> QED  BY <1>1, <1>2 DEF ReliedKeys, Since, TableSince

LEMMA ColumnsOfTables == \A w \in EntityColumns : w[1] \in EntityTables /\ w = <<w[1], w[2]>>
  BY DEF EntityColumns, EntityTables

\* What two neighbouring releases both have is never taken on the way.
LEMMA MildSpares ==
  ASSUME NEW n \in 1 .. 14, NEW x, Mild(x, n), NEW d, Promised(d, n - 1), Promised(d, n)
  PROVE  ~Takes(x, d)
  <1>1. CASE d.is = "column"
    <2>1. d.of \in EntityColumns /\ Since(d.of) < n
      BY <1>1, TablesBeforeColumns DEF Promised
    <2>2. d.of[1] \in EntityTables /\ d.of = <<d.of[1], d.of[2]>> /\ TableSince(d.of[1]) < n
      BY <2>1, ColumnsOfTables, TablesBeforeColumns
    <2> QED  BY <1>1, <2>1, <2>2 DEF Takes, Mild
  <1>2. CASE d.is = "key"
    <2>1. d.of \in ReliedKeys /\ n > 1
      BY <1>2 DEF Promised
    <2>2. /\ <<d.of[1], d.of[2]>> \in {w \in EntityColumns : Since(w) < n}
          /\ TableSince(d.of[1]) # n /\ d.of[1] \in EntityTables
          /\ d.of[1] \in {"role_permissions", "users"}
      BY <2>1, ReliedColumns
    <2> QED  BY <1>2, <2>2 DEF Takes, Mild
  <1>3. CASE d.is = "index"
    <2>1. d.of = NameIndex /\ n > 1
      BY <1>3 DEF Promised
    <2>2. d.of[1] = "roles" /\ d.of[2] = "UQ_roles_name" /\ d.of[3] = {"name"}
      BY <2>1 DEF NameIndex
    <2> QED  BY <1>3, <2>1, <2>2, ReliedColumns DEF Takes, Mild
  <1>4. CASE d.is = "absent"
    <2>1. TableSince(d.of) > n
      BY <1>4 DEF Promised
    <2>2. TableSince(d.of) \in 1 .. 4
      BY DEF TableSince
    <2>3. Takes(x, d) => x.do = "createTable" /\ x.table = d.of
      BY <1>4 DEF Takes
    <2>4. x.do = "createTable" => TableSince(x.table) <= n
      BY DEF Mild
    <2> QED  BY <2>1, <2>2, <2>3, <2>4
  <1>5. CASE d.is = "required"
    <2>1. d.of = MayBeRequired
      BY <1>5 DEF Promised
    <2> QED  BY <1>5, <2>1 DEF Takes, Mild
  <1> QED  BY <1>1, <1>2, <1>3, <1>4, <1>5 DEF Promised
-----------------------------------------------------------------------------
(* 6. The statements of the migrations are mild.                            *)

LEMMA MildCreateTable ==
  ASSUME NEW n, NEW t, NEW required, NEW default, NEW optional, NEW uniques, TableSince(t) <= n,
         \A c \in required \union {q[1] : q \in uniques} : <<t, c>> \in MayBeRequired
  PROVE  Mild(CreateTable(t, required, default, optional, uniques), n)
  BY DEF Mild, IsStatement, CreateTable, Columns

LEMMA MildAdditions ==
  ASSUME NEW n
  PROVE  /\ \A i : Mild(CreateIndex(i), n)
         /\ \A t, c, target, onDelete : Mild(ForeignKey(t, c, target, onDelete), n)
  BY DEF Mild, IsStatement, CreateIndex, ForeignKey

\* The columns of an entity are among the ones promised.
LEMMA EntityRows ==
  ASSUME NEW e \in Entities
  PROVE  /\ \A c \in e.given : <<e.table, c>> \in MayBeRequired
         /\ \A c \in e.given \union e.left : <<e.table, c>> \in EntityColumns
  <1> DEFINE G(f) == {<<f.table, c>> : c \in f.given}
  <1>1. \A c \in e.given : <<e.table, c>> \in MayBeRequired
    <2>1. G(e) \subseteq UNION {G(f) : f \in Entities}
      <3> HIDE DEF G
      <3> QED  OBVIOUS
    <2> QED  BY <2>1 DEF MayBeRequired, GivenColumns
  <1>2. \A c \in e.given \union e.left : <<e.table, c>> \in EntityColumns
    BY DEF EntityColumns
  <1> QED  BY <1>1, <1>2

LEMMA RequiredColumns ==
  /\ \A c \in {"key", "name"} : <<"features", c>> \in MayBeRequired
  /\ \A c \in {"feature_id", "action", "name"} : <<"permissions", c>> \in MayBeRequired
  /\ \A c \in {"name"} : <<"roles", c>> \in MayBeRequired
  /\ \A c \in {"email", "password", "name"} : <<"users", c>> \in MayBeRequired
  /\ \A c \in {"role_id", "permission_id"} : <<"role_permissions", c>> \in MayBeRequired
  /\ \A c \in {"user_id", "refresh_token_hash", "expires_at"} : <<"sessions", c>> \in MayBeRequired
  /\ \A c \in {"action", "entity_type", "metadata"} : <<"audit_logs", c>> \in MayBeRequired
  /\ \A c \in {"name", "slug"} : <<"organizations", c>> \in MayBeRequired
  <1>8. /\ <<"organizations", "name">> \in MayBeRequired
        /\ <<"organizations", "slug">> \in MayBeRequired
    BY DEF MayBeRequired
  <1> USE EntityRows DEF Entities, Entity
  <1>1. \A c \in {"key", "name"} : <<"features", c>> \in MayBeRequired
    BY DEF FeatureColumns
  <1>2. \A c \in {"feature_id", "action", "name"} : <<"permissions", c>> \in MayBeRequired
    BY DEF PermissionColumns
  <1>3. \A c \in {"name"} : <<"roles", c>> \in MayBeRequired
    BY DEF RoleColumns
  <1>4. \A c \in {"email", "password", "name"} : <<"users", c>> \in MayBeRequired
    BY DEF UserColumns
  <1>5. \A c \in {"role_id", "permission_id"} : <<"role_permissions", c>> \in MayBeRequired
    BY DEF RolePermissionColumns
  <1>6. \A c \in {"user_id", "refresh_token_hash", "expires_at"} :
          <<"sessions", c>> \in MayBeRequired
    BY DEF SessionColumns
  <1>7. \A c \in {"action", "entity_type", "metadata"} : <<"audit_logs", c>> \in MayBeRequired
    BY DEF AuditLogColumns
  <1> HIDE EntityRows DEF Entities, Entity
  <1> QED  BY <1>1, <1>2, <1>3, <1>4, <1>5, <1>6, <1>7, <1>8

\* Two columns that migrations add or drop belong to no entity.
LEMMA OtherColumns ==
  /\ <<"role_permissions", "granted">> \notin EntityColumns
  /\ <<"audit_logs", "organization_id">> \notin EntityColumns
  <1>1. \A e \in Entities : e.table = "role_permissions" => "granted" \notin e.given \union e.left
    BY DEF Entities, Entity, FeatureColumns, PermissionColumns, RoleColumns, UserColumns,
           RolePermissionColumns, SessionColumns, AuditLogColumns
  <1>2. \A e \in Entities :
          e.table = "audit_logs" => "organization_id" \notin e.given \union e.left
    BY DEF Entities, Entity, FeatureColumns, PermissionColumns, RoleColumns, UserColumns,
           RolePermissionColumns, SessionColumns, AuditLogColumns
  <1> QED  BY <1>1, <1>2 DEF EntityColumns

LEMMA TablesSince ==
  /\ EntityTables = {"features", "permissions", "roles", "users", "role_permissions", "sessions",
                     "audit_logs"}
  /\ \A t \in {"features", "permissions", "roles", "users", "role_permissions", "organizations"} :
       TableSince(t) = 1
  /\ TableSince("sessions") = 2 /\ TableSince("audit_logs") = 4
  <1>1. \A e \in Entities : e.table \in {"features", "permissions", "roles", "users",
                                         "role_permissions", "sessions", "audit_logs"}
    BY DEF Entities, Entity, FeatureColumns, PermissionColumns, RoleColumns, UserColumns,
           RolePermissionColumns, SessionColumns, AuditLogColumns
  <1>2. \A t \in {"features", "permissions", "roles", "users", "role_permissions", "sessions",
                  "audit_logs"} : \E e \in Entities : e.table = t
    BY DEF Entities, Entity, FeatureColumns, PermissionColumns, RoleColumns, UserColumns,
           RolePermissionColumns, SessionColumns, AuditLogColumns
  <1> QED  BY <1>1, <1>2 DEF EntityTables, TableSince

IsTuple(a) == Len(a) \in Nat /\ a = [i \in 1 .. Len(a) |-> a[i]]

LEMMA Tuples ==
  ASSUME NEW S, NEW c \in Seq(S)
  PROVE  IsTuple(c)
  BY DEF IsTuple

\* c is a and then b, element by element.
Joined(c, a, b) ==
  /\ IsTuple(c) /\ Len(c) = Len(a) + Len(b)
  /\ \A i \in 1 .. Len(a) : c[i] = a[i]
  /\ \A i \in 1 .. Len(b) : c[i + Len(a)] = b[i]

\* The elements of a concatenation of tuples.
LEMMA Concatenated ==
  ASSUME NEW a, NEW b, IsTuple(a), IsTuple(b)
  PROVE  Joined(a \o b, a, b)
  <1> DEFINE S == {a[i] : i \in 1 .. Len(a)} \union {b[i] : i \in 1 .. Len(b)}
             c == a \o b
  <1>1. a \in Seq(S) /\ b \in Seq(S)
    <2>1. a \in [1 .. Len(a) -> S] /\ b \in [1 .. Len(b) -> S]
      BY DEF IsTuple
    <2>2. Len(a) \in Nat /\ Len(b) \in Nat
      BY DEF IsTuple
    <2> HIDE DEF S
    <2> QED  BY <2>1, <2>2
  <1> HIDE DEF S
  <1>2. c \in Seq(S) /\ Len(c) = Len(a) + Len(b) /\ Len(a) \in Nat /\ Len(b) \in Nat
    BY <1>1
  <1>3. IsTuple(c)
    <2> HIDE DEF c
    <2> QED  BY <1>2, Tuples
  <1>4. ASSUME NEW i \in 1 .. Len(a)  PROVE c[i] = a[i]
    BY <1>1, <1>2
  <1>5. ASSUME NEW i \in 1 .. Len(b)  PROVE c[i + Len(a)] = b[i]
    <2>1. i + Len(a) \in 1 .. Len(a) + Len(b) /\ ~(i + Len(a) <= Len(a)) /\ i + Len(a) - Len(a) = i
      BY <1>2
    <2> QED  BY <1>1, <1>2, <2>1
  <1> HIDE DEF c
  <1>6. Joined(c, a, b)
    BY <1>2, <1>3, <1>4, <1>5 DEF Joined
  <1> QED  BY <1>6 DEF c

LEMMA InitialParts ==
  /\ IsTuple(FeaturesAndPermissions) /\ Len(FeaturesAndPermissions) = 5
  /\ IsTuple(RolesAndUsers) /\ Len(RolesAndUsers) = 6
  /\ IsTuple(RolePermissionKeys) /\ Len(RolePermissionKeys) = 2
  <1>1. IsTuple(FeaturesAndPermissions) /\ Len(FeaturesAndPermissions) = 5
    BY DEF IsTuple, FeaturesAndPermissions
  <1>2. IsTuple(RolesAndUsers) /\ Len(RolesAndUsers) = 6
    BY DEF IsTuple, RolesAndUsers
  <1>3. IsTuple(RolePermissionKeys) /\ Len(RolePermissionKeys) = 2
    BY DEF IsTuple, RolePermissionKeys
  <1> QED  BY <1>1, <1>2, <1>3

LEMMA RolePermissionsStatements ==
  /\ IsTuple(RolePermissions) /\ Len(RolePermissions) = 4
  /\ RolePermissions[1] = CreateTable("role_permissions", {"role_id", "permission_id"},
                                      {"id", "granted", "createdAt"}, {}, {})
  /\ RolePermissions[2].do = "createIndex"
  /\ RolePermissions[3] = RolePermissionKeys[1] /\ RolePermissions[4] = RolePermissionKeys[2]
  <1> DEFINE a == <<
        CreateTable("role_permissions", {"role_id", "permission_id"},
                    {"id", "granted", "createdAt"}, {}, {}),
        CreateIndex(Index("role_permissions", "IDX_role_permissions_unique",
                          {"role_id", "permission_id"}, "unique"))>>
  <1>1. IsTuple(a) /\ Len(a) = 2 /\ a[2].do = "createIndex"
    BY DEF IsTuple, CreateIndex
  <1>2. RolePermissions = a \o RolePermissionKeys
    BY DEF RolePermissions
  <1>3. a[1] = CreateTable("role_permissions", {"role_id", "permission_id"},
                                      {"id", "granted", "createdAt"}, {}, {})
    OBVIOUS
  <1> HIDE DEF a
  <1>4. Joined(RolePermissions, a, RolePermissionKeys)
    BY <1>1, <1>2, InitialParts, Concatenated
  <1> QED  BY <1>1, <1>3, <1>4, InitialParts DEF Joined

LEMMA InitialStatements ==
  /\ Len(InitialRbacSchema) = 15
  /\ \A i \in 1 .. 5 : InitialRbacSchema[i] = FeaturesAndPermissions[i]
  /\ \A i \in 1 .. 6 : InitialRbacSchema[i + 5] = RolesAndUsers[i]
  /\ \A i \in 1 .. 4 : InitialRbacSchema[i + 11] = RolePermissions[i]
  <1> DEFINE a == FeaturesAndPermissions \o RolesAndUsers
  <1>1. InitialRbacSchema = a \o RolePermissions
    BY DEF InitialRbacSchema
  <1>2. Joined(a, FeaturesAndPermissions, RolesAndUsers)
    BY InitialParts, Concatenated
  <1> HIDE DEF a
  <1>3. IsTuple(a)
    BY <1>2 DEF Joined
  <1>4. Joined(InitialRbacSchema, a, RolePermissions)
    BY <1>1, <1>3, RolePermissionsStatements, Concatenated
  <1>5. Len(a) = 11 /\ (\A i \in 1 .. 5 : i \in 1 .. 11) /\ (\A i \in 1 .. 6 : i + 5 \in 1 .. 11)
    BY <1>2, InitialParts DEF Joined
  <1> QED  BY <1>2, <1>4, <1>5, InitialParts, RolePermissionsStatements DEF Joined
MildList(st, n) == Len(st) \in Nat /\ \A i \in 1 .. Len(st) : Mild(st[i], n)

LEMMA MildJoined ==
  ASSUME NEW a, NEW b, NEW c, NEW n, Joined(c, a, b), MildList(a, n), MildList(b, n)
  PROVE  MildList(c, n)
  <1>1. Len(a) \in Nat /\ Len(b) \in Nat /\ Len(c) = Len(a) + Len(b)
    BY DEF MildList, Joined
  <1>2. SUFFICES ASSUME NEW i \in 1 .. Len(c)  PROVE Mild(c[i], n)
    BY <1>1 DEF MildList
  <1>3. CASE i \in 1 .. Len(a)
    BY <1>3 DEF MildList, Joined
  <1>4. CASE i \notin 1 .. Len(a)
    <2> DEFINE j == i - Len(a)
    <2>1. j \in 1 .. Len(b) /\ j + Len(a) = i
      BY <1>1, <1>4
    <2> HIDE DEF j
    <2> QED  BY <2>1 DEF MildList, Joined
  <1> QED  BY <1>3, <1>4

LEMMA MildInitialRbacSchema == MildList(InitialRbacSchema, 1)
  <1>1. \A i \in 1 .. 5 : Mild(FeaturesAndPermissions[i], 1)
    BY MildCreateTable, MildAdditions, RequiredColumns, TablesSince DEF FeaturesAndPermissions
  <1>2. \A i \in 1 .. 6 : Mild(RolesAndUsers[i], 1)
    BY MildCreateTable, MildAdditions, RequiredColumns, TablesSince DEF RolesAndUsers, RolesTable
  <1>3. Mild(RolePermissions[1], 1)
    BY MildCreateTable, RequiredColumns, TablesSince, RolePermissionsStatements
  <1>4. \A i \in 2 .. 4 : Mild(RolePermissions[i], 1)
    BY RolePermissionsStatements
       DEF RolePermissionKeys, Mild, IsStatement, ForeignKey
  <1>5. \A i \in 1 .. 15 : i \in 1 .. 5 \/ i - 5 \in 1 .. 6 \/ i - 11 \in 1 .. 4
    OBVIOUS
  <1>6. \A i \in 1 .. 15 : Mild(InitialRbacSchema[i], 1)
    BY InitialStatements, <1>1, <1>2, <1>3, <1>4, <1>5
  <1> QED  BY InitialStatements, <1>6 DEF MildList

LEMMA MildInitialRbacSchemaDown == MildList(InitialRbacSchemaDown, 1)
  <1>1. \A i \in 1 .. 5 : Mild(InitialRbacSchemaDown[i], 1)
    BY TablesSince DEF InitialRbacSchemaDown, Mild, IsStatement, DropTable
  <1>2. Len(InitialRbacSchemaDown) = 5
    BY DEF InitialRbacSchemaDown
  <1> QED  BY <1>1, <1>2 DEF MildList

LEMMA MildCreateSessionsTable == MildList(CreateSessionsTable, 2)
  <1>1. Mild(CreateSessionsTable[1], 2)
    BY MildCreateTable, RequiredColumns, TablesSince DEF CreateSessionsTable
  <1>2. \A i \in 2 .. 5 : Mild(CreateSessionsTable[i], 2)
    BY MildAdditions DEF CreateSessionsTable
  <1>3. Len(CreateSessionsTable) = 5
    BY DEF CreateSessionsTable
  <1> QED  BY <1>1, <1>2, <1>3 DEF MildList

LEMMA MildCreateSessionsTableDown == MildList(CreateSessionsTableDown, 2)
  <1>1. \A i \in 1 .. 2 : Mild(CreateSessionsTableDown[i], 2)
    BY TablesSince DEF CreateSessionsTableDown, Mild, IsStatement, DropForeignKeys, DropTable
  <1>2. Len(CreateSessionsTableDown) = 2
    BY DEF CreateSessionsTableDown
  <1> QED  BY <1>1, <1>2 DEF MildList

LEMMA MildCreateOrganizationsTableDown == MildList(CreateOrganizationsTableDown, 3)
  <1>1. \A i \in 1 .. 1 : Mild(CreateOrganizationsTableDown[i], 3)
    BY TablesSince DEF CreateOrganizationsTableDown, Mild, IsStatement, DropTable
  <1>2. Len(CreateOrganizationsTableDown) = 1
    BY DEF CreateOrganizationsTableDown
  <1> QED  BY <1>1, <1>2 DEF MildList

LEMMA MildCreateAuditLogsTableDown == MildList(CreateAuditLogsTableDown, 4)
  <1>1. \A i \in 1 .. 2 : Mild(CreateAuditLogsTableDown[i], 4)
    BY TablesSince DEF CreateAuditLogsTableDown, Mild, IsStatement, DropForeignKeys, DropTable
  <1>2. Len(CreateAuditLogsTableDown) = 2
    BY DEF CreateAuditLogsTableDown
  <1> QED  BY <1>1, <1>2 DEF MildList

LEMMA MildAddUserLockoutColumns == MildList(AddUserLockoutColumns, 5)
  <1>1. \A i \in 1 .. 2 : Mild(AddUserLockoutColumns[i], 5)
    BY DEF AddUserLockoutColumns, Mild, IsStatement, AddColumn
  <1>2. Len(AddUserLockoutColumns) = 2
    BY DEF AddUserLockoutColumns
  <1> QED  BY <1>1, <1>2 DEF MildList

LEMMA MildAddUserLockoutColumnsDown == MildList(AddUserLockoutColumnsDown, 5)
  <1>1. \A i \in 1 .. 2 : Mild(AddUserLockoutColumnsDown[i], 5)
    BY DEF AddUserLockoutColumnsDown, Mild, IsStatement, DropColumn, Since
  <1>2. Len(AddUserLockoutColumnsDown) = 2
    BY DEF AddUserLockoutColumnsDown
  <1> QED  BY <1>1, <1>2 DEF MildList

LEMMA MildAddSessionsRotatedFromIndex == MildList(AddSessionsRotatedFromIndex, 6)
  <1>1. \A i \in 1 .. 1 : Mild(AddSessionsRotatedFromIndex[i], 6)
    BY MildAdditions DEF AddSessionsRotatedFromIndex
  <1>2. Len(AddSessionsRotatedFromIndex) = 1
    BY DEF AddSessionsRotatedFromIndex
  <1> QED  BY <1>1, <1>2 DEF MildList

LEMMA MildAddSessionsRotatedFromIndexDown == MildList(AddSessionsRotatedFromIndexDown, 6)
  <1>1. \A i \in 1 .. 1 : Mild(AddSessionsRotatedFromIndexDown[i], 6)
    BY DEF AddSessionsRotatedFromIndexDown, Mild, IsStatement, DropIndex
  <1>2. Len(AddSessionsRotatedFromIndexDown) = 1
    BY DEF AddSessionsRotatedFromIndexDown
  <1> QED  BY <1>1, <1>2 DEF MildList

LEMMA MildAddCorrelationIdToAuditLogs == MildList(AddCorrelationIdToAuditLogs, 7)
  <1>1. \A i \in 1 .. 1 : Mild(AddCorrelationIdToAuditLogs[i], 7)
    BY DEF AddCorrelationIdToAuditLogs, Mild, IsStatement, AddColumn
  <1>2. Len(AddCorrelationIdToAuditLogs) = 1
    BY DEF AddCorrelationIdToAuditLogs
  <1> QED  BY <1>1, <1>2 DEF MildList

LEMMA MildAddCorrelationIdToAuditLogsDown == MildList(AddCorrelationIdToAuditLogsDown, 7)
  <1>1. \A i \in 1 .. 1 : Mild(AddCorrelationIdToAuditLogsDown[i], 7)
    BY DEF AddCorrelationIdToAuditLogsDown, Mild, IsStatement, DropColumn, Since
  <1>2. Len(AddCorrelationIdToAuditLogsDown) = 1
    BY DEF AddCorrelationIdToAuditLogsDown
  <1> QED  BY <1>1, <1>2 DEF MildList

LEMMA MildAddSessionJti == MildList(AddSessionJti, 8)
  <1>1. \A i \in 1 .. 1 : Mild(AddSessionJti[i], 8)
    BY DEF AddSessionJti, Mild, IsStatement, AddColumn
  <1>2. Len(AddSessionJti) = 1
    BY DEF AddSessionJti
  <1> QED  BY <1>1, <1>2 DEF MildList

LEMMA MildAddSessionJtiDown == MildList(AddSessionJtiDown, 8)
  <1>1. \A i \in 1 .. 1 : Mild(AddSessionJtiDown[i], 8)
    BY DEF AddSessionJtiDown, Mild, IsStatement, DropColumn, Since
  <1>2. Len(AddSessionJtiDown) = 1
    BY DEF AddSessionJtiDown
  <1> QED  BY <1>1, <1>2 DEF MildList

LEMMA MildCorrectiveIndexes == MildList(CorrectiveIndexes, 9)
  <1>1. \A i \in 1 .. 8 : Mild(CorrectiveIndexes[i], 9)
    BY RequiredColumns DEF CorrectiveIndexes, Mild, IsStatement, AlterDefault,
           DropIndexIfExists, CreateIndexIfNotExists, Index
  <1>2. Len(CorrectiveIndexes) = 8
    BY DEF CorrectiveIndexes
  <1> QED  BY <1>1, <1>2 DEF MildList

LEMMA MildCorrectiveIndexesDown == MildList(CorrectiveIndexesDown, 9)
  <1>1. \A i \in 1 .. 6 : Mild(CorrectiveIndexesDown[i], 9)
    BY RequiredColumns DEF CorrectiveIndexesDown, Mild, IsStatement, AlterDefault, DropIndexIfExists
  <1>2. Len(CorrectiveIndexesDown) = 6
    BY DEF CorrectiveIndexesDown
  <1> QED  BY <1>1, <1>2 DEF MildList

LEMMA MildSoftDeletePartialUniqueEmail == MildList(SoftDeletePartialUniqueEmail, 10)
  <1>1. \A i \in 1 .. 2 : Mild(SoftDeletePartialUniqueEmail[i], 10)
    BY DEF SoftDeletePartialUniqueEmail, Mild, IsStatement, DropIndexIfExists,
           CreateIndexIfNotExists
  <1>2. Len(SoftDeletePartialUniqueEmail) = 2
    BY DEF SoftDeletePartialUniqueEmail
  <1> QED  BY <1>1, <1>2 DEF MildList

LEMMA MildSoftDeletePartialUniqueEmailDown == MildList(SoftDeletePartialUniqueEmailDown, 10)
  <1>1. \A i \in 1 .. 2 : Mild(SoftDeletePartialUniqueEmailDown[i], 10)
    BY DEF SoftDeletePartialUniqueEmailDown, Mild, IsStatement, DropIndexIfExists, CreateIndex
  <1>2. Len(SoftDeletePartialUniqueEmailDown) = 2
    BY DEF SoftDeletePartialUniqueEmailDown
  <1> QED  BY <1>1, <1>2 DEF MildList

LEMMA MildDropRolePermissionGranted == MildList(DropRolePermissionGranted, 11)
  <1>1. \A i \in 1 .. 1 : Mild(DropRolePermissionGranted[i], 11)
    BY OtherColumns DEF DropRolePermissionGranted, Mild, IsStatement, DropColumnIfExists
  <1>2. Len(DropRolePermissionGranted) = 1
    BY DEF DropRolePermissionGranted
  <1> QED  BY <1>1, <1>2 DEF MildList

LEMMA MildDropRolePermissionGrantedDown == MildList(DropRolePermissionGrantedDown, 11)
  <1>1. \A i \in 1 .. 1 : Mild(DropRolePermissionGrantedDown[i], 11)
    BY DEF DropRolePermissionGrantedDown, Mild, IsStatement, AddColumn
  <1>2. Len(DropRolePermissionGrantedDown) = 1
    BY DEF DropRolePermissionGrantedDown
  <1> QED  BY <1>1, <1>2 DEF MildList

LEMMA MildRemoveOrganizationFromAudit == MildList(RemoveOrganizationFromAudit, 12)
  <1>1. \A i \in 1 .. 4 : Mild(RemoveOrganizationFromAudit[i], 12)
    BY OtherColumns, TablesSince
       DEF RemoveOrganizationFromAudit, Mild, IsStatement, DropIndexIfExists,
           DropColumnIfExists, DropTable
  <1>2. Len(RemoveOrganizationFromAudit) = 4
    BY DEF RemoveOrganizationFromAudit
  <1> QED  BY <1>1, <1>2 DEF MildList

LEMMA MildAuditLogsCreatedAtIndex == MildList(AuditLogsCreatedAtIndex, 13)
  <1>1. \A i \in 1 .. 1 : Mild(AuditLogsCreatedAtIndex[i], 13)
    BY DEF AuditLogsCreatedAtIndex, Mild, IsStatement, CreateIndexIfNotExists
  <1>2. Len(AuditLogsCreatedAtIndex) = 1
    BY DEF AuditLogsCreatedAtIndex
  <1> QED  BY <1>1, <1>2 DEF MildList

LEMMA MildAuditLogsCreatedAtIndexDown == MildList(AuditLogsCreatedAtIndexDown, 13)
  <1>1. \A i \in 1 .. 1 : Mild(AuditLogsCreatedAtIndexDown[i], 13)
    BY DEF AuditLogsCreatedAtIndexDown, Mild, IsStatement, DropIndexIfExists
  <1>2. Len(AuditLogsCreatedAtIndexDown) = 1
    BY DEF AuditLogsCreatedAtIndexDown
  <1> QED  BY <1>1, <1>2 DEF MildList

LEMMA MildAddAccessJtiAndRotatedToSession == MildList(AddAccessJtiAndRotatedToSession, 14)
  <1>1. \A i \in 1 .. 3 : Mild(AddAccessJtiAndRotatedToSession[i], 14)
    BY DEF AddAccessJtiAndRotatedToSession, Mild, IsStatement, AddColumnIfNotExists,
           CreateIndexIfNotExists
  <1>2. Len(AddAccessJtiAndRotatedToSession) = 3
    BY DEF AddAccessJtiAndRotatedToSession
  <1> QED  BY <1>1, <1>2 DEF MildList

LEMMA MildAddAccessJtiAndRotatedToSessionDown == MildList(AddAccessJtiAndRotatedToSessionDown, 14)
  <1>1. \A i \in 1 .. 3 : Mild(AddAccessJtiAndRotatedToSessionDown[i], 14)
    BY DEF AddAccessJtiAndRotatedToSessionDown, Mild, IsStatement, DropIndexIfExists,
           DropColumnIfExists, Since
  <1>2. Len(AddAccessJtiAndRotatedToSessionDown) = 3
    BY DEF AddAccessJtiAndRotatedToSessionDown
  <1> QED  BY <1>1, <1>2 DEF MildList

\* What the two migrations about organizations share.
LEMMA MildOrganizations ==
  ASSUME NEW n \in 1 .. 14
  PROVE  /\ MildList(OrganizationsTable, n) /\ IsTuple(OrganizationsTable)
         /\ MildList(OrganizationOfAudit, n) /\ IsTuple(OrganizationOfAudit)
         /\ Len(OrganizationsTable) = 2 /\ Len(OrganizationOfAudit) = 2
  <1>1. \A i \in 1 .. 2 : Mild(OrganizationsTable[i], n)
    BY MildCreateTable, MildAdditions, RequiredColumns, TablesSince DEF OrganizationsTable
  <1>2. \A i \in 1 .. 2 : Mild(OrganizationOfAudit[i], n)
    BY MildAdditions DEF OrganizationOfAudit
  <1>3. IsTuple(OrganizationsTable) /\ Len(OrganizationsTable) = 2
    BY DEF IsTuple, OrganizationsTable
  <1>4. IsTuple(OrganizationOfAudit) /\ Len(OrganizationOfAudit) = 2
    BY DEF IsTuple, OrganizationOfAudit
  <1> QED  BY <1>1, <1>2, <1>3, <1>4 DEF MildList

\* Its statements take nothing away.
OnlyAdds(st) ==
  \A i \in 1 .. Len(st) : st[i].do \in {"createTable", "createIndex", "addColumn", "foreignKey"}

AuditLogsTable ==
  CreateTable("audit_logs", {"action", "entity_type", "metadata"}, {"id", "createdAt"},
              {"organization_id", "actor_user_id", "entity_id", "ip", "user_agent"}, {})

LEMMA AuditStatements ==
  /\ MildList(CreateAuditLogsTable, 4) /\ Len(CreateAuditLogsTable) = 7
  /\ CreateAuditLogsTable[1] = AuditLogsTable /\ OnlyAdds(CreateAuditLogsTable)
  <1> DEFINE a == <<
        AuditLogsTable,
        CreateIndex(Index("audit_logs", "IDX_audit_logs_actor_created",
                          {"actor_user_id", "createdAt"}, "plain")),
        CreateIndex(Index("audit_logs", "IDX_audit_logs_entity",
                          {"entity_type", "entity_id"}, "plain")),
        CreateIndex(Index("audit_logs", "IDX_audit_logs_action_created",
                          {"action", "createdAt"}, "plain")),
        ForeignKey("audit_logs", "actor_user_id", "users", "SET_NULL")>>
  <1>1. CreateAuditLogsTable = a \o OrganizationOfAudit
    BY DEF CreateAuditLogsTable, AuditLogsTable
  <1>2. IsTuple(a) /\ Len(a) = 5 /\ a[1] = AuditLogsTable
    BY DEF IsTuple
  <1>3. Mild(a[1], 4)
    BY MildCreateTable, RequiredColumns, TablesSince DEF AuditLogsTable
  <1>4. \A i \in 2 .. 5 : Mild(a[i], 4)
    BY MildAdditions
  <1>5. \A i \in 2 .. 5 : a[i].do \in {"createIndex", "foreignKey"}
    BY DEF CreateIndex, ForeignKey
  <1>6. a[1].do = "createTable"
    BY DEF AuditLogsTable, CreateTable
  <1> HIDE DEF a
  <1>7. Joined(CreateAuditLogsTable, a, OrganizationOfAudit)
    BY <1>1, <1>2, MildOrganizations, Concatenated
  <1>8. MildList(a, 4)
    BY <1>2, <1>3, <1>4 DEF MildList
  <1>9. MildList(CreateAuditLogsTable, 4)
    BY <1>7, <1>8, MildOrganizations, MildJoined
  <1>10. OrganizationOfAudit[1].do = "createIndex" /\ OrganizationOfAudit[2].do = "foreignKey"
    BY DEF OrganizationOfAudit, CreateIndex, ForeignKey
  <1>11. /\ Len(CreateAuditLogsTable) = 7
         /\ \A i \in 1 .. 5 : CreateAuditLogsTable[i] = a[i]
         /\ \A i \in 1 .. 2 : CreateAuditLogsTable[i + 5] = OrganizationOfAudit[i]
    <2>1. Len(OrganizationOfAudit) = 2
      BY DEF OrganizationOfAudit
    <2> QED  BY <1>2, <1>7, <2>1 DEF Joined
  <1>12. \A i \in 1 .. 7 : i \in 1 .. 5 \/ i - 5 \in 1 .. 2
    OBVIOUS
  <1>13. OnlyAdds(CreateAuditLogsTable)
    BY <1>5, <1>6, <1>10, <1>11, <1>12 DEF OnlyAdds
  <1> QED  BY <1>2, <1>9, <1>11, <1>13

LEMMA MildRemoveOrganizationFromAuditDown == MildList(RemoveOrganizationFromAuditDown, 12)
  <1> DEFINE a == <<AddColumnIfNotExists("audit_logs", "organization_id", "optional")>>
  <1>1. IsTuple(a) /\ Len(a) = 1 /\ Mild(a[1], 12)
    BY DEF IsTuple, Mild, IsStatement, AddColumnIfNotExists
  <1>2. OrganizationsAgain = OrganizationsTable \o a
    BY DEF OrganizationsAgain
  <1> HIDE DEF a
  <1>3. MildList(a, 12)
    BY <1>1 DEF MildList
  <1>4. Joined(OrganizationsAgain, OrganizationsTable, a)
    BY <1>1, <1>2, MildOrganizations, Concatenated
  <1>5. MildList(OrganizationsAgain, 12)
    BY <1>3, <1>4, MildOrganizations, MildJoined
  <1>6. IsTuple(OrganizationsAgain)
    BY <1>4 DEF Joined
  <1>7. Joined(RemoveOrganizationFromAuditDown, OrganizationsAgain, OrganizationOfAudit)
    BY <1>6, MildOrganizations, Concatenated DEF RemoveOrganizationFromAuditDown
  <1> QED  BY <1>5, <1>7, MildOrganizations, MildJoined

\* The migrations that add what an entity needs.
LEMMA FourteenReleases ==
  /\ Len(Migrations) = 14 /\ Latest = 14
  /\ Migrations[1] = InitialRbacSchema /\ Migrations[2] = CreateSessionsTable
  /\ Migrations[4] = CreateAuditLogsTable /\ Migrations[5] = AddUserLockoutColumns
  /\ Migrations[7] = AddCorrelationIdToAuditLogs /\ Migrations[8] = AddSessionJti
  /\ Migrations[14] = AddAccessJtiAndRotatedToSession
  /\ Downs[1] = InitialRbacSchemaDown /\ Downs[2] = CreateSessionsTableDown
  /\ Downs[4] = CreateAuditLogsTableDown
  BY DEF Latest, Migrations, Downs

\* Every migration, and the way back, is mild.
LEMMA MildMigrations ==
  ASSUME NEW n \in 1 .. 14
  PROVE  MildList(Migrations[n], n) /\ MildList(Downs[n], n)
  <1>1. MildList(CreateOrganizationsTable, 3)
    BY MildOrganizations DEF CreateOrganizationsTable
  <1>2. n \in 1 .. 7 => MildList(Migrations[n], n)
    BY <1>1, AuditStatements, MildInitialRbacSchema, MildCreateSessionsTable,
       MildAddUserLockoutColumns, MildAddSessionsRotatedFromIndex,
       MildAddCorrelationIdToAuditLogs DEF Migrations
  <1>3. n \in 8 .. 14 => MildList(Migrations[n], n)
    BY MildAddSessionJti, MildCorrectiveIndexes, MildSoftDeletePartialUniqueEmail,
       MildDropRolePermissionGranted, MildRemoveOrganizationFromAudit,
       MildAuditLogsCreatedAtIndex, MildAddAccessJtiAndRotatedToSession DEF Migrations
  <1>4. n \in 1 .. 7 => MildList(Downs[n], n)
    BY MildInitialRbacSchemaDown, MildCreateSessionsTableDown, MildCreateOrganizationsTableDown,
       MildCreateAuditLogsTableDown, MildAddUserLockoutColumnsDown,
       MildAddSessionsRotatedFromIndexDown, MildAddCorrelationIdToAuditLogsDown DEF Downs
  <1>5. n \in 8 .. 14 => MildList(Downs[n], n)
    BY MildAddSessionJtiDown, MildCorrectiveIndexesDown, MildSoftDeletePartialUniqueEmailDown,
       MildDropRolePermissionGrantedDown, MildRemoveOrganizationFromAuditDown,
       MildAuditLogsCreatedAtIndexDown, MildAddAccessJtiAndRotatedToSessionDown DEF Downs
  <1> QED  BY <1>2, <1>3, <1>4, <1>5

-----------------------------------------------------------------------------
(* 7. What a release has and the one before has not is given by a statement. *)

\* After statement j of st, which gives it, nothing takes d away; if j creates a
\* table, it is the first to do so and release m has none.
Grants(st, d, m) ==
  \E j \in 1 .. Len(st) :
    /\ Gives(st[j], d)
    /\ \A i \in j + 1 .. Len(st) : ~Takes(st[i], d)
    /\ st[j].do = "createTable" =>
         /\ st[j].table \in EntityTables /\ m < TableSince(st[j].table)
         /\ \A i \in 1 .. j - 1 : ~(st[i].do = "createTable" /\ st[i].table = st[j].table)

LEMMA CreateTableIs ==
  ASSUME NEW t, NEW required, NEW default, NEW optional, NEW uniques
  PROVE  /\ CreateTable(t, required, default, optional, uniques).do = "createTable"
         /\ CreateTable(t, required, default, optional, uniques).table = t
  BY DEF CreateTable

LEMMA CreateTableGivesColumns ==
  ASSUME NEW t, NEW required, NEW default, NEW optional, NEW uniques, NEW d,
         d.is = "column", d.of[1] = t,
         d.of[2] \in required \union {q[1] : q \in uniques} \union default \union optional
  PROVE  Gives(CreateTable(t, required, default, optional, uniques), d)
  <1> DEFINE x == CreateTable(t, required, default, optional, uniques)
  <1>1. x.do = "createTable" /\ x.table = t
    BY DEF CreateTable
  <1>2. CASE d.of[2] \in required \union {q[1] : q \in uniques}
    <2>1. <<t, d.of[2], "required">> \in x.columns
      BY <1>2 DEF CreateTable, Columns
    <2> QED  BY <1>1, <2>1 DEF Gives
  <1>3. CASE d.of[2] \in default
    <2>1. <<t, d.of[2], "default">> \in x.columns
      BY <1>3 DEF CreateTable, Columns
    <2> QED  BY <1>1, <2>1 DEF Gives
  <1>4. CASE d.of[2] \in optional
    <2>1. <<t, d.of[2], "optional">> \in x.columns
      BY <1>4 DEF CreateTable, Columns
    <2> QED  BY <1>1, <2>1 DEF Gives
  <1> QED  BY <1>2, <1>3, <1>4

\* The columns of the entities, table by table.
LEMMA EntityColumnNames ==
  ASSUME NEW w \in EntityColumns
  PROVE  \/ w[1] = "features"
              /\ w[2] \in {"key", "name", "id", "description", "isActive"} \union Dates
         \/ w[1] = "permissions"
              /\ w[2] \in {"feature_id", "action", "name", "id", "description"} \union Dates
         \/ w[1] = "roles" /\ w[2] \in {"name", "id", "description", "isActive"} \union Dates
         \/ w[1] = "role_permissions"
              /\ w[2] \in {"role_id", "permission_id", "id", "createdAt"}
         \/ w[1] = "users"
              /\ w[2] \in {"email", "password", "name", "id", "role_id", "isActive", "deletedAt",
                           "failed_login_attempts", "locked_until"} \union Dates
         \/ w[1] = "sessions"
              /\ w[2] \in {"user_id", "refresh_token_hash", "expires_at", "id", "ip", "user_agent",
                           "createdAt", "revoked_at", "rotated_from_session_id", "jti",
                           "access_jti", "rotated_to_session_id"}
         \/ w[1] = "audit_logs"
              /\ w[2] \in {"action", "entity_type", "metadata", "id", "actor_user_id", "entity_id",
                           "correlation_id", "ip", "user_agent", "createdAt"}
  <1>1. PICK e \in Entities : w[1] = e.table /\ w[2] \in e.given \union e.left
    BY DEF EntityColumns
  <1>2. CASE e = FeatureColumns \/ e = PermissionColumns \/ e = RoleColumns
    BY <1>1, <1>2 DEF FeatureColumns, PermissionColumns, RoleColumns, Entity
  <1>3. CASE e = RolePermissionColumns \/ e = UserColumns
    BY <1>1, <1>3 DEF RolePermissionColumns, UserColumns, Entity
  <1>4. CASE e = SessionColumns \/ e = AuditLogColumns
    BY <1>1, <1>4 DEF SessionColumns, AuditLogColumns, Entity
  <1> QED  BY <1>2, <1>3, <1>4 DEF Entities

LEMMA AddsSpare ==
  ASSUME NEW st, OnlyAdds(st), NEW d, d.is \in {"column", "key", "index"}, NEW i \in 1 .. Len(st)
  PROVE  ~Takes(st[i], d)
  BY DEF OnlyAdds, Takes

\* A statement of a list without drops grants what it gives.
LEMMA AdditionsGrant ==
  ASSUME NEW st, Len(st) \in Nat, OnlyAdds(st), NEW d, d.is \in {"column", "key", "index"}, NEW m,
         NEW j \in 1 .. Len(st), Gives(st[j], d),
         st[j].do = "createTable" =>
           /\ st[j].table \in EntityTables /\ m < TableSince(st[j].table)
           /\ \A i \in 1 .. j - 1 : ~(st[i].do = "createTable" /\ st[i].table = st[j].table)
  PROVE  Grants(st, d, m)
  <1>1. ASSUME NEW i \in j + 1 .. Len(st)  PROVE ~Takes(st[i], d)
    <2>1. i \in 1 .. Len(st)
      OBVIOUS
    <2> QED  BY <2>1, AddsSpare
  <1> QED  BY <1>1 DEF Grants

FeaturesTable ==
  CreateTable("features", {"name"}, {"id", "isActive"} \union Dates, {"description"},
              {<<"key", "UQ_features_key">>})
PermissionsTable ==
  CreateTable("permissions", {"feature_id", "action", "name"}, {"id"} \union Dates,
              {"description"}, {})
UsersTable ==
  CreateTable("users", {"password", "name"}, {"id", "isActive"} \union Dates,
              {"role_id", "deletedAt"}, {<<"email", "UQ_users_email">>})
RolePermissionsTable ==
  CreateTable("role_permissions", {"role_id", "permission_id"}, {"id", "granted", "createdAt"},
              {}, {})
SessionsTable ==
  CreateTable("sessions", {"user_id", "refresh_token_hash", "expires_at"}, {"id", "createdAt"},
              {"ip", "user_agent", "revoked_at", "rotated_from_session_id"}, {})

\* The tables that the first, second and fourth migration create have the columns of
\* their entities, but for the ones that a later migration adds.
LEMMA TablesGive ==
  ASSUME NEW d, d.is = "column"
  PROVE  /\ d.of[1] = "features"
              /\ d.of[2] \in {"key", "name", "id", "description", "isActive"} \union Dates
              => Gives(FeaturesTable, d)
         /\ d.of[1] = "permissions"
              /\ d.of[2] \in {"feature_id", "action", "name", "id", "description"} \union Dates
              => Gives(PermissionsTable, d)
         /\ d.of[1] = "roles"
              /\ d.of[2] \in {"name", "id", "description", "isActive"} \union Dates
              => Gives(RolesTable, d)
         /\ d.of[1] = "users"
              /\ d.of[2] \in {"email", "password", "name", "id", "role_id", "isActive", "deletedAt"}
                               \union Dates
              => Gives(UsersTable, d)
         /\ d.of[1] = "role_permissions"
              /\ d.of[2] \in {"role_id", "permission_id", "id", "createdAt"}
              => Gives(RolePermissionsTable, d)
         /\ d.of[1] = "sessions"
              /\ d.of[2] \in {"user_id", "refresh_token_hash", "expires_at", "id", "ip",
                              "user_agent", "createdAt", "revoked_at", "rotated_from_session_id"}
              => Gives(SessionsTable, d)
         /\ d.of[1] = "audit_logs"
              /\ d.of[2] \in {"action", "entity_type", "metadata", "id", "actor_user_id",
                              "entity_id", "ip", "user_agent", "createdAt"}
              => Gives(AuditLogsTable, d)
  <1>1. ASSUME d.of[1] = "features",
               d.of[2] \in {"key", "name", "id", "description", "isActive"} \union Dates
        PROVE  Gives(FeaturesTable, d)
    <2>1. d.of[2] \in {"name"} \union {q[1] : q \in {<<"key", "UQ_features_key">>}}
                       \union ({"id", "isActive"} \union Dates) \union {"description"}
      BY <1>1
    <2> QED  BY <1>1, <2>1, CreateTableGivesColumns DEF FeaturesTable
  <1>2. ASSUME d.of[1] = "permissions",
               d.of[2] \in {"feature_id", "action", "name", "id", "description"} \union Dates
        PROVE  Gives(PermissionsTable, d)
    <2>1. d.of[2] \in {"feature_id", "action", "name"} \union {q[1] : q \in {}}
                       \union ({"id"} \union Dates) \union {"description"}
      BY <1>2
    <2> QED  BY <1>2, <2>1, CreateTableGivesColumns DEF PermissionsTable
  <1>3. ASSUME d.of[1] = "roles",
               d.of[2] \in {"name", "id", "description", "isActive"} \union Dates
        PROVE  Gives(RolesTable, d)
    <2>1. d.of[2] \in {} \union {q[1] : q \in {<<"name", "UQ_roles_name">>}}
                       \union ({"id", "isActive"} \union Dates) \union {"description"}
      BY <1>3
    <2> QED  BY <1>3, <2>1, CreateTableGivesColumns DEF RolesTable
  <1>4. ASSUME d.of[1] = "users",
               d.of[2] \in {"email", "password", "name", "id", "role_id", "isActive", "deletedAt"}
                            \union Dates
        PROVE  Gives(UsersTable, d)
    <2>1. d.of[2] \in {"password", "name"} \union {q[1] : q \in {<<"email", "UQ_users_email">>}}
                       \union ({"id", "isActive"} \union Dates) \union {"role_id", "deletedAt"}
      BY <1>4
    <2> QED  BY <1>4, <2>1, CreateTableGivesColumns DEF UsersTable
  <1>5. ASSUME d.of[1] = "role_permissions",
               d.of[2] \in {"role_id", "permission_id", "id", "createdAt"}
        PROVE  Gives(RolePermissionsTable, d)
    <2>1. d.of[2] \in {"role_id", "permission_id"} \union {q[1] : q \in {}}
                       \union {"id", "granted", "createdAt"} \union {}
      BY <1>5
    <2> QED  BY <1>5, <2>1, CreateTableGivesColumns DEF RolePermissionsTable
  <1>6. ASSUME d.of[1] = "sessions",
               d.of[2] \in {"user_id", "refresh_token_hash", "expires_at", "id", "ip", "user_agent",
                           "createdAt", "revoked_at", "rotated_from_session_id"}
        PROVE  Gives(SessionsTable, d)
    <2>1. d.of[2] \in {"user_id", "refresh_token_hash", "expires_at"} \union {q[1] : q \in {}}
                       \union {"id", "createdAt"}
                       \union {"ip", "user_agent", "revoked_at", "rotated_from_session_id"}
      BY <1>6
    <2> QED  BY <1>6, <2>1, CreateTableGivesColumns DEF SessionsTable
  <1>7. ASSUME d.of[1] = "audit_logs",
               d.of[2] \in {"action", "entity_type", "metadata", "id", "actor_user_id",
                            "entity_id", "ip", "user_agent", "createdAt"}
        PROVE  Gives(AuditLogsTable, d)
    <2>1. d.of[2] \in {"action", "entity_type", "metadata"} \union {q[1] : q \in {}}
                       \union {"id", "createdAt"}
                       \union {"organization_id", "actor_user_id", "entity_id", "ip", "user_agent"}
      BY <1>7
    <2> QED  BY <1>7, <2>1, CreateTableGivesColumns DEF AuditLogsTable
  <1> QED  BY <1>1, <1>2, <1>3, <1>4, <1>5, <1>6, <1>7

LEMMA InitialTables ==
  /\ InitialRbacSchema[1] = FeaturesTable /\ InitialRbacSchema[3] = PermissionsTable
  /\ InitialRbacSchema[6] = RolesTable /\ InitialRbacSchema[8] = UsersTable
  /\ InitialRbacSchema[12] = RolePermissionsTable
  <1>1. /\ InitialRbacSchema[1] = FeaturesAndPermissions[1]
        /\ InitialRbacSchema[3] = FeaturesAndPermissions[3]
    BY InitialStatements
  <1>2. InitialRbacSchema[6] = RolesAndUsers[1] /\ InitialRbacSchema[8] = RolesAndUsers[3]
    <2>1. InitialRbacSchema[1 + 5] = RolesAndUsers[1] /\ InitialRbacSchema[3 + 5] = RolesAndUsers[3]
      BY InitialStatements
    <2> QED  BY <2>1
  <1>3. InitialRbacSchema[12] = RolePermissions[1]
    <2>1. InitialRbacSchema[1 + 11] = RolePermissions[1]
      BY InitialStatements
    <2> QED  BY <2>1
  <1>4. RolesAndUsers[1] = RolesTable
    BY DEF RolesAndUsers
  <1>5. RolesAndUsers[3] = UsersTable
    BY DEF RolesAndUsers, UsersTable
  <1>6. FeaturesAndPermissions[1] = FeaturesTable
    BY DEF FeaturesAndPermissions, FeaturesTable
  <1>7. FeaturesAndPermissions[3] = PermissionsTable
    BY DEF FeaturesAndPermissions, PermissionsTable
  <1>8. RolePermissions[1] = RolePermissionsTable
    BY RolePermissionsStatements DEF RolePermissionsTable
  <1> QED  BY <1>1, <1>2, <1>3, <1>4, <1>5, <1>6, <1>7, <1>8

LEMMA InitialOthers ==
  /\ \A i \in {2, 4, 5, 7, 9, 10, 11, 13, 14, 15} :
       InitialRbacSchema[i].do \in {"createIndex", "foreignKey"}
  /\ \A k \in ReliedKeys : \E i \in {11, 14, 15} :
       InitialRbacSchema[i].do = "foreignKey" /\ InitialRbacSchema[i].key = k
  <1>1. \A i \in {2, 4, 5} : FeaturesAndPermissions[i].do \in {"createIndex", "foreignKey"}
    BY DEF FeaturesAndPermissions, CreateIndex, ForeignKey
  <1>2. \A i \in {2, 4, 5, 6} : RolesAndUsers[i].do \in {"createIndex", "foreignKey"}
    BY DEF RolesAndUsers, CreateIndex, ForeignKey
  <1>3. /\ RolesAndUsers[6].do = "foreignKey"
        /\ RolesAndUsers[6].key = <<"users", "role_id", "roles", "SET_NULL">>
    BY DEF RolesAndUsers, ForeignKey
  <1>4. /\ RolePermissionKeys[1].do = "foreignKey" /\ RolePermissionKeys[2].do = "foreignKey"
        /\ RolePermissionKeys[1].key = <<"role_permissions", "role_id", "roles", "CASCADE">>
        /\ RolePermissionKeys[2].key =
             <<"role_permissions", "permission_id", "permissions", "CASCADE">>
    BY DEF RolePermissionKeys, ForeignKey
  <1>5. /\ \A i \in {2, 4, 5} : InitialRbacSchema[i] = FeaturesAndPermissions[i]
        /\ InitialRbacSchema[7] = RolesAndUsers[2] /\ InitialRbacSchema[9] = RolesAndUsers[4]
        /\ InitialRbacSchema[10] = RolesAndUsers[5] /\ InitialRbacSchema[11] = RolesAndUsers[6]
    <2>1. /\ InitialRbacSchema[2 + 5] = RolesAndUsers[2]
          /\ InitialRbacSchema[4 + 5] = RolesAndUsers[4]
          /\ InitialRbacSchema[5 + 5] = RolesAndUsers[5]
          /\ InitialRbacSchema[6 + 5] = RolesAndUsers[6]
      BY InitialStatements
    <2> QED  BY <2>1, InitialStatements
  <1>6. /\ InitialRbacSchema[13] = RolePermissions[2] /\ InitialRbacSchema[14] = RolePermissions[3]
        /\ InitialRbacSchema[15] = RolePermissions[4]
    <2>1. /\ InitialRbacSchema[2 + 11] = RolePermissions[2]
          /\ InitialRbacSchema[3 + 11] = RolePermissions[3]
          /\ InitialRbacSchema[4 + 11] = RolePermissions[4]
      BY InitialStatements
    <2> QED  BY <2>1
  <1>7. \A i \in {2, 4, 5, 7, 9, 10, 11, 13, 14, 15} :
          InitialRbacSchema[i].do \in {"createIndex", "foreignKey"}
    BY <1>1, <1>2, <1>4, <1>5, <1>6, RolePermissionsStatements
  <1>8. \A k \in ReliedKeys : \E i \in {11, 14, 15} :
          InitialRbacSchema[i].do = "foreignKey" /\ InitialRbacSchema[i].key = k
    BY <1>3, <1>4, <1>5, <1>6, RolePermissionsStatements DEF ReliedKeys
  <1> QED  BY <1>7, <1>8

\* The first migration grants all that its release promises.
LEMMA InitialGrants ==
  ASSUME NEW d, Promised(d, 1), d.is \in {"column", "key", "index"}
  PROVE  Grants(InitialRbacSchema, d, 0)
  <1> DEFINE st == InitialRbacSchema
  <1> SUFFICES Grants(st, d, 0)
    OBVIOUS
  <1>1. /\ st[1].do = "createTable" /\ st[1].table = "features"
        /\ st[3].do = "createTable" /\ st[3].table = "permissions"
        /\ st[6].do = "createTable" /\ st[6].table = "roles"
        /\ st[8].do = "createTable" /\ st[8].table = "users"
        /\ st[12].do = "createTable" /\ st[12].table = "role_permissions"
    BY InitialTables, CreateTableIs
       DEF FeaturesTable, PermissionsTable, RolesTable, UsersTable, RolePermissionsTable
  <1>2. Len(st) = 15
    BY InitialStatements
  <1>3. \A i \in 1 .. 15 : i \in {1, 3, 6, 8, 12} \/ i \in {2, 4, 5, 7, 9, 10, 11, 13, 14, 15}
    OBVIOUS
  <1> HIDE DEF st
  <1>4. OnlyAdds(st)
    BY <1>1, <1>2, <1>3, InitialOthers DEF OnlyAdds, st
  <1>5. ASSUME NEW j \in 1 .. Len(st), Gives(st[j], d), st[j].do # "createTable"
        PROVE  Grants(st, d, 0)
    <2>1. Len(st) \in Nat
      BY <1>2
    <2> QED  BY <1>4, <1>5, <2>1, AdditionsGrant
  <1>6. ASSUME NEW j \in {1, 3, 6, 8, 12}, Gives(st[j], d)  PROVE Grants(st, d, 0)
    <2>1. st[j].table \in EntityTables /\ 0 < TableSince(st[j].table)
      BY <1>1, TablesSince
    <2>2. \A i \in 1 .. j - 1 : ~(st[i].do = "createTable" /\ st[i].table = st[j].table)
      BY <1>1, <1>3, InitialOthers DEF st
    <2>3. j \in 1 .. Len(st) /\ Len(st) \in Nat
      BY <1>2
    <2> QED  BY <1>4, <1>6, <2>1, <2>2, <2>3, AdditionsGrant
  <1>7. CASE d.is = "key"
    <2>1. PICK j \in {11, 14, 15} : st[j].do = "foreignKey" /\ st[j].key = d.of
      BY <1>7, InitialOthers DEF Promised, st
    <2>2. Gives(st[j], d) /\ st[j].do # "createTable"
      BY <1>7, <2>1 DEF Gives
    <2>3. j \in 1 .. Len(st)
      BY <1>2
    <2> QED  BY <1>5, <2>2, <2>3
  <1>8. CASE d.is = "index"
    <2>1. d.of = NameIndex
      BY <1>8 DEF Promised
    <2>2. NameIndex \in RolesTable.indexes
      BY DEF RolesTable, CreateTable, NameIndex
    <2>3. d.of \in st[6].indexes
      BY <2>1, <2>2, InitialTables DEF st
    <2>4. Gives(st[6], d)
      BY <1>1, <1>8, <2>3 DEF Gives
    <2> QED  BY <1>6, <2>4
  <1>9. CASE d.is = "column"
    <2>1. d.of \in EntityColumns /\ Since(d.of) <= 1
      BY <1>9 DEF Promised
    <2>2. /\ d.of[1] \notin {"sessions", "audit_logs"}
          /\ d.of[2] \notin {"failed_login_attempts", "locked_until"}
      BY <2>1 DEF Since, TableSince
    <2>3. \/ d.of[1] = "features" /\ Gives(st[1], d)
          \/ d.of[1] = "permissions" /\ Gives(st[3], d)
          \/ d.of[1] = "roles" /\ Gives(st[6], d)
          \/ d.of[1] = "users" /\ Gives(st[8], d)
          \/ d.of[1] = "role_permissions" /\ Gives(st[12], d)
      BY <1>9, <2>1, <2>2, EntityColumnNames, TablesGive, InitialTables DEF st
    <2> QED  BY <1>6, <2>3
  <1> QED  BY <1>7, <1>8, <1>9 DEF Promised

\* A later migration grants the columns that its release has first.
LEMMA LaterGrants ==
  ASSUME NEW n \in 2 .. 14, NEW d, Promised(d, n), ~Promised(d, n - 1)
  PROVE  Grants(Migrations[n], d, n - 1)
  <1>1. d.is = "column" /\ d.of \in EntityColumns /\ Since(d.of) = n
    <2>1. d.is \in {"column", "key", "index", "absent", "required"}
      BY DEF Promised
    <2>2. TableSince(d.of) \in 1 .. 4 /\ Since(d.of) \in 1 .. 14
      BY DEF TableSince, Since
    <2>3. CASE d.is = "column"
      BY <2>2, <2>3 DEF Promised
    <2>4. CASE d.is = "absent"
      <3>1. n < TableSince(d.of) => n - 1 < TableSince(d.of)
        BY <2>2
      <3> QED  BY <2>4, <3>1 DEF Promised
    <2>5. CASE d.is \in {"key", "index", "required"}
      BY <2>5 DEF Promised
    <2> QED  BY <2>1, <2>3, <2>4, <2>5
  <1>2. /\ OnlyAdds(CreateSessionsTable) /\ OnlyAdds(AddUserLockoutColumns)
        /\ OnlyAdds(AddCorrelationIdToAuditLogs) /\ OnlyAdds(AddSessionJti)
        /\ OnlyAdds(AddAccessJtiAndRotatedToSession)
    <2>1. OnlyAdds(CreateSessionsTable)
      BY DEF OnlyAdds, CreateSessionsTable, CreateTable, CreateIndex, ForeignKey
    <2>2. OnlyAdds(AddUserLockoutColumns)
      BY DEF OnlyAdds, AddUserLockoutColumns, AddColumn
    <2>3. OnlyAdds(AddCorrelationIdToAuditLogs)
      BY DEF OnlyAdds, AddCorrelationIdToAuditLogs, AddColumn
    <2>4. OnlyAdds(AddSessionJti)
      BY DEF OnlyAdds, AddSessionJti, AddColumn
    <2>5. OnlyAdds(AddAccessJtiAndRotatedToSession)
      BY DEF OnlyAdds, AddAccessJtiAndRotatedToSession, AddColumnIfNotExists, CreateIndexIfNotExists
    <2> QED  BY <2>1, <2>2, <2>3, <2>4, <2>5
  <1>3. ASSUME NEW st, Len(st) \in Nat, OnlyAdds(st), NEW j \in 1 .. Len(st), Gives(st[j], d),
               st[j].do = "createTable" =>
                 j = 1 /\ st[j].table \in EntityTables /\ TableSince(st[j].table) = n
        PROVE  Grants(st, d, n - 1)
    <2>1. st[j].do = "createTable" => 1 .. j - 1 = {} /\ n - 1 < TableSince(st[j].table)
      BY <1>3
    <2> QED  BY <1>1, <1>3, <2>1, AdditionsGrant
  <1>4. CASE n = 2
    <2>1. d.of[1] = "sessions"
          /\ d.of[2] \notin {"jti", "access_jti", "rotated_to_session_id"}
      BY <1>1, <1>4, EntityColumnNames DEF Since, TableSince
    <2>2. CreateSessionsTable[1] = SessionsTable /\ Len(CreateSessionsTable) = 5
      BY DEF CreateSessionsTable, SessionsTable
    <2>3. Gives(SessionsTable, d)
      BY <1>1, <2>1, EntityColumnNames, TablesGive
    <2>4. SessionsTable.table = "sessions"
      BY CreateTableIs DEF SessionsTable
    <2>5. 1 \in 1 .. Len(CreateSessionsTable) /\ Len(CreateSessionsTable) \in Nat
          /\ "sessions" \in EntityTables /\ TableSince("sessions") = n
      BY <1>4, <2>2, TablesSince
    <2>6. Grants(CreateSessionsTable, d, n - 1)
      BY <1>2, <1>3, <2>2, <2>3, <2>4, <2>5
    <2> QED  BY <1>4, <2>6, FourteenReleases
  <1>5. CASE n = 4
    <2>1. d.of[1] = "audit_logs" /\ d.of[2] # "correlation_id"
      BY <1>1, <1>5, EntityColumnNames DEF Since, TableSince
    <2>2. Gives(AuditLogsTable, d)
      BY <1>1, <2>1, EntityColumnNames, TablesGive
    <2>3. AuditLogsTable.table = "audit_logs"
      BY CreateTableIs DEF AuditLogsTable
    <2>4. /\ 1 \in 1 .. Len(CreateAuditLogsTable) /\ Len(CreateAuditLogsTable) \in Nat
          /\ OnlyAdds(CreateAuditLogsTable) /\ CreateAuditLogsTable[1] = AuditLogsTable
          /\ "audit_logs" \in EntityTables /\ TableSince("audit_logs") = n
      BY <1>5, AuditStatements, TablesSince
    <2>5. Grants(CreateAuditLogsTable, d, n - 1)
      BY <1>3, <2>2, <2>3, <2>4
    <2> QED  BY <1>5, <2>5, FourteenReleases
  <1>6. CASE n = 5
    <2>1. d.of[1] = "users" /\ d.of[2] \in {"failed_login_attempts", "locked_until"}
      BY <1>1, <1>6, EntityColumnNames DEF Since, TableSince, Dates
    <2>2. PICK j \in 1 .. 2 : /\ Gives(AddUserLockoutColumns[j], d)
                             /\ AddUserLockoutColumns[j].do = "addColumn"
      BY <1>1, <2>1 DEF AddUserLockoutColumns, AddColumn, Gives
    <2>3. Len(AddUserLockoutColumns) = 2
      BY DEF AddUserLockoutColumns
    <2>4. j \in 1 .. Len(AddUserLockoutColumns) /\ Len(AddUserLockoutColumns) \in Nat
      BY <2>3
    <2>5. Grants(AddUserLockoutColumns, d, n - 1)
      BY <1>2, <1>3, <2>2, <2>4
    <2> QED  BY <1>6, <2>5, FourteenReleases
  <1>7. CASE n = 7
    <2>1. d.of[1] = "audit_logs" /\ d.of[2] = "correlation_id"
      BY <1>1, <1>7, EntityColumnNames DEF Since, TableSince, Dates
    <2>2. /\ Gives(AddCorrelationIdToAuditLogs[1], d)
          /\ AddCorrelationIdToAuditLogs[1].do = "addColumn"
      BY <1>1, <2>1 DEF AddCorrelationIdToAuditLogs, AddColumn, Gives
    <2>3. Len(AddCorrelationIdToAuditLogs) = 1
      BY DEF AddCorrelationIdToAuditLogs
    <2>4. 1 \in 1 .. Len(AddCorrelationIdToAuditLogs) /\ Len(AddCorrelationIdToAuditLogs) \in Nat
      BY <2>3
    <2>5. Grants(AddCorrelationIdToAuditLogs, d, n - 1)
      BY <1>2, <1>3, <2>2, <2>4
    <2> QED  BY <1>7, <2>5, FourteenReleases
  <1>8. CASE n = 8
    <2>1. d.of[1] = "sessions" /\ d.of[2] = "jti"
      BY <1>1, <1>8, EntityColumnNames DEF Since, TableSince, Dates
    <2>2. Gives(AddSessionJti[1], d) /\ AddSessionJti[1].do = "addColumn"
      BY <1>1, <2>1 DEF AddSessionJti, AddColumn, Gives
    <2>3. Len(AddSessionJti) = 1
      BY DEF AddSessionJti
    <2>4. 1 \in 1 .. Len(AddSessionJti) /\ Len(AddSessionJti) \in Nat
      BY <2>3
    <2>5. Grants(AddSessionJti, d, n - 1)
      BY <1>2, <1>3, <2>2, <2>4
    <2> QED  BY <1>8, <2>5, FourteenReleases
  <1>9. CASE n = 14
    <2>1. d.of[1] = "sessions" /\ d.of[2] \in {"access_jti", "rotated_to_session_id"}
      BY <1>1, <1>9, EntityColumnNames DEF Since, TableSince, Dates
    <2>2. PICK j \in 1 .. 2 : /\ Gives(AddAccessJtiAndRotatedToSession[j], d)
                             /\ AddAccessJtiAndRotatedToSession[j].do = "addColumn"
      BY <1>1, <2>1 DEF AddAccessJtiAndRotatedToSession, AddColumnIfNotExists, Gives
    <2>3. Len(AddAccessJtiAndRotatedToSession) = 3
      BY DEF AddAccessJtiAndRotatedToSession
    <2>4. j \in 1 .. Len(AddAccessJtiAndRotatedToSession)
          /\ Len(AddAccessJtiAndRotatedToSession) \in Nat
      BY <2>3
    <2>5. Grants(AddAccessJtiAndRotatedToSession, d, n - 1)
      BY <1>2, <1>3, <2>2, <2>4
    <2> QED  BY <1>9, <2>5, FourteenReleases
  <1> QED  BY <1>1, <1>4, <1>5, <1>6, <1>7, <1>8, <1>9 DEF Since, TableSince

\* What a revert gives back is the absence of the tables it drops.
LEMMA DownGrants ==
  ASSUME NEW n \in 1 .. 14, NEW d, Promised(d, n - 1), ~Promised(d, n)
  PROVE  Grants(Downs[n], d, n)
  <1>1. d.is = "absent" /\ d.of \in EntityTables /\ TableSince(d.of) = n
    <2>1. d.is \in {"column", "key", "index", "absent", "required"}
      BY DEF Promised
    <2>2. TableSince(d.of) \in 1 .. 4 /\ Since(d.of) \in 1 .. 14
      BY DEF TableSince, Since
    <2>3. CASE d.is = "column"
      BY <2>2, <2>3 DEF Promised
    <2>4. CASE d.is = "absent"
      BY <2>2, <2>4 DEF Promised
    <2>5. CASE d.is \in {"key", "index", "required"}
      BY <2>5 DEF Promised
    <2> QED  BY <2>1, <2>3, <2>4, <2>5
  <1>2. ASSUME NEW st, NEW j \in 1 .. Len(st), st[j].do = "dropTable", st[j].table = d.of,
               \A i \in 1 .. Len(st) : st[i].do # "createTable", Len(st) \in Nat
        PROVE  Grants(st, d, n)
    <2>1. Gives(st[j], d) /\ st[j].do # "createTable"
      BY <1>1, <1>2 DEF Gives
    <2>2. \A i \in j + 1 .. Len(st) : i \in 1 .. Len(st)
      BY <1>2
    <2>3. \A i \in j + 1 .. Len(st) : ~Takes(st[i], d)
      BY <1>1, <1>2, <2>2 DEF Takes
    <2> QED  BY <2>1, <2>3 DEF Grants
  <1>3. CASE n = 1
    <2>1. d.of \in {"features", "permissions", "roles", "users", "role_permissions"}
      BY <1>1, <1>3, TablesSince
    <2>2. \A i \in 1 .. 5 : InitialRbacSchemaDown[i].do = "dropTable"
      BY DEF InitialRbacSchemaDown, DropTable
    <2>3. \A t \in {"features", "permissions", "roles", "users", "role_permissions"} :
            \E i \in 1 .. 5 : InitialRbacSchemaDown[i].table = t
      <3>1. /\ InitialRbacSchemaDown[1].table = "role_permissions"
            /\ InitialRbacSchemaDown[2].table = "users" /\ InitialRbacSchemaDown[3].table = "roles"
            /\ InitialRbacSchemaDown[4].table = "permissions"
            /\ InitialRbacSchemaDown[5].table = "features"
        BY DEF InitialRbacSchemaDown, DropTable
      <3> QED  BY <3>1
    <2>4. Len(InitialRbacSchemaDown) = 5
      BY DEF InitialRbacSchemaDown
    <2>5. PICK j \in 1 .. 5 : InitialRbacSchemaDown[j].table = d.of
      BY <2>1, <2>3
    <2>6. j \in 1 .. Len(InitialRbacSchemaDown) /\ Len(InitialRbacSchemaDown) \in Nat
          /\ \A i \in 1 .. Len(InitialRbacSchemaDown) : InitialRbacSchemaDown[i].do # "createTable"
      BY <2>2, <2>4
    <2>7. Grants(InitialRbacSchemaDown, d, n)
      BY <1>2, <2>2, <2>5, <2>6
    <2> QED  BY <1>3, <2>7, FourteenReleases
  <1>4. CASE n = 2
    <2>1. d.of = "sessions"
      BY <1>1, <1>4, TablesSince
    <2>2. /\ CreateSessionsTableDown[1].do = "dropForeignKeys"
          /\ CreateSessionsTableDown[2].do = "dropTable"
          /\ CreateSessionsTableDown[2].table = "sessions" /\ Len(CreateSessionsTableDown) = 2
      BY DEF CreateSessionsTableDown, DropForeignKeys, DropTable
    <2>3. Grants(CreateSessionsTableDown, d, n)
      BY <1>2, <2>1, <2>2
    <2> QED  BY <1>4, <2>3, FourteenReleases
  <1>5. CASE n = 4
    <2>1. d.of = "audit_logs"
      BY <1>1, <1>5, TablesSince
    <2>2. /\ CreateAuditLogsTableDown[1].do = "dropForeignKeys"
          /\ CreateAuditLogsTableDown[2].do = "dropTable"
          /\ CreateAuditLogsTableDown[2].table = "audit_logs" /\ Len(CreateAuditLogsTableDown) = 2
      BY DEF CreateAuditLogsTableDown, DropForeignKeys, DropTable
    <2>3. Grants(CreateAuditLogsTableDown, d, n)
      BY <1>2, <2>1, <2>2
    <2> QED  BY <1>5, <2>3, FourteenReleases
  <1> QED  BY <1>1, <1>3, <1>4, <1>5, TablesSince

\* A list that is mild and grants what is new leads from what one release has to what
\* its neighbour has.
LEMMA Leads ==
  ASSUME NEW s, NEW st, NEW n \in 1 .. 14, NEW m \in {n - 1, n}, NEW k \in {n - 1, n},
         MildList(st, n), OfRelease(s, m), ExecuteAll(s, st).ok,
         m # k, \A d : Promised(d, k) /\ ~Promised(d, m) => Grants(st, d, m)
  PROVE  OfRelease(ExecuteAll(s, st), k)
  <1>1. IsList(st) /\ IsSchema(s)
    BY DEF MildList, Mild, IsList, OfRelease
  <1>2. IsSchema(ExecuteAll(s, st))
    <2>1. Len(st) \in 0 .. Len(st)
      BY <1>1 DEF IsList
    <2> QED  BY <1>1, <2>1, Run
  <1>3. SUFFICES ASSUME NEW d, Promised(d, k)  PROVE Has(ExecuteAll(s, st), d)
    BY <1>2 DEF OfRelease
  <1>4. CASE Promised(d, m)
    <2>1. Promised(d, n - 1) /\ Promised(d, n)
      BY <1>3, <1>4
    <2>2. \A i \in 1 .. Len(st) : ~Takes(st[i], d)
      BY <2>1, MildSpares DEF MildList
    <2>3. Has(s, d)
      BY <1>4 DEF OfRelease
    <2> QED  BY <1>1, <2>2, <2>3, ListKeeps
  <1>5. CASE ~Promised(d, m)
    <2>1. PICK j \in 1 .. Len(st) :
            /\ Gives(st[j], d)
            /\ \A i \in j + 1 .. Len(st) : ~Takes(st[i], d)
            /\ st[j].do = "createTable" =>
                 /\ st[j].table \in EntityTables /\ m < TableSince(st[j].table)
                 /\ \A i \in 1 .. j - 1 : ~(st[i].do = "createTable" /\ st[i].table = st[j].table)
      BY <1>3, <1>5 DEF Grants
    <2>2. ASSUME st[j].do = "createTable"  PROVE ~HasTable(s, st[j].table)
      <3> DEFINE none == [is |-> "absent", of |-> st[j].table]
      <3>1. Promised(none, m)
        BY <2>1, <2>2 DEF Promised
      <3>2. Has(s, none)
        BY <3>1 DEF OfRelease
      <3> QED  BY <3>2 DEF Has
    <2> QED  BY <1>1, <2>1, <2>2, ListGives
  <1> QED  BY <1>4, <1>5

\* A migration leads from any schema with the promises of a release to one with those
\* of the next.
LEMMA Up ==
  ASSUME NEW s, NEW n \in 1 .. 14, OfRelease(s, n - 1), ExecuteAll(s, Migrations[n]).ok
  PROVE  OfRelease(ExecuteAll(s, Migrations[n]), n)
  <1>1. ASSUME NEW d, Promised(d, n), ~Promised(d, n - 1)  PROVE Grants(Migrations[n], d, n - 1)
    <2>1. CASE n = 1
      <3>1. d.is \in {"column", "key", "index"}
        <4>1. d.is \in {"column", "key", "index", "absent", "required"}
          BY <1>1 DEF Promised
        <4>2. TableSince(d.of) \in 1 .. 4
          BY DEF TableSince
        <4>3. d.is # "absent" /\ d.is # "required"
          BY <1>1, <2>1, <4>2 DEF Promised
        <4> QED  BY <4>1, <4>3
      <3>2. Promised(d, 1)
        BY <1>1, <2>1
      <3> QED  BY <2>1, <3>1, <3>2, InitialGrants, FourteenReleases
    <2>2. CASE n # 1
      BY <1>1, <2>2, LaterGrants
    <2> QED  BY <2>1, <2>2
  <1>2. n - 1 \in {n - 1, n} /\ n \in {n - 1, n} /\ n - 1 # n
    OBVIOUS
  <1>3. MildList(Migrations[n], n)
    BY MildMigrations
  <1> QED  BY <1>1, <1>2, <1>3, Leads

\* And its revert leads back.
LEMMA Down ==
  ASSUME NEW s, NEW n \in 1 .. 14, OfRelease(s, n), ExecuteAll(s, Downs[n]).ok
  PROVE  OfRelease(ExecuteAll(s, Downs[n]), n - 1)
  <1>1. \A d : Promised(d, n - 1) /\ ~Promised(d, n) => Grants(Downs[n], d, n)
    BY DownGrants
  <1>2. n - 1 \in {n - 1, n} /\ n \in {n - 1, n} /\ n - 1 # n
    OBVIOUS
  <1>3. MildList(Downs[n], n)
    BY MildMigrations
  <1> QED  BY <1>1, <1>2, <1>3, Leads

-----------------------------------------------------------------------------
(* 8. What holds however often migrations are run and reverted.             *)

\* So do any number of migrations, run in a row.
LEMMA MigratedOfRelease ==
  ASSUME NEW s, NEW m \in Nat, NEW n \in Nat, m <= n, n <= 14,
         OfRelease(s, m), Migrated(s, m, n).ok
  PROVE  OfRelease(Migrated(s, m, n), n)
  <1>0. m \in Nat /\ n \in Nat /\ m <= n
    OBVIOUS
  <1>1. PICK f : /\ f[m] = s /\ f[n] = Migrated(s, m, n)
                 /\ \A i \in m + 1 .. n : f[i] = ExecuteAll(f[i - 1], Migrations[i])
    BY MigratedEach
  <1>2. \A u, i : IsSchema(u) /\ i \in 1 .. 14 =>
          LET v == ExecuteAll(u, Migrations[i]) IN IsSchema(v) /\ (v.ok => u.ok)
    <2> SUFFICES ASSUME NEW u, NEW i \in 1 .. 14, IsSchema(u)
                 PROVE  LET v == ExecuteAll(u, Migrations[i]) IN IsSchema(v) /\ (v.ok => u.ok)
      OBVIOUS
    <2> DEFINE st == Migrations[i]
    <2>1. IsList(st)
      BY MildMigrations DEF MildList, Mild, IsList
    <2> HIDE DEF st
    <2>2. PICK g : /\ g[0] = u /\ g[Len(st)] = ExecuteAll(u, st)
                   /\ \A k \in 1 .. Len(st) : g[k] = Proceed(g[k - 1], st[k])
                   /\ \A k \in 0 .. Len(st) :
                        IsSchema(g[k]) /\ (ExecuteAll(u, st).ok => g[k].ok)
      BY <2>1, Run
    <2>3. Len(st) \in 0 .. Len(st) /\ 0 \in 0 .. Len(st)
      BY <2>1 DEF IsList
    <2> QED  BY <2>2, <2>3 DEF st
  <1> DEFINE S == {i \in m .. n : IsSchema(f[i])}
             T == {i \in 0 .. n - m : f[n - i].ok}
             U == {i \in m .. n : OfRelease(f[i], i)}
  <1>3. m .. n \subseteq S
    <2>1. m \in S
      BY <1>0, <1>1 DEF OfRelease
    <2>2. ASSUME NEW i \in m .. n, i # n, i \in S  PROVE i + 1 \in S
      <3>1. i + 1 \in m + 1 .. n /\ i + 1 \in m .. n /\ i + 1 \in 1 .. 14
            /\ f[i + 1] = ExecuteAll(f[i], Migrations[i + 1])
        BY <1>0, <1>1, <2>2
      <3> QED  BY <1>2, <2>2, <3>1
    <2> HIDE DEF S
    <2> QED  BY <1>0, <2>1, <2>2, IntervalInduction
  <1>4. \A i \in m .. n : f[i].ok
    <2>1. 0 \in T /\ n - m \in Nat
      BY <1>0, <1>1
    <2>2. ASSUME NEW i \in 0 .. n - m, i # n - m, i \in T  PROVE i + 1 \in T
      <3> DEFINE j == n - i
      <3>1. j \in m + 1 .. n /\ j - 1 \in m .. n /\ j \in 1 .. 14 /\ n - (i + 1) = j - 1
            /\ i + 1 \in 0 .. n - m
        BY <1>0, <2>2
      <3> HIDE DEF j
      <3>2. f[j].ok => f[j - 1].ok
        <4>1. IsSchema(f[j - 1]) /\ f[j] = ExecuteAll(f[j - 1], Migrations[j])
          BY <1>1, <1>3, <3>1
        <4> QED  BY <1>2, <3>1, <4>1
      <3> QED  BY <2>2, <3>1, <3>2 DEF j
    <2>3. 0 .. n - m \subseteq T
      <3> HIDE DEF T
      <3> QED  BY <2>1, <2>2, IntervalInduction
    <2> SUFFICES ASSUME NEW i \in m .. n  PROVE f[i].ok
      OBVIOUS
    <2>4. n - i \in 0 .. n - m /\ n - (n - i) = i
      BY <1>0
    <2> QED  BY <2>3, <2>4
  <1>5. m \in U
    BY <1>0, <1>1
  <1>6. ASSUME NEW i \in m .. n, i # n, i \in U  PROVE i + 1 \in U
    <2> DEFINE j == i + 1
    <2>1. j \in m + 1 .. n /\ j \in m .. n /\ j \in 1 .. 14 /\ j - 1 = i
      BY <1>0, <1>6
    <2> HIDE DEF j
    <2>2. f[j] = ExecuteAll(f[j - 1], Migrations[j]) /\ f[j].ok /\ OfRelease(f[j - 1], j - 1)
      BY <1>1, <1>4, <1>6, <2>1
    <2>3. OfRelease(f[j], j)
      BY <2>1, <2>2, Up
    <2> QED  BY <2>1, <2>3 DEF j
  <1>7. m .. n \subseteq U
    <2> HIDE DEF U
    <2> QED  BY <1>0, <1>5, <1>6, IntervalInduction
  <1>8. n \in U
    BY <1>0, <1>7
  <1> QED  BY <1>1, <1>8

\* Nothing was refused, and the schema has what its release promises.
SchemaInv ==
  /\ applied \in 0 .. Latest /\ serving \in BOOLEAN
  /\ schema.ok /\ OfRelease(schema, applied) /\ (serving => applied = Latest)

LEMMA SchemaInvInit ==
  ASSUME SchemaInit
  PROVE  SchemaInv
  <1>1. OfRelease(NoSchema, 0)
    <2>1. \A w : TableSince(w[1]) <= Since(w) /\ TableSince(w[1]) \in 1 .. 4 /\ Since(w) \in 1 .. 14
      BY TablesBeforeColumns
    <2>2. ASSUME NEW d, Promised(d, 0)  PROVE Has(NoSchema, d)
      <3>1. d.is \in {"absent", "required"}
        BY <2>1, <2>2 DEF Promised
      <3> QED  BY <3>1 DEF Has, NoSchema, HasTable
    <2>3. IsSchema(NoSchema)
      BY DEF IsSchema, NoSchema
    <2> QED  BY <2>2, <2>3 DEF OfRelease
  <1>2. applied \in 0 .. 14 /\ schema = Migrated(NoSchema, 0, applied) /\ schema.ok
        /\ serving = FALSE
    BY FourteenReleases DEF SchemaInit, Release
  <1>3. OfRelease(schema, applied)
    <2>1. 0 \in Nat /\ applied \in Nat /\ 0 <= applied /\ applied <= 14
      BY <1>2
    <2> QED  BY <1>1, <1>2, <2>1, MigratedOfRelease
  <1> QED  BY <1>2, <1>3, FourteenReleases DEF SchemaInv

LEMMA SchemaInvRun ==
  ASSUME SchemaInv, RunMigrations
  PROVE  SchemaInv'
  <1>1. /\ applied \in 0 .. 14 /\ applied' = 14 /\ UNCHANGED serving /\ ~serving
        /\ schema' = Migrated(schema, applied, 14) /\ schema'.ok
    BY FourteenReleases DEF SchemaInv, RunMigrations, Pending
  <1>2. OfRelease(schema, applied) /\ applied \in Nat /\ 14 \in Nat /\ applied <= 14 /\ 14 <= 14
    BY <1>1 DEF SchemaInv
  <1>3. OfRelease(Migrated(schema, applied, 14), 14)
    BY <1>1, <1>2, MigratedOfRelease
  <1>4. OfRelease(schema', applied')
    BY <1>1, <1>3
  <1> QED  BY <1>1, <1>4, FourteenReleases DEF SchemaInv

LEMMA SchemaInvRevert ==
  ASSUME SchemaInv, RevertMigration
  PROVE  SchemaInv'
  <1>1. /\ applied \in 1 .. 14 /\ applied' = applied - 1 /\ UNCHANGED serving /\ ~serving
        /\ schema' = ExecuteAll(schema, Downs[applied]) /\ schema'.ok
    BY FourteenReleases DEF SchemaInv, RevertMigration, Undone
  <1>2. OfRelease(ExecuteAll(schema, Downs[applied]), applied - 1)
    BY <1>1, Down DEF SchemaInv
  <1>3. OfRelease(schema', applied')
    BY <1>1, <1>2
  <1>4. applied' \in 0 .. 14 /\ schema'.ok /\ serving' \in BOOLEAN /\ ~serving'
    BY <1>1 DEF SchemaInv
  <1> QED  BY <1>3, <1>4, FourteenReleases DEF SchemaInv

\* Each entity has a table of its own.
LEMMA TablesDiffer == \A e, f \in Entities : e.table = f.table => e = f
  <1>1. /\ FeatureColumns.table = "features" /\ PermissionColumns.table = "permissions"
        /\ RoleColumns.table = "roles" /\ RolePermissionColumns.table = "role_permissions"
        /\ UserColumns.table = "users" /\ SessionColumns.table = "sessions"
        /\ AuditLogColumns.table = "audit_logs"
    BY DEF Entity, FeatureColumns, PermissionColumns, RoleColumns, UserColumns,
           RolePermissionColumns, SessionColumns, AuditLogColumns
  <1> QED  BY <1>1 DEF Entities

\* The entities fit the tables of a service that runs.
LEMMA SchemaInvFits ==
  ASSUME SchemaInv
  PROVE  EntitiesFit
  <1> SUFFICES ASSUME serving, NEW e \in Entities  PROVE Fits(schema, e)
    BY DEF EntitiesFit
  <1>1. OfRelease(schema, 14)
    BY FourteenReleases DEF SchemaInv
  <1>2. ASSUME NEW c \in e.given \union e.left  PROVE HasColumn(schema, e.table, c)
    <2> DEFINE d == [is |-> "column", of |-> <<e.table, c>>]
    <2>1. <<e.table, c>> \in EntityColumns
      BY <1>2, EntityRows
    <2>2. Since(<<e.table, c>>) <= 14
      BY TablesBeforeColumns
    <2>3. Promised(d, 14)
      BY <2>1, <2>2 DEF Promised
    <2>4. Has(schema, d)
      BY <1>1, <2>3 DEF OfRelease
    <2> QED  BY <2>4 DEF Has
  <1>3. ASSUME NEW x \in schema.columns, x[1] = e.table, x[3] = "required"  PROVE x[2] \in e.given
    <2> DEFINE d == [is |-> "required", of |-> MayBeRequired]
    <2>1. Has(schema, d)
      BY <1>1 DEF OfRelease, Promised
    <2>2. <<x[1], x[2]>> \in MayBeRequired
      BY <1>3, <2>1 DEF Has
    <2>3. e.table # "organizations"
      BY TablesSince DEF EntityTables
    <2>4. <<x[1], x[2]>> \in GivenColumns
      BY <1>3, <2>2, <2>3 DEF MayBeRequired
    <2>5. PICK f \in Entities : f.table = x[1] /\ x[2] \in f.given
      BY <2>4 DEF GivenColumns
    <2> QED  BY <1>3, <2>5, TablesDiffer
  <1> QED  BY <1>2, <1>3 DEF Fits

\* The constraints that the services rely on are there while it runs.
LEMMA SchemaInvConstraints ==
  ASSUME SchemaInv, serving
  PROVE  NameIndex \in schema.indexes /\ ReliedKeys \subseteq schema.keys
  <1>1. OfRelease(schema, 14)
    BY FourteenReleases DEF SchemaInv
  <1>2. Has(schema, [is |-> "index", of |-> NameIndex])
    BY <1>1 DEF OfRelease, Promised
  <1>3. \A k \in ReliedKeys : Has(schema, [is |-> "key", of |-> k])
    BY <1>1 DEF OfRelease, Promised
  <1> QED  BY <1>2, <1>3 DEF Has
=============================================================================
