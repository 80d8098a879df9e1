CONSTANTS
  Roles = {k1, k2}
  p1 = p1
  p2 = p2
  f1 = f1
  Permissions = {p1, p2}
  Features = {f1}
  Feature <- OneFeature
  Users = {u1}
  Names = {admin, viewer}
  AdminName = admin
  DefaultName = viewer
  Seeded = {p1}
  Calls = {c1, c2}
  None = none
SPECIFICATION Spec
SYMMETRY RowSymmetry
INVARIANTS TypeOK MigrationsApply SchemaOfRelease EntitiesFit ConstraintsInPlace NamesAreUnique ReferencesResolve GrantsAreOneRequest
