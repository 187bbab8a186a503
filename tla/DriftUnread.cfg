SPECIFICATION Spec
CONSTANTS
  Absent = Absent
  TableNames <- MCTableNames
  Shapes <- MCShapesUnread
  TenantRole = "app"
  Scopes <- MCScopes
  MaxEdits = 3
  MaxMigrations = 2
INVARIANTS
  OkMeansNoDrift
