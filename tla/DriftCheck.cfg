SPECIFICATION FairSpec
CONSTANTS
  Absent = Absent
  TableNames <- MCTableNames
  Shapes <- MCShapes
  TenantRole = "app"
  Scopes <- MCScopes
  MaxEdits = 3
  MaxMigrations = 2
INVARIANTS
  DriftTypeOK
  OkMeansNoDrift
  DeltaIsWhatCheckCompares
  ScaffoldConverges
  ContainersAreTerminated
PROPERTIES
  CommandsEnd
