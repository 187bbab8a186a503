CONSTANTS
    NaN = 99
    Garbled = garbled
    Reads <- MCReads
    TokenMaxAge = 1
    MaxInt = 7
    Servers = {"v1", "v2", "other"}
    Schema <- RolloutSchema
    Columns <- MCColumns
    Values = {0, 1, 2}
    KeyColumn = "id"
    Filters <- MCFilters
    Matches <- MCMatches
    OrderBys <- MCOrderBys
    PageSizes = {0, 5}
    InitialTables <- RolloutTables
    MaxWrites = 1
    MaxTime = 2
SPECIFICATION Spec
INVARIANTS TypeOK TokenResumes
CHECK_DEADLOCK FALSE
