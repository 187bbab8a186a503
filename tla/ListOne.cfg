CONSTANTS
    NaN = 99
    Garbled = garbled
    Reads <- MCReads
    TokenMaxAge = 1
    MaxInt = 7
    Servers = {"v1"}
    Schema <- OneSchema
    Columns <- MCColumns
    Values = {0, 1, 2}
    KeyColumn = "id"
    Filters <- MCFilters
    Matches <- MCMatches
    OrderBys <- MCOrderBys
    PageSizes = {0, 5}
    InitialTables <- OneTable
    MaxWrites = 2
    MaxTime = 2
SPECIFICATION FairSpec
INVARIANTS StrictlyOrdered NothingSkipped
PROPERTIES OnlyExpiryStopsAList ListsEnd KeepsPromise
CHECK_DEADLOCK FALSE
