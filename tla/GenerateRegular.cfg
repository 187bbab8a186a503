CONSTANTS
    MaxIdent = 5
    MaxRuns = 1
    Sources <- RegularSources
    Tables <- GenerateTables
    InputFiles <- NoFiles
SPECIFICATION Spec
INVARIANTS AppliesCleanly ReferencesStayInTenant UniquenessStaysInScope ForeignKeysAreBacked
CHECK_DEADLOCK FALSE
