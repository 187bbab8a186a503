CONSTANTS
    MaxIdent = 4
    MaxRuns = 2
    Sources <- AnySources
    Tables <- GenerateTables
    InputFiles <- NoFiles
SPECIFICATION FairSpec
INVARIANTS GenerateTypeOK ResolvedAsASet AcceptedSchemasStart
PROPERTIES EveryFileWritten RunEnds
CHECK_DEADLOCK FALSE
