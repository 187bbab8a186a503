CONSTANTS
    MaxIdent = 5
    MaxRuns = 1
    Sources <- TenantTieBreaker
    Tables <- GenerateTables
    InputFiles <- NoFiles
SPECIFICATION Spec
INVARIANT AcceptedSchemasStart
CHECK_DEADLOCK FALSE
