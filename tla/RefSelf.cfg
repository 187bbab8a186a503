CONSTANTS
    MaxIdent = 5
    MaxRuns = 1
    Sources <- SelfReference
    Tables <- GenerateTables
    InputFiles <- NoFiles
SPECIFICATION Spec
INVARIANT AppliesCleanly
CHECK_DEADLOCK FALSE
