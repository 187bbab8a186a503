CONSTANTS
    Fields <- MCFields
    Keys = {"k"}
    Newest = 2
    Word = 4
    Micro = 3
    Nearest <- MCNearest
    MaxDuration = 1
    NilBytes = NilBytes
    Elements <- MCElements
    MaxLength = 1
    MapKeys = {"x"}
    Stamps = {2, 3}
    InsertList = "AllColumns"

SPECIFICATION Spec

INVARIANTS
    TypeOK
    EveryRowReads
    OnlyNamedRefusals
    DefaultsAreAccepted
    CursorsFit

PROPERTIES
    UnknownChoicesAreKept
    StoresMessages
    CallsAreTheStores

CHECK_DEADLOCK FALSE
