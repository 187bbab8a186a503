CONSTANTS
    Fields <- NestedMessages
    Keys = {"k"}
    Newest = 2
    Word = 4
    Micro = 3
    Nearest <- MCNearest
    MaxDuration = 1
    NilBytes = NilBytes
    Elements <- MCElements
    MaxLength = 1
    MapKeys = {"x"}
    Stamps = {2, 3}
    InsertList = "AllColumns"

SPECIFICATION Spec

PROPERTY UnknownFieldsSurvive

CHECK_DEADLOCK FALSE
