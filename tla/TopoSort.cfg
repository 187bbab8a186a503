CONSTANTS
    Tables <- MCTables
    InputFiles <- MCInputFiles
SPECIFICATION FairTopoSpec
INVARIANTS TopoTypeOK CreatedFirst InputOrderBreaksTies CycleIsReal
PROPERTY SortEnds
CHECK_DEADLOCK FALSE
