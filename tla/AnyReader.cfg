SPECIFICATION Spec
CONSTANTS
    SIZE_MAX = 7
    MaxQueries = 2
    MaxRows = 3
    Columns = {1, 2}
INVARIANTS
    TypeOK
    WalkIsComplete
    WalkReadsSelected
    FalseMeansNoRow
CHECK_DEADLOCK FALSE
