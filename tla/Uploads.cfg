SPECIFICATION FairSpec
CONSTANTS
    MaxFiles = 2
    MaxDeletes = 2
    BatchSize = 1
    MaxPasses = 2
    MaxLoads = 2
    MaxUpsets = 1
CHECK_DEADLOCK FALSE
INVARIANTS
    TypeOK
    RowHasObject
    ObjectHasRow
    
PROPERTIES
    StaleGoes
