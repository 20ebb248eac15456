SPECIFICATION LiveSpec
CONSTANTS
    CapacityRows = 2
    MaxBatchSize = 1
    MaxOutstanding = 2
    DirectImports = TRUE
    Operations = {"DRAFT_INITIAL"}
    StopKinds = {"SHUTDOWN"}
    MaxWorks = 2
    MaxGenerations = 1
PROPERTY
    EveryWorkEnds
CHECK_DEADLOCK FALSE
