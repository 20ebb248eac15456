SPECIFICATION Spec
CONSTANTS
    CapacityRows = 3
    MaxBatchSize = 2
    MaxOutstanding = 3
    DirectImports = FALSE
    Operations = {"DRAFT_INITIAL"}
    StopKinds = {"SHUTDOWN"}
    MaxWorks = 3
    MaxGenerations = 1
INVARIANTS
    TypeOK
    RowsPartition
    RowsAvailable
    NoFailure
