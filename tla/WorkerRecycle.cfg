SPECIFICATION Spec
CONSTANTS
    CapacityRows = 1
    MaxBatchSize = 1
    MaxOutstanding = 4
    DirectImports = TRUE
    Operations = {"TARGET_PREFILL"}
    StopKinds = {"SHUTDOWN"}
    MaxWorks = 1
    MaxGenerations = 2
INVARIANTS
    ComputeDoneSound
