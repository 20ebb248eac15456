SPECIFICATION NodeSpec
CONSTANTS
    CapacityRows = 1
    MaxBatchSize = 1
    MaxOutstanding = 4
    DirectImports = TRUE
    Operations = {"TARGET_PREFILL", "TARGET_VERIFY"}
    StopKinds = {"DRAIN", "SHUTDOWN"}
    MaxWorks = 3
    MaxGenerations = 1
    HostSlots = {1, 2}
    CopiedSlots = {1}
    Copiers = {c1, c2}
    ArenaBlocks = 3
    BlockTokens = 2
    ExtentSizes = {1, 2}
    MaxLength = 3
    MaxAllocations = 2
    CopyPlans <- NodePlans
    ChunkBytes = 4
    GroupSize = 2
    MaxPlans = 2
    MaxFaults = 1
INVARIANTS
    NoFailure
    BankExclusive
    ComputeDoneSound
    CompletionFinal
    CleanStop
    ExtentsOwned
    CopiesIntact
    CopiedInFull
    CloseIsClean
