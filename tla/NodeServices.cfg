SPECIFICATION NodeSpec
CONSTANTS
    Rows = {w1, w2}
    Requests = {r1, r2}
    BankBlocks = 6
    BlockSize = 1
    NoBatch = 0
    PromptLen = 1
    MaxDraft = 1
    Capacity = 3
    MaxRounds = 3
    MaxBatches = 3
    MaxExports = 1
    MaxAborts = 1
    AdmissionSlots = 3
    DraftIds = {0, 1}
    PayloadCapacity = 1000
    HostArenaBlocks = 6
    KVBlockSize = 2
    Shapes <- NodeShapes
    MaxWorkRows = 2
    MaxCohorts = 2
    RingSlots = 4
    PayloadBytes = 5
    PayloadSizes = {1, 2, 3}
    SeqModulus = 5
    MaxCommands = 6
SYMMETRY Symmetry
INVARIANTS
    BanksConsistent
    RowsOwned
    ContentsIntact
    LeasesCurrent
    AdmissionKept
    HandlesNamePayloads
    CommandsDelivered
CHECK_DEADLOCK FALSE
