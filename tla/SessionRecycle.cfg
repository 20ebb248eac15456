SPECIFICATION MemorySpec
CONSTANTS
    AdmissionSlots = 3
    DraftIds = {0, 1}
    PayloadCapacity = 1000
    HostArenaBlocks = 6
    KVBlockSize = 2
    Shapes <- NodeShapes
    MaxWorkRows = 2
    MaxCohorts = 2
INVARIANT AcceptedRequestsFit
CHECK_DEADLOCK FALSE
