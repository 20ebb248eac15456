SPECIFICATION DispatchSpec
CONSTANTS
    None = None
    Slots = {s1, s2, s3}
    Used = {s1}
    Batches = {{s1}, {s2, s3}}
    DraftWorkers = {d1, d2}
    Targets = {t1}
    RingCapacity = 2
    MaxRound = 2
    MaxEpoch = 2
SYMMETRY Symmetry
INVARIANTS
    CommandsAccepted
    KVAsNamed
    FencesHold
    DispatchOfOneLifetime
    NoStrandedCommand
CHECK_DEADLOCK FALSE
