SPECIFICATION FairTables
CONSTANTS
    Workers = 1
    Registered = 2
    Unregistered = 0
    Owner <- MCOwner
    PriorityRows <- MCNoPriority
    Fields = {f}
    Capacity = 1
    Budget = 1
    Retries = 1
    SeqSpace = 5
    MaxPublications = 2
    MaxResets = 1
    TableRows = 3
    IgnoredRows = {}
    FirstRows <- LocalFirst
    HintRings = 1
    RingOf <- LocalRings
    HintCapacity = 1
    ReadBudgets = {0, 1}
    ReadRetries = 1
    MaxVersions <- LocalVersions
    MaxBarriers = 1
INVARIANTS
    NothingForgotten
    LocalReaderSound
    OutputFits
PROPERTY
    ReadersCatchUp
