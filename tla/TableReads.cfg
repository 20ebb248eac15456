SPECIFICATION Spec
CONSTANTS
    Workers = 1
    Registered = 1
    Unregistered = 1
    Owner <- MCOwner
    PriorityRows <- MCFirstRow
    Fields = {f, g}
    Capacity = 1
    Budget = 1
    Retries = 2
    SeqSpace = 5
    MaxPublications = 2
    MaxResets = 1
INVARIANTS
    NoLostWakeup
    HintsBehindRows
PROPERTY
    ReadsAreAtomic
