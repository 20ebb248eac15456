SPECIFICATION FairSpec
CONSTANTS
    Requests = {r1}
    DraftWorkers = {1}
    TargetWorkers = {2}
    BankCount = 1
    MaxBatch = 2
    BankRows = 2
    MaxOutstanding = 4
    MaxNew = 2
    Depth = 1
    DirectImports = TRUE
    ImportRows = TRUE
    LateRows = TRUE
    FullRings = TRUE
    PollBudget = 1
INVARIANT
    NoStrandedWork
PROPERTY
    BecomesQuiescent
\* A system at rest stays at rest; the property says in which states it may.
CHECK_DEADLOCK FALSE
