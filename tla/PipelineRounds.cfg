SPECIFICATION Spec
CONSTANTS
    Requests = {r1}
    DraftWorkers = {1}
    TargetWorkers = {2}
    BankCount = 2
    MaxBatch = 2
    BankRows = 2
    MaxOutstanding = 4
    MaxNew = 3
    Depth = 1
    DirectImports = FALSE
    ImportRows = FALSE
    LateRows = FALSE
    FullRings = FALSE
    PollBudget = 2
INVARIANTS
    ResultsAccepted
    OneWriter
    WorkBudget
PROPERTY
    DecodesSequentially
