SPECIFICATION Spec
CONSTANTS
    Requests = {r1, r2}
    DraftWorkers = {1}
    TargetWorkers = {2}
    BankCount = 1
    MaxBatch = 2
    BankRows = 2
    MaxOutstanding = 1
    MaxNew = 2
    Depth = 1
    DirectImports = TRUE
    ImportRows = FALSE
    LateRows = FALSE
    FullRings = FALSE
    PollBudget = 2
SYMMETRY Symmetry
INVARIANT NoFailure
