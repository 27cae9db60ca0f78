SPECIFICATION Spec
CONSTANTS
    Operators = {o1, o2, o3}
    Intervals = {i1, i2}
    MaxCommands = 1
    MaxRuns = 1
    Found <- Settled
SYMMETRY OperatorSymmetry
INVARIANTS
    TypeOK
    TrailFitsTheChanges
    RemediateWasConfirmed HistoryTellsTheSchedule
CHECK_DEADLOCK FALSE
