SPECIFICATION Spec
CONSTANTS
    Processes = {worker, cli}
    Events = {e1, e2}
    MaxAttempts = 2
    MaxInstant = 2
    Offsets <- TwoOffsets
SYMMETRY WriterSymmetry
INVARIANTS TypeOK RangeIsExact
PROPERTY ImplementsAuditLog
CHECK_DEADLOCK FALSE
