SPECIFICATION Spec
CONSTANTS
    Devices = {d1}
    Paths = {p1, p2}
    Values = {a}
    EntityOf <- OneEntity
    Unset = Unset
    Missing = Missing
    MaxRuns = 2
    AuditAttempts = 1
    FetchAttempts = 1
    ApplyAttempts = 2
    CollectAttempts = 1
    DetectAttempts = 1
    Timeouts = FALSE
INVARIANTS SuccessHolds
PROPERTIES WritersInOrder
SYMMETRY ValueSymmetry
CHECK_DEADLOCK FALSE
