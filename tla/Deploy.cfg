SPECIFICATION FairSpec
CONSTANTS
    Devices = {d1}
    Paths = {p1}
    Values = {a}
    EntityOf <- OneEntity
    Unset = Unset
    Missing = Missing
    MaxRuns = 1
    AuditAttempts = 2
    FetchAttempts = 2
    ApplyAttempts = 2
    CollectAttempts = 2
    DetectAttempts = 1
    Timeouts = TRUE
INVARIANTS TypeOK RecordsInOrder ReturnedResultIsRecorded OneTerminalRecord WriteIsAccountable
PROPERTIES EveryRunEnds ImplementsContract
CHECK_DEADLOCK FALSE
