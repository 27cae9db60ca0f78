SPECIFICATION FairSpecOfEachKind
CONSTANTS
    Devices = {d1, d2}
    Versions <- TwoVersions
    Absent = Absent
    Unseen = Unseen
    MaxListed = 3
    MaxChanges = 1
INVARIANTS
    TypeOK
    ScanTellsEveryDevice
    VerdictWasTrue
PROPERTY EveryScanEnds
CHECK_DEADLOCK FALSE
