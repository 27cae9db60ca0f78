SPECIFICATION FairRecSpec
CONSTANTS
    Devices = {d1, d2}
    Reconciles = {r1}
    MaxRuns = 2
    MaxIds = 3
    Closings <- OneOfEach
INVARIANTS
    RecTypeOK
    ResultIsEarned
    ReturnedMeansSettled
    RecordsFit
PROPERTIES EveryReconcileEnds
CHECK_DEADLOCK FALSE
