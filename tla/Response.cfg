SPECIFICATION FairSpec
CONSTANTS
    Devices = {d1, d2, d3}
    MaxRuns = 1
INVARIANTS
    TypeOK
    ReturnedMeansScanned
    DecisionsAreRecorded
PROPERTY SlotIsGivenBack
CHECK_DEADLOCK FALSE
