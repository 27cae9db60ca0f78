SPECIFICATION FairSpec
CONSTANTS
    dcfabric = dcfabric
    UseCases = {dcfabric}
    Unset = Unset
    Ids <- SmallIds
    Values <- TwoValues
    Declarations <- SmallDeclarations
    Theirs <- TheirDevices
    Queries <- Asked
    IPv4 <- WithoutColon
    MaxSeeds = 2
    MaxPolls = 2
    MaxChanges = 1
INVARIANTS
    TypeOK
    SeededMeansDeclared
    OnlyDisturbedSeedsAreRefused
    AnswerHoldsWhatStood
PROPERTIES
    NothingIsWrittenToTheirs
    EverySeedEnds
CHECK_DEADLOCK FALSE
