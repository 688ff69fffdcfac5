SPECIFICATION FairSpec
CONSTANTS
    None = None
    Offers <- MCOffers
    Wanted <- MCWanted
    Defects <- MCDefects
    MaxPolls = 2
    MaxLost = 1
INVARIANTS
    ConformingPasses
    WrongAnswersReported
PROPERTIES
    RunEnds
CHECK_DEADLOCK FALSE
