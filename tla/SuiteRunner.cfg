SPECIFICATION FairSpec
CONSTANTS
    Campaigns <- MCCampaigns
    MaxOutput = 2
    MaxRuns = 2
CHECK_DEADLOCK FALSE
INVARIANTS
    TypeOK
    TrialsAccounted
    StopIsFinal
    PassIsMeasured
    CompleteIsValid
PROPERTIES
    ImplementsMatrix
    EveryRunEnds
