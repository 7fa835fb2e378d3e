SPECIFICATION FairSpec
CONSTANTS
    h1 = h1
    h2 = h2
    Hosts <- OneHost
    Rank <- RankOfOne
    Outcomes <- SuiteEnds
    Leftovers <- AllLeftovers
    Interrupts = 3
INVARIANTS
    TypeOK
    SuccessIsMeasured
PROPERTIES
    StatusSealsTree
    ManifestWritten
CHECK_DEADLOCK FALSE
