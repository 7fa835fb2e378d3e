SPECIFICATION Spec
CONSTANTS
    h1 = h1
    h2 = h2
    Hosts <- TwoHosts
    Rank <- RankOfTwo
    Outcomes <- FewOutcomes
    Leftovers <- TornRaw
    Interrupts = 1
INVARIANTS
    AcceptedForGood
    FailureStaysLocal
CHECK_DEADLOCK FALSE
