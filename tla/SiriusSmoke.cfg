SPECIFICATION Spec
CONSTANTS
    Libraries <- MCLibraries
    Configured <- MCConfigured
    Builds <- MCBuilds
    Links <- MCLinks
    Rows <- MCRows
    Controllers = {c1, c2}
    c1 = c1
    c2 = c2
    Faults = 2
SYMMETRY Symmetry
INVARIANTS
    TypeOK
    SmokeIsProved
    ProofIsOneInstant
    StopIsUnknown
CHECK_DEADLOCK FALSE
