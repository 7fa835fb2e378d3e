SPECIFICATION Spec
CONSTANTS
    Order <- MCOrder
    Faults = 2
INVARIANTS
    TypeOK
    BuiltIsCertified
    NothingSkipped
    PreparedIsBuilt
CHECK_DEADLOCK FALSE
