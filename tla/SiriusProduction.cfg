SPECIFICATION Spec
CONSTANTS
    NODES = 2
    INVOCATIONS = 1
    Faults = 1
INVARIANTS
    TypeOK
    CompleteIsMeasured
    NextWaveJustified
    CollectedIsJudged
    StopIsUnknown
    FailureStaysLocal
CHECK_DEADLOCK FALSE
