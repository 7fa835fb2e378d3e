SPECIFICATION Spec
CONSTANTS
    j1 = j1
    j2 = j2
    j3 = j3
    Jobs <- MCJobs
    WaveOf <- MCWaveOf
    Nodes = 6
    Versions = {v1, v2}
    Hosts = {host, other}
    Nobody = Nobody
    Edits = 1
SYMMETRY MCSymmetry
INVARIANTS
    TypeOK
    OneWriter
    OneIdentity
    MeasuredAsRecorded
PROPERTIES
    RefusedForCause
CHECK_DEADLOCK FALSE
