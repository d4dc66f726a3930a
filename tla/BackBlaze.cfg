SPECIFICATION BBFairSpec
CONSTANTS
    MAX_TRIALS = 3
    MaxStart = 2
CHECK_DEADLOCK FALSE
INVARIANTS
    BBTypeOK
    TrueMeansStored
    CallIsBounded
PROPERTIES
    ImplementsBackupCall
    ExpiredTokenEndsProcess
    RetriedUploadSucceeds
