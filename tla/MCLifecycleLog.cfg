SPECIFICATION Spec
CONSTANTS
    r1 = r1
    r2 = r2
    Runs <- MCRuns
    MaxBytes = 2
    MaxProduced = 3
    MaxTurns = 3
SYMMETRY MCSymmetry
INVARIANTS
    TypeOK
    TranscriptAccounted
    ToldOnce
PROPERTIES
    FailureOutlivesSuccess
CHECK_DEADLOCK FALSE
