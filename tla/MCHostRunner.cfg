SPECIFICATION Spec
CONSTANTS
    a1 = a1
    a2 = a2
    a3 = a3
    Attempts <- MCAttempts
    MaxSessions = 2
    Limit = 2
SYMMETRY MCSymmetry
INVARIANTS
    TypeOK
    RecordedAsItEnded
    LedgerCountsEnds
    AnnouncedOnce
CHECK_DEADLOCK FALSE
