SPECIFICATION Spec
CONSTANTS
    i = i
    j = j
    c = c
    d = d
    Starts = {i, j}
    Commands = {c, d}
    NoRuntime = NoRuntime
    MaxShutdowns = 1
INVARIANTS
    BashNeverDrifts
PROPERTIES
    OptOutHolds
    SupersededMutatesNothing
CHECK_DEADLOCK FALSE
