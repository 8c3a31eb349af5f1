\* A cap of two units on streams that carry up to four: chunks that leave room,
\* fill the cap exactly, cross it, and arrive after it.
SPECIFICATION FairSpec
CONSTANTS
    MaxOutput = 2
    MaxBytes = 4
INVARIANTS
    TimeoutLeavesNothing
    OutputAccounted
PROPERTIES
    RunBounded
    CallerAnswered
CHECK_DEADLOCK FALSE
