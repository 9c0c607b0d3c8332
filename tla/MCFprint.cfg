SPECIFICATION Spec
CONSTANTS
    Deadline = 3
    CleanupGrace = 2
    MaxStatus = 2
INVARIANTS OwnVerdict NoGap ReturnsReleased
PROPERTY ReaderGivenUp
CHECK_DEADLOCK FALSE
