SPECIFICATION Spec
CONSTANTS
    Ring = 4
    PollSlice = 4
    WarmMin = 2
    WarmDelta = 1
    Unlit = {0, 1}
    Lit = {2, 3}
    None = None
    Fails = {"camera", "matcher"}
    Deadline = 14
    FrameBudget = 3
    Work = 1
    MatchFrames = 5
    MinFrames = 3
    Distance = {0, 2}
    Threshold = 1
    LiveDelta = 2
INVARIANTS AcceptedByMajority PairIsOffOn WaitsWithinDeadline VerdictInTheDark
PROPERTY VerificationEnds
CHECK_DEADLOCK FALSE
