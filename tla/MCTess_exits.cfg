SPECIFICATION FairSpec
CONSTANTS
    Key = {k1, k2}
    Password = Password
    Foreign = Foreign
    Typo = Typo
    None = None
    LostReplies = {"restore", "revert", "reinstate"}
    SyncFails = FALSE
    FlushFails = TRUE
    Crashes = FALSE
    TpmClears = TRUE
INVARIANT WayBackWithoutTpm
INVARIANT RolledBack
PROPERTY CommandEnds
