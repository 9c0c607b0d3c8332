SPECIFICATION Spec
CONSTANTS
    Key = {k1, k2}
    Password = Password
    Foreign = Foreign
    Typo = Typo
    None = None
    LostReplies = {"rekey"}
    SyncFails = FALSE
    FlushFails = FALSE
    Crashes = FALSE
    TpmClears = FALSE
SYMMETRY KeySymmetry
INVARIANT UserCanOpen
