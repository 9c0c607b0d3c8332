SPECIFICATION Spec
CONSTANTS
    Key = {k1, k2, k3}
    Password = Password
    Foreign = Foreign
    Typo = Typo
    None = None
    LostReplies = {"restore", "revert", "reinstate"}
    SyncFails = TRUE
    FlushFails = TRUE
    Crashes = TRUE
    TpmClears = TRUE
SYMMETRY KeySymmetry
INVARIANT BlobsKept
INVARIANT OwnedAuthMarked
INVARIANT FaceBelongs
PROPERTY EnrollNeverBlocks
PROPERTY CustodySpec
PROPERTY UnenrollNeverStrands
