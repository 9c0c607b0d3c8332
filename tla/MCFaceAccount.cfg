SPECIFICATION FaceSpec
CONSTANTS
    Key = {k1, k2}
    Password = Password
    Foreign = Foreign
    Typo = Typo
    None = None
    LostReplies = {"restore", "revert", "reinstate"}
    SyncFails = TRUE
    FlushFails = FALSE
    Crashes = TRUE
    TpmClears = FALSE
    Width = 3
    Height = 3
    MinScore = 60
    MaxOverlap = 30
    Separation = 50
    MaxInput = 4096
    MaxOutput = 64
    Strides = {8, 16, 32}
    MockDim = 8
    Unset = Unset
    Configs <- MCConfigs
    Models <- ModelFiles
    Scenes <- SceneSet
    Self = "ada"
    Others <- MCOthers
    Shells <- MCShells
    Helpers <- MCHelpers
SYMMETRY KeySymmetry
INVARIANTS StrangerStaysOut OpenedByItsEnrollment SpoofStaysOut ProminentFaceIsJudged
CHECK_DEADLOCK FALSE
