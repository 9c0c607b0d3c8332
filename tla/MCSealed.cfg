SPECIFICATION FairSpec
CONSTANTS
    Seeds = 2
    MaxTries = 2
    EmptyReads = 2
    KeyChunks = 2
    ResetTimeout = 2
    ResetPoll = 1
    MaxLeaks = 1
    TpmFaults = {"command", "flush", "attributes", "child"}
    Content = {1, 2}
    None = None
    Torn = Torn
    Attempts = 2
    FileFaults = {"mkdir", "write", "rename", "remove", "syncdir"}
INVARIANTS HandlesFlushed EveryTryIsReported ChangeIsKnown
PROPERTIES FilesAtomic CallsReturn
