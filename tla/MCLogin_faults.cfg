SPECIFICATION FairSpec
CONSTANTS
    DefaultDeadline = 4
    FingerprintDeadline = 7
    FaceDeadline = 8
    Budget = {4, 7, 8, 15}
    Grace = 3
    Poll = 2
    HostReaps = FALSE
    SignalFails = TRUE
    Sticks = TRUE
    LegTime <- ShortTime
    Faults <- EveryFault
    Hangs <- Leg
INVARIANTS ReturnsInTime NoHelperLeft
           OpenedByAFactor AuthorizedIsOpen TriesBounded RoomForThePin
PROPERTIES SignalsOwnChild HelperEnds Supervised
CHECK_DEADLOCK FALSE
