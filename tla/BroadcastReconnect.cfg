\* An edge device offers again while its first publisher is still there.
SPECIFICATION FairSpec
CONSTANTS
    k1 = k1
    p1 = p1
    p2 = p2
    v1 = v1
    v2 = v2
    None = None
    Keys = {k1}
    Publishers = {p1, p2}
    Viewers = {v1}
    KeyOf <- TwoPublishers
    MaxReports = 2
    UintMod = 8
CHECK_DEADLOCK FALSE
INVARIANTS
    TrackHadLink
    LinkedPublisherRegistered
PROPERTIES
    ReturningEdgeReplaces
    FailedPeersClose
    CallbacksFinish
