\* Two starts of an RTP stream among four notices.
SPECIFICATION FairSpec
CONSTANTS
    s1 = s1
    s2 = s2
    s3 = s3
    Streams = {s1, s2}
    TrackSource = "DRONE"
    Protocol = "rtp"
    MaxNotices = 4
CHECK_DEADLOCK FALSE
INVARIANTS
    TypeOK
    OneStreamPerContext
    FlagTruthful
    FlagFollowsCount
PROPERTIES
    CancelledStreamEnds
