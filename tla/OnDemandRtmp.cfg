\* A cancelled RTMP stream goes on.
SPECIFICATION FairSpec
CONSTANTS
    s1 = s1
    s2 = s2
    s3 = s3
    Streams = {s1, s2}
    TrackSource = "DRONE"
    Protocol = "rtmp"
    MaxNotices = 2
CHECK_DEADLOCK FALSE
PROPERTIES
    CancelledStreamEnds
