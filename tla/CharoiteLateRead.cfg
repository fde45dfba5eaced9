\* A viewer comes and goes before the live stream has read its context.
SPECIFICATION CharoiteSpec
CONSTANTS
    k1 = k1
    p1 = p1
    v1 = v1
    s1 = s1
    s2 = s2
    None = None
    Keys = {k1}
    Key = k1
    Publishers = {p1}
    Viewers = {v1}
    KeyOf <- OneViewer
    MaxReports = 3
    UintMod = 9
    Streams = {s1, s2}
    TrackSource = "DRONE"
    Protocol = "rtp"
    MaxNotices = 2
    MaxRestarts = 0
CHECK_DEADLOCK FALSE
INVARIANTS
    UnwatchedStreamCancelled
