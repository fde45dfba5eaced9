\* One edge device and one viewer, either process restarted once.
SPECIFICATION CharoiteSpec
CONSTANTS
    k1 = k1
    p1 = p1
    v1 = v1
    s1 = s1
    s2 = s2
    None = None
    Keys = {k1}
    Key = k1
    Publishers = {p1}
    Viewers = {v1}
    KeyOf <- OneViewer
    MaxReports = 3
    UintMod = 9
    Streams = {s1, s2}
    TrackSource = "DRONE"
    Protocol = "rtp"
    MaxNotices = 2
    MaxRestarts = 1
CHECK_DEADLOCK FALSE
INVARIANTS
    WatchedStreamRuns
    UnwatchedContextsCancelled
