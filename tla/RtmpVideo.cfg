\* Two clients on one track, one of which marks its PPS differently.
SPECIFICATION Spec
CONSTANTS
    a = a
    b = b
    Connections = {a, b}
    Plain <- MixedClients
    Frames <- SmallFrames
    MaxPackets = 4
    MaxVersion = 2
CHECK_DEADLOCK FALSE
INVARIANTS
    FramesKept
    KeyFramesStandAlone
