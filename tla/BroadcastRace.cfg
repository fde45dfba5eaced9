\* Two viewers and one publisher of one stream.
SPECIFICATION Spec
CONSTANTS
    k1 = k1
    p1 = p1
    p2 = p2
    v1 = v1
    v2 = v2
    None = None
    Keys = {k1}
    Publishers = {p1}
    Viewers = {v1, v2}
    KeyOf <- OnePublisher
    MaxReports = 2
    UintMod = 8
CHECK_DEADLOCK FALSE
INVARIANTS
    TypeOK
    LinkAccounted
    CounterExact
    AbsoluteCounter
    LastNoticeCurrent
