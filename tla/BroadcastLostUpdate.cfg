\* Two viewers of one stream connect at the same time.
SPECIFICATION Spec
CONSTANTS
    k1 = k1
    p1 = p1
    p2 = p2
    v1 = v1
    v2 = v2
    None = None
    Keys = {k1}
    Publishers = {p1}
    Viewers = {v1, v2}
    KeyOf <- OnePublisher
    MaxReports = 1
    UintMod = 6
CHECK_DEADLOCK FALSE
INVARIANTS
    AbsoluteCounterAlways
