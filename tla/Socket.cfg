\* A viewer of both track sources, who may offer one of them twice.
SPECIFICATION FairSpec
CONSTANTS
    drone = drone
    monitor = monitor
    TrackSources = {drone, monitor}
    MaxCandidates = 3
    MaxOffers = 2
    MaxOther = 1
INVARIANTS
    TypeOK
    CandidatesKept
PROPERTIES
    MessagesRead
    ReadersEnd
\* The connection is over, and its goroutines have ended.
CHECK_DEADLOCK FALSE
