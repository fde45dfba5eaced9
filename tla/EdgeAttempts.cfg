\* Three attempts, late and lost answers, failing flushes, every ICE outcome.
SPECIFICATION FairSpec
CONSTANTS
    MaxAttempts = 3
    Garbled = {3}
CHECK_DEADLOCK FALSE
INVARIANTS
    TypeOK
    WaitersBounded
    OpenPeersBounded
    AnswersMatch
PROPERTIES
    FailuresRetried
