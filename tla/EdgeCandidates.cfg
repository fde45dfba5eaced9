\* Two attempts that gather one and two candidates; one from the cloud and
\* garbage.
SPECIFICATION FairSpec
CONSTANTS
    c1 = c1
    c2 = c2
    r1 = r1
    g1 = g1
    MaxAttempts = 2
    Candidates <- LocalCandidates
    Remote = {r1}
    Garbage = {g1}
CHECK_DEADLOCK FALSE
INVARIANTS
    TypeOK
    GatheredAccounted
    OneStrandedAtMost
PROPERTIES
    TricklesSafely
    MutexServes
