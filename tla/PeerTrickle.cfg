\* A publisher or a viewer, three candidates of the cloud and three remote ones,
\* one more than the channel holds.
SPECIFICATION PageSpec
CONSTANTS
    c1 = c1
    c2 = c2
    c3 = c3
    r1 = r1
    r2 = r2
    r3 = r3
    Local = {c1, c2, c3}
    Remote = {r1, r2, r3}
INVARIANTS
    TypeOK
    AddedAfterDescribed
    AppliedInOrder
PROPERTIES
    Trickles
    OfferSettled
    RemoteCandidatesAdded
    CandidatesApplied
\* Everything is exchanged once, so the system stops.
CHECK_DEADLOCK FALSE
