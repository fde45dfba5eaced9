----------------------------- MODULE MCEdgeTrickle -----------------------------
(* Instances of EdgeTrickle for TLC.                                        *)
EXTENDS EdgeTrickle, TLC

CONSTANTS c1, c2, r1, g1

\* One local candidate in the first attempt, two in the second.
LocalCandidates == {<<1, c1>>, <<2, c1>>, <<2, c2>>}
=============================================================================
