----------------------------- MODULE MCBroadcast -----------------------------
(* Instances of Broadcast for TLC.                                          *)
EXTENDS Broadcast, TLC

CONSTANTS k1, p1, p2, v1, v2

\* One publisher, or an edge device that offers again.
OnePublisher  == p1 :> k1 @@ v1 :> k1 @@ v2 :> k1
TwoPublishers == p1 :> k1 @@ p2 :> k1 @@ v1 :> k1
=============================================================================
