---------------------------- MODULE MCEdgePublisher ----------------------------
(* Instances of EdgePublisher for TLC.                                      *)
EXTENDS EdgePublisher
=============================================================================
