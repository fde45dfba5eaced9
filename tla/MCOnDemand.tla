------------------------------ MODULE MCOnDemand ------------------------------
(* Instances of OnDemand for TLC.                                           *)
EXTENDS OnDemand, TLC

CONSTANTS s1, s2, s3
=============================================================================
