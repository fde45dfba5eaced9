-------------------------------- MODULE MCSocket --------------------------------
(* Instances of Socket for TLC.                                             *)
EXTENDS Socket

CONSTANTS drone, monitor
=============================================================================
