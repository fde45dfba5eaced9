------------------------------ MODULE MCCharoite ------------------------------
(* Instances of Charoite for TLC.                                           *)
EXTENDS Charoite, TLC

CONSTANTS k1, p1, v1, s1, s2

OneViewer  == p1 :> k1 @@ v1 :> k1
=============================================================================
