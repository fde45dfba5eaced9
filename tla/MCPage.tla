--------------------------------- MODULE MCPage --------------------------------
(* Instances of Page, and with it of PeerSignaling, for TLC.                *)
EXTENDS Page, TLC

CONSTANTS c1, c2, c3, r1, r2, r3
=============================================================================
