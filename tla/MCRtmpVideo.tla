------------------------------ MODULE MCRtmpVideo ------------------------------
(* Instances of RtmpVideo for TLC.                                          *)
EXTENDS RtmpVideo, TLC

CONSTANTS a, b

\* One client as OnVideo expects it, one that marks its PPS differently.
MixedClients == a :> Sets @@ b :> {"sps"}

\* Slices shorter and longer than a length field, first and last in a frame.
SmallFrames == {<<1>>, <<1, 6>>}
=============================================================================
