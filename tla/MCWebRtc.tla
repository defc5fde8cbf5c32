------------------------------ MODULE MCWebRtc ------------------------------
(* Instances of WebRtc for TLC. *)
EXTENDS WebRtc

CONSTANTS x, c1, c2
=============================================================================
