------------------------------- MODULE MCHttp -------------------------------
(* Instances of Http for TLC. *)
EXTENDS Http

CONSTANTS r1, r2, r3, b1, b2
=============================================================================
