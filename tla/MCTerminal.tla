----------------------------- MODULE MCTerminal -----------------------------
(* Instances of Terminal for TLC. *)
EXTENDS Terminal

CONSTANTS a, b, success, failure
=============================================================================
